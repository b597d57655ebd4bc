------------------------------ MODULE RtcOutput ------------------------------
(***************************************************************************)
(* What an RTC session sends to Qwen: the serialized SSE writer            *)
(* (createSerializedSseOutput) and the progress scheduler that feeds it    *)
(* with the events of the jobs the session has touched                     *)
(* (createProgressScheduler, JobEventSubscription).                        *)
(*                                                                         *)
(* The process is single-threaded; a step is what runs between two awaits. *)
(* A frame is numbered when it is queued, its text left out; a frame about *)
(* a job also carries the number of the event it reports.  "after" is how  *)
(* many frames had been written when it was queued, "overtaken" whether a  *)
(* newer approval or outcome of its job was announced while it was on its  *)
(* way from the scheduler to the writer: both are history.                 *)
(***************************************************************************)
EXTENDS Integers, Sequences

CONSTANTS
  Jobs,
  Speeches,  \* what is said: how many fragments, with a highlight, urgently
  Coalesce,  \* PROGRESS_COALESCE_MS
  MaxCalls,  \* bound on calls of the writer and events of the scheduler
  MaxTime,
  None       \* no timer, no window, no job

ASSUME OutputAssumption ==
  /\ Coalesce \in Nat \ {0} /\ MaxCalls \in Nat /\ MaxTime \in Nat
  /\ Speeches \subseteq [fragments : Nat, highlight : BOOLEAN, urgent : BOOLEAN]
  /\ None \notin Jobs

VARIABLES
  queue,      \* the writer's queue
  wire,       \* the frames written to the socket
  closed,     \* the writer's closed: closed, or its socket failed
  aborted,    \* the session's signal
  ended,      \* writer.end was called
  generation, \* speechGeneration
  scheduled,  \* drainScheduled
  drains,     \* drain calls that wait for their next turn
  requested,  \* how many frames have been queued
  subscribed, \* the jobs of the current subscription
  pending,    \* the newest unsent progress of each job, in Map order
  timer,      \* when the coalescing timer fires
  window,     \* windowStart
  done,       \* the scheduler is closed
  flights,    \* batches flushPending is handing over, and the frame awaited
  calls, now

output == <<queue, wire, closed, aborted, ended, generation, scheduled, drains,
            requested>>
scheduler == <<subscribed, pending, timer, window, done, flights>>
vars == <<output, scheduler, calls, now>>

-----------------------------------------------------------------------------
(* The writer *)

Stopped == closed \/ aborted

Item(kind, job, event, urgent) ==
  [kind |-> kind, job |-> job, event |-> event, urgent |-> urgent,
   id |-> 0, gen |-> generation, valid |-> TRUE, overtaken |-> FALSE,
   after |-> Len(wire)]

\* enqueue: nothing once the writer has stopped, else a drain is scheduled
\* unless one is already.
Enqueued(q, items) ==
  IF Stopped \/ items = <<>>
    THEN queue' = q /\ UNCHANGED <<scheduled, requested>>
    ELSE /\ queue' = q \o [i \in DOMAIN items |->
                            [items[i] EXCEPT !.id = requested + i]]
         /\ scheduled' = TRUE
         /\ requested' = requested + Len(items)

Calls == calls < MaxCalls /\ calls' = calls + 1

Call(items) ==
  /\ Calls
  /\ Enqueued(queue, items)
  /\ UNCHANGED <<wire, closed, aborted, ended, drains, scheduler, now>>

\* speak: a frame for each fragment, and the highlight; all of them belong to
\* the current generation of speech.
Speak(s) ==
  /\ Call([i \in 1..s.fragments |-> Item("speak", None, 0, s.urgent)]
            \o (IF s.highlight THEN <<Item("highlight", None, 0, s.urgent)>>
                               ELSE <<>>))
  /\ UNCHANGED generation

\* appendHighlight and keepalive: frames that are always valid.
Plain ==
  /\ Call(<<Item("plain", None, 0, FALSE)>>)
  /\ UNCHANGED generation

\* Faulty variant: the queued speech stays valid.
FaultyNextGeneration == generation

NextGeneration == generation + 1

\* stopOutput
StopOutput ==
  /\ Call(<<Item("stop", None, 0, FALSE)>>)
  /\ generation' = NextGeneration

\* close: drop the queue, end the socket's writer.
Close ==
  /\ ~closed
  /\ closed' = TRUE /\ ended' = TRUE
  /\ generation' = NextGeneration
  /\ queue' = <<>>
  /\ UNCHANGED <<wire, aborted, scheduled, drains, requested, scheduler, calls,
                 now>>

\* The session's signal aborts; the queue is dropped by the next turn.
Abort ==
  /\ ~aborted
  /\ aborted' = TRUE
  /\ UNCHANGED <<queue, wire, closed, ended, generation, scheduled, drains,
                 requested, scheduler, calls, now>>

\* splice(i, 1) of an array, and delete of the i-th key of a Map.
Without(s, i) == [k \in 1..(Len(s) - 1) |-> s[IF k < i THEN k ELSE k + 1]]

\* Faulty variant: strictly first come, first served.
FaultyPicked(q, i) == i = 1

\* i is the first urgent item, else the first.
Picked(q, i) ==
  LET urgent == {k \in DOMAIN q : q[k].urgent}
  IN IF urgent = {} THEN i = 1 ELSE i \in urgent /\ \A k \in urgent : i <= k

Speech == {"speak", "highlight"}

\* item.valid: speech of a former generation and cancelled progress are not
\* written.
Valid(item) ==
  /\ item.kind \in Speech => item.gen = generation
  /\ item.valid

\* writeFrame: the socket may throw, which closes the writer and drops the rest.
Write(item, rest) ==
  \/ /\ wire' = Append(wire, item)
     /\ queue' = rest
     /\ UNCHANGED <<closed, ended>>
  \/ /\ closed' = TRUE /\ ended' = TRUE
     /\ queue' = <<>>
     /\ UNCHANGED wire

\* One item leaves the queue.
TakeItem ==
  \E i \in DOMAIN queue :
    /\ Picked(queue, i)
    /\ IF Valid(queue[i])
         THEN Write(queue[i], Without(queue, i))
         ELSE queue' = Without(queue, i) /\ UNCHANGED <<wire, closed, ended>>

\* Faulty variant: a drain that finds the writer stopped leaves the queue.
FaultyDropped == queue

Dropped == <<>>

\* A turn of a drain's loop; running counts the drains, this one included.
Loop(running) ==
  \/ /\ queue = <<>> \/ Stopped
     /\ drains' = running - 1
     /\ queue' = IF Stopped THEN Dropped ELSE queue
     /\ UNCHANGED <<wire, closed, ended>>
  \/ /\ queue # <<>> /\ ~Stopped
     /\ drains' = running
     /\ TakeItem

\* A scheduled drain starts: enqueue may schedule another one from now on.
Start ==
  /\ scheduled
  /\ scheduled' = FALSE
  /\ Loop(drains + 1)
  /\ UNCHANGED <<aborted, generation, requested, scheduler, calls, now>>

\* A drain goes on after its await.
Continue ==
  /\ drains > 0
  /\ Loop(drains)
  /\ UNCHANGED <<aborted, generation, scheduled, requested, scheduler, calls,
                 now>>

-----------------------------------------------------------------------------
(* The scheduler *)

\* touchJob and JobEventSubscription.track: subscribe again, with one job more.
TouchJob(j) ==
  /\ ~done /\ j \notin subscribed
  /\ subscribed' = subscribed \cup {j}
  /\ UNCHANGED <<output, pending, timer, window, done, flights, calls, now>>

Greater(a, b) == IF a > b THEN a ELSE b

\* scheduleFlush: at the end of the window, which starts now unless it is open.
\* An armed timer stays as it is.
ScheduleFlush ==
  LET start == IF window = None THEN now ELSE window
  IN IF timer # None
       THEN UNCHANGED <<timer, window>>
       ELSE /\ window' = start
            /\ timer' = now + Greater(0, Coalesce - (now - start))

\* pending.set: a job already there keeps its place.
WithProgress(j, event) ==
  IF \E i \in DOMAIN pending : pending[i].job = j
    THEN [i \in DOMAIN pending |-> IF pending[i].job = j
                                     THEN [job |-> j, event |-> event]
                                     ELSE pending[i]]
    ELSE Append(pending, [job |-> j, event |-> event])

\* handle, for a progress event of a subscribed job.
Progress(j) ==
  /\ ~done /\ j \in subscribed
  /\ Calls
  /\ pending' = WithProgress(j, calls + 1)
  /\ ScheduleFlush
  /\ UNCHANGED <<output, subscribed, done, flights, now>>

\* cancelPendingProgress
Cancelled(q) ==
  [i \in DOMAIN q |-> [q[i] EXCEPT !.valid = @ /\ q[i].kind # "progress"]]

\* Faulty variant: nothing is cleared.
FaultyKept(j) == pending

\* What an event of job j leaves pending; an approval without a job (None)
\* leaves nothing.
Kept(j) ==
  LET mine == {i \in DOMAIN pending : pending[i].job = j}
  IN IF j = None THEN <<>>
     ELSE IF mine = {} THEN pending
     ELSE Without(pending, CHOOSE i \in mine : TRUE)

KeptTimer(j) == IF Kept(j) = <<>> THEN None ELSE timer

\* Progress already taken from pending cannot be called back.
Overtaken(j) ==
  {[f EXCEPT !.rest = [i \in DOMAIN f.rest |->
      [f.rest[i] EXCEPT !.overtaken = @ \/ j \in {None, f.rest[i].job}]]] :
    f \in flights}

\* handle, for an approval or the outcome of a job.
Announce(kind, j) ==
  /\ ~done
  /\ j = None \/ j \in subscribed
  /\ Calls
  /\ pending' = Kept(j)
  /\ timer' = KeptTimer(j)
  /\ window' = IF j = None THEN None ELSE window
  /\ flights' = Overtaken(j)
  /\ Enqueued(Cancelled(queue), <<Item(kind, j, calls + 1, TRUE)>>)
  /\ UNCHANGED <<wire, closed, aborted, ended, generation, drains, subscribed,
                 done, now>>

\* The loop of flushPending: the first frame of the batch is requested, the
\* rest waits until it is written or dropped.  others are the other batches.
HandOver(batch, others) ==
  LET p == Head(batch)
  IN /\ Enqueued(queue, <<[Item("progress", p.job, p.event, FALSE) EXCEPT
                              !.overtaken = p.overtaken]>>)
     /\ flights' = others \cup
          {[awaits |-> IF Stopped THEN 0 ELSE requested + 1, of |-> p.event,
            rest |-> Tail(batch)]}

\* flushPending takes what is pending.
FlushPending ==
  /\ timer' = None /\ window' = None
  /\ pending' = <<>>
  /\ IF pending = <<>>
       THEN UNCHANGED <<queue, scheduled, requested, flights>>
       ELSE HandOver([i \in DOMAIN pending |->
                       [job |-> pending[i].job, event |-> pending[i].event,
                        overtaken |-> FALSE]], flights)
  /\ UNCHANGED <<wire, closed, aborted, ended, generation, drains, subscribed,
                 done, now>>

\* The timer.
TimerFires ==
  /\ timer # None /\ timer <= now
  /\ FlushPending
  /\ UNCHANGED calls

\* flush
Flush ==
  /\ ~done
  /\ Calls
  /\ FlushPending

\* The awaited frame is written or dropped: the next one of the batch is
\* requested, or the call is over.
GoOn(f) ==
  /\ \A i \in DOMAIN queue : queue[i].id # f.awaits
  /\ IF f.rest = <<>>
       THEN /\ flights' = flights \ {f}
            /\ UNCHANGED <<queue, scheduled, requested>>
       ELSE HandOver(f.rest, flights \ {f})
  /\ UNCHANGED <<wire, closed, aborted, ended, generation, drains, subscribed,
                 pending, timer, window, done, calls, now>>

\* close: a batch on its way goes on.
CloseScheduler ==
  /\ ~done
  /\ done' = TRUE
  /\ timer' = None /\ pending' = <<>> /\ subscribed' = {}
  /\ UNCHANGED <<output, window, flights, calls, now>>

\* A timer that is due fires before time goes on.
Tick ==
  /\ now < MaxTime
  /\ timer # None => timer > now
  /\ now' = now + 1
  /\ UNCHANGED <<output, scheduler, calls>>

-----------------------------------------------------------------------------

Init ==
  /\ queue = <<>> /\ wire = <<>>
  /\ closed = FALSE /\ aborted = FALSE /\ ended = FALSE
  /\ generation = 0 /\ scheduled = FALSE /\ drains = 0 /\ requested = 0
  /\ subscribed = {} /\ pending = <<>> /\ timer = None /\ window = None
  /\ done = FALSE /\ flights = {}
  /\ calls = 0 /\ now = 0

GoesOn == \E f \in flights : GoOn(f)

Next ==
  \/ \E s \in Speeches : Speak(s)
  \/ Plain \/ StopOutput \/ Close \/ Abort
  \/ Start \/ Continue
  \/ \E j \in Jobs : TouchJob(j) \/ Progress(j)
  \/ \E j \in Jobs \cup {None} : Announce("approval", j)
  \/ \E j \in Jobs : Announce("terminal", j)
  \/ TimerFires \/ Flush \/ GoesOn \/ CloseScheduler
  \/ Tick

Spec == Init /\ [][Next]_vars

\* Microtasks run: a drain that can take a turn does, an awaited promise that is
\* resolved lets its caller go on.
Fairness == WF_vars(Start) /\ WF_vars(Continue) /\ WF_vars(GoesOn)

-----------------------------------------------------------------------------
(* Properties *)

\* Approvals and outcomes overtake what is queued and nothing else changes
\* order: between the request of an urgent frame and its writing only urgent
\* frames are written, and frames of one urgency are written as they were
\* requested, however many drains run.
WireOrder ==
  \A i, k \in DOMAIN wire : i < k =>
    /\ wire[k].urgent /\ i > wire[k].after => wire[i].urgent
    /\ wire[i].urgent = wire[k].urgent => wire[i].id < wire[k].id

\* STOP_OUTPUT silences what was said before it: of the speech written after the
\* call, everything was requested after it.
StopSilences ==
  \A i, k \in DOMAIN wire :
    wire[k].kind = "stop" /\ i > wire[k].after /\ wire[i].kind \in Speech
      => wire[i].id > wire[k].id

\* An approval or an outcome clears stale progress: after it no older progress
\* of its job is written, save one that flushPending had already taken and
\* whose turn came after.
NoStaleProgress ==
  \A i, k \in DOMAIN wire :
    i < k /\ wire[i].kind \in {"approval", "terminal"}
      /\ wire[k].kind = "progress" /\ wire[i].job \in {None, wire[k].job}
      /\ wire[k].event < wire[i].event
      => wire[k].overtaken

\* No caller waits for ever: the queue empties and every flush ends, also when
\* the session is aborted or the socket fails in the middle.
CallsSettle == []<>(queue = <<>>) /\ []<>(flights = {})
=============================================================================
