----------------------------- MODULE OwnedAttempt -----------------------------
(***************************************************************************)
(* One attempt of a job on the Mac, from its offer to its outcome: the     *)
(* command coordinator, the owned-agent driver, the cancel handler, the    *)
(* terminal authority, the exchange of job.sync for job.state and the      *)
(* owned intent and terminal records of the plugin store.                  *)
(*                                                                         *)
(* The control plane is the part of JobStore an attempt sees, and the link *)
(* is what ConnectorLink shows of it: the queues of both sides are ordered,*)
(* survive a lost connection and are consumed once.  Commands are handled  *)
(* one at a time, also across connections.  Approvals are left out.        *)
(***************************************************************************)
EXTENDS Naturals, Sequences, FiniteSets

CONSTANTS
  MaxOffers,    \* how often the job is offered before it is claimed
  MaxCancels,   \* cancellations by the owner
  MaxDrops,     \* lost connections
  MaxCrashes,   \* crashes of the plugin's process
  MaxTimeouts,  \* exchanges and commands that miss their deadline
  MaxFailures   \* failures of the Harness to create or to persist

VARIABLES
  status,       \* jobs.status
  lease,        \* jobs.lease_id: how often the job was offered
  rows,         \* server messages of this job: offers, cancels, states
  consumed,     \* client messages the control plane has consumed
  conn,         \* "down", "offline", "open" or "ready" (welcome handled)
  epoch,        \* number of the latest connection that became ready
  arrived,      \* rows that reached the current socket
  cursor,       \* rows the receive pump has recorded
  delivered,    \* commands whose receipt is complete
  recovering,   \* the welcome is still running recoverPendingInbound
  out,          \* durable outbound queue: claims, syncs, the outcome
  intent,       \* phase of the owned intent
  terminal,     \* local terminal record
  handler,      \* command being handled and the connection it came from
  step,         \* where that handler waits
  waiter,       \* pending job.state exchange
  native,       \* outcome commitNativeOutcome is trying to record
  live,         \* the driver has the attempt registered
  cancellation, \* issued cancellation authority: its connection, or 0
  agent,        \* Harness agent of the attempt
  runs,         \* initial inputs given to an agent
  ended,        \* how the agent's turn ended
  spent         \* use of the bounds

server == <<status, lease, rows, consumed>>
socket == <<conn, epoch, arrived, recovering>>
journal == <<cursor, delivered>>
owned == <<intent, terminal>>
task == <<handler, step>>
exchange == <<waiter, native>>
attempt == <<live, cancellation>>
harness == <<agent, runs, ended>>
vars == <<server, socket, journal, out, owned, task, exchange, attempt, harness,
          spent>>

Outcomes == {"succeeded", "failed"}

Row(type, held, seen, ref) ==
  [type |-> type, lease |-> held, status |-> seen, ref |-> ref]
Message(type, held, outcome) ==
  [type |-> type, lease |-> held, outcome |-> outcome]

NoHandler == [row |-> 0, epoch |-> 0]
NoWaiter == [owner |-> "none", request |-> 0, scope |-> FALSE]

Spend(what) == spent' = [spent EXCEPT ![what] = @ + 1]

-----------------------------------------------------------------------------
(* The control plane *)

\* claimOfferedJob: only the current offer of a dispatched job is claimed.
ClaimAccepted(m) == status = "dispatched" /\ m.lease = lease

\* ingestJobEvent and ingestJobCancelled along the transition table.
OutcomeAccepted(m) ==
  \/ status \in {"running", "cancelling"} /\ m.outcome \in Outcomes
  \/ status = "cancelling" /\ m.outcome = "cancelled"

\* acceptClientMessage: the next message of the Connector's ordered queue.  A
\* message without effect is consumed as a rejection.
Consume ==
  /\ conn = "ready" /\ consumed < Len(out)
  /\ consumed' = consumed + 1
  /\ LET m == out[consumed + 1] IN
       \/ /\ m.type = "claim"
          /\ status' = IF ClaimAccepted(m) THEN "running" ELSE status
          /\ rows' = rows
       \/ /\ m.type = "sync"
          /\ rows' = Append(rows, Row("state", lease, status, consumed + 1))
          /\ status' = status
       \/ /\ m.type = "outcome"
          /\ status' = IF OutcomeAccepted(m) THEN m.outcome ELSE status
          /\ rows' = rows
  /\ UNCHANGED <<lease, socket, journal, out, owned, task, exchange, attempt,
                 harness, spent>>

\* dispatchNext after the lease of an unclaimed offer has lapsed.
OfferAgain ==
  /\ status = "dispatched" /\ lease < MaxOffers
  /\ lease' = lease + 1
  /\ rows' = Append(rows, Row("offer", lease + 1, "dispatched", 0))
  /\ UNCHANGED <<status, consumed, socket, journal, out, owned, task, exchange,
                 attempt, harness, spent>>

\* cancelAtomically: before the claim the job just ends; a running job waits
\* for its Connector.
OwnerCancels ==
  /\ spent.cancel < MaxCancels
  /\ \/ /\ status = "dispatched"
        /\ status' = "cancelled" /\ rows' = rows
     \/ /\ status = "running"
        /\ status' = "cancelling"
        /\ rows' = Append(rows, Row("cancel", lease, "cancelling", 0))
  /\ Spend("cancel")
  /\ UNCHANGED <<lease, consumed, socket, journal, out, owned, task, exchange,
                 attempt, harness>>

-----------------------------------------------------------------------------
(* The exchange of job.sync for job.state *)

\* observe: one waiter per job, on the current connection.
CanObserve == waiter.owner = "none" /\ conn = "ready"

\* observe and publishSync, after the messages in front of it.  scope: the
\* request is made inside a command handler, which lets its answer overtake
\* the commands the pump has not reached.
Observe(owner, scope, before) ==
  /\ out' = before \o <<Message("sync", 0, "none")>>
  /\ waiter' = [owner |-> owner, request |-> Len(before) + 1, scope |-> scope]

\* A handler returns.  Its command is complete only if the connection it came
\* from is still the current one; otherwise it is delivered again.
SameSocket == conn = "ready" /\ handler.epoch = epoch
Return(complete) ==
  /\ step' = "idle" /\ handler' = NoHandler
  /\ delivered' = IF complete THEN delivered \cup {handler.row} ELSE delivered

\* The exchange ends without an answer: the start is not admitted, the
\* cancellation is ignored, the native outcome is dropped.
ExchangeFails(complete) ==
  /\ waiter' = NoWaiter
  /\ IF waiter.owner \in {"start", "cancel"}
       THEN Return(complete) /\ native' = native
       ELSE native' = "none" /\ UNCHANGED <<task, delivered>>

-----------------------------------------------------------------------------
(* The terminal record *)

\* Faulty variant: a record that exists is written again.
CommitTerminalAlways(outcome) ==
  /\ terminal' = outcome /\ intent' = "terminal"
  /\ out' = Append(out, Message("outcome", 0, outcome))

\* commitTerminal: the record, the phase and the message are written in one
\* transaction unless a record exists.
CommitTerminal(outcome) ==
  IF terminal = "none"
    THEN /\ terminal' = outcome /\ intent' = "terminal"
         /\ out' = Append(out, Message("outcome", 0, outcome))
    ELSE UNCHANGED <<owned, out>>

\* stateEligible
StateEligible(operation, seen) ==
  IF operation = "cancel" THEN seen = "cancelling"
                          ELSE seen \in {"running", "cancelling"}

-----------------------------------------------------------------------------
(* Command handlers *)

\* Faulty variant: an attempt that was not seen to start is started again.
StartableUntilStarted == intent \notin {"started", "terminal"}

\* start: an attempt that has an intent is never started again; otherwise the
\* intent is written before anything else happens.
Startable == intent = "none"

\* The offer is ignored once it has expired, as every offer but the latest has.

HandleOffer(n) ==
  /\ rows[n].type = "offer"
  /\ IF rows[n].lease = lease /\ Startable
       THEN /\ intent' = "prepared"
            /\ step' = "claim" /\ handler' = [row |-> n, epoch |-> epoch]
            /\ delivered' = delivered
       ELSE /\ delivered' = delivered \cup {n}
            /\ UNCHANGED <<intent, task>>
  /\ UNCHANGED <<out, terminal, exchange, attempt, harness>>

\* publishClaim, then the state exchange of admit.
PublishClaim ==
  /\ step = "claim"
  /\ LET claim == Append(out, Message("claim", rows[handler.row].lease, "none"))
     IN IF CanObserve
          THEN Observe("start", TRUE, claim) /\ step' = "admit"
                 /\ UNCHANGED <<handler, delivered>>
          ELSE out' = claim /\ Return(SameSocket) /\ UNCHANGED waiter
  /\ UNCHANGED <<server, socket, cursor, owned, native, attempt, harness, spent>>

\* admitInitialStart
Admitted(state) ==
  state.status = "running" /\ state.lease = rows[handler.row].lease

\* check: a terminal authority is bound to the connection it was issued on.
AuthorityCurrent(authority) == conn = "ready" /\ authority = epoch

\* handle and beginCancellation with an issued authority: a running agent is
\* cancelled; a recorded outcome, an idle agent or a revoked authority leave
\* nothing to do.
CancelAgent(n, authority) ==
  /\ cancellation' = authority
  /\ IF terminal = "none" /\ agent = "running" /\ AuthorityCurrent(authority)
       THEN /\ agent' = "aborting" /\ step' = "quiesce"
            /\ handler' = [row |-> n, epoch |-> epoch]
            /\ delivered' = delivered
       ELSE /\ agent' = agent /\ step' = "idle" /\ handler' = NoHandler
            /\ delivered' = delivered \cup {n}

\* admitCancellation, then handle.
HandleCancel(n) ==
  /\ rows[n].type = "cancel"
  /\ IF live /\ cancellation # 0
       THEN CancelAgent(n, cancellation) /\ UNCHANGED <<out, waiter>>
       ELSE IF live /\ intent = "started" /\ CanObserve
       THEN /\ Observe("cancel", TRUE, out)
            /\ step' = "confirm" /\ handler' = [row |-> n, epoch |-> epoch]
            /\ UNCHANGED <<delivered, cancellation, agent>>
       ELSE /\ delivered' = delivered \cup {n}
            /\ UNCHANGED <<task, cancellation, agent, out, waiter>>
  /\ UNCHANGED <<owned, native, live, runs, ended>>

-----------------------------------------------------------------------------
(* The receive pump *)

\* The continuation of an exchange that is answered by state row n.
Answered(n) ==
  /\ waiter' = NoWaiter
  /\ CASE waiter.owner = "start" ->
            /\ IF Admitted(rows[n])
                 THEN intent' = "creating" /\ step' = "create"
                        /\ UNCHANGED <<handler, delivered>>
                 ELSE Return(TRUE) /\ intent' = intent
            /\ UNCHANGED <<out, terminal, native, attempt, harness>>
       [] waiter.owner = "cancel" ->
            /\ IF StateEligible("cancel", rows[n].status)
                 THEN CancelAgent(handler.row, epoch)
                 ELSE Return(TRUE) /\ UNCHANGED <<cancellation, agent>>
            /\ UNCHANGED <<out, owned, native, live, runs, ended>>
       [] waiter.owner = "native" ->
            /\ native' = "none"
            /\ IF StateEligible(native, rows[n].status)
                 THEN CommitTerminal(native) ELSE UNCHANGED <<out, owned>>
            /\ UNCHANGED <<delivered, task, attempt, harness>>

Answers(n) ==
  rows[n].type = "state" /\ waiter.owner # "none" /\ rows[n].ref = waiter.request

NotAnswered ==
  UNCHANGED <<delivered, out, owned, task, exchange, attempt, harness>>

\* Faulty variant: no answer overtakes the pump.
OvertakesNever == FALSE

\* deliverStateEarly: only the answer to a request of a command handler.
Overtakes == waiter.scope

\* A frame reaches the socket.
Arrive ==
  /\ conn = "ready" /\ arrived < Len(rows)
  /\ arrived' = arrived + 1
  /\ IF Answers(arrived + 1) /\ Overtakes THEN Answered(arrived + 1) ELSE NotAnswered
  /\ UNCHANGED <<server, conn, epoch, recovering, cursor, spent>>

\* handleIncoming and completeInbound of the next frame, once the handler of
\* the frame before it has returned.
Pump ==
  /\ conn = "ready" /\ ~recovering /\ step = "idle" /\ cursor < arrived
  /\ cursor' = cursor + 1
  /\ \/ HandleOffer(cursor + 1)
     \/ HandleCancel(cursor + 1)
     \/ /\ rows[cursor + 1].type = "state"
        /\ IF Answers(cursor + 1) THEN Answered(cursor + 1) ELSE NotAnswered
  /\ UNCHANGED <<server, socket, spent>>

Undelivered ==
  {n \in 1..cursor : rows[n].type # "state" /\ n \notin delivered}

\* recoverPendingInbound
Recover ==
  /\ conn = "ready" /\ recovering /\ step = "idle"
  /\ IF Undelivered = {}
       THEN recovering' = FALSE /\ NotAnswered
       ELSE /\ recovering' = recovering
            /\ \E n \in Undelivered :
                 /\ \A m \in Undelivered : n <= m
                 /\ HandleOffer(n) \/ HandleCancel(n)
  /\ UNCHANGED <<server, conn, epoch, arrived, cursor, spent>>

-----------------------------------------------------------------------------
(* The driver and the Harness *)

\* create, then the submitting phase and the one initial input.
CreateAgent ==
  /\ step = "create"
  /\ agent' = "running" /\ runs' = runs + 1
  /\ intent' = "submitting" /\ step' = "prove"
  /\ UNCHANGED <<server, socket, journal, out, terminal, handler, exchange,
                 attempt, ended, spent>>

\* The input is found in the flushed history: the attempt is registered.
ProveStarted ==
  /\ step = "prove"
  /\ intent' = "started" /\ live' = TRUE
  /\ Return(SameSocket)
  /\ UNCHANGED <<server, socket, cursor, out, terminal, exchange, cancellation,
                 harness, spent>>

\* create fails, or the input cannot be proven and the agent is disposed of.
\* The intent stays as it is.
StartFails ==
  /\ step \in {"create", "prove"} /\ spent.failure < MaxFailures
  /\ agent' = "none"
  /\ Return(SameSocket)
  /\ Spend("failure")
  /\ UNCHANGED <<server, socket, cursor, out, owned, exchange, attempt, runs,
                 ended>>

\* The turn ends; a cancelled one ends as failed, unless its end was already on
\* its way.  handleSessionEvent passes
\* the outcome on if the attempt is registered, and commitNativeOutcome asks
\* for an authority; if it cannot, the outcome is dropped.
TurnEnds(outcome) ==
  /\ agent \in {"running", "aborting"}
  /\ agent' = "idle" /\ ended' = outcome
  /\ IF live /\ intent = "started" /\ CanObserve
       THEN /\ native' = outcome
            /\ \E scope \in BOOLEAN : Observe("native", scope, out)
       ELSE UNCHANGED <<exchange, out>>
  /\ UNCHANGED <<server, socket, journal, owned, task, attempt, runs, spent>>

\* A turn may run as long as it likes; a cancelled one ends.
AbortedTurnEnds == agent = "aborting" /\ \E o \in Outcomes : TurnEnds(o)
RunningTurnEnds == agent = "running" /\ \E o \in Outcomes : TurnEnds(o)

\* whenIdle and drainTerminals
Drained == agent = "idle" /\ native = "none"

\* commitCancelled, unless the connection or the authority is gone.
CommitCancelled ==
  /\ step = "quiesce" /\ Drained
  /\ IF AuthorityCurrent(cancellation)
       THEN CommitTerminal("cancelled") ELSE UNCHANGED <<out, owned>>
  /\ Return(SameSocket)
  /\ UNCHANGED <<server, socket, cursor, exchange, attempt, harness, spent>>

\* The command's deadline passes while the agent winds down.
CancelLapses ==
  /\ step = "quiesce" /\ Drained /\ spent.timeout < MaxTimeouts
  /\ Return(SameSocket)
  /\ Spend("timeout")
  /\ UNCHANGED <<server, socket, cursor, out, owned, exchange, attempt, harness>>

-----------------------------------------------------------------------------
(* Connections, deadlines, crashes *)

Connect ==
  /\ conn = "offline"
  /\ conn' = "open" /\ arrived' = cursor
  /\ UNCHANGED <<server, epoch, recovering, journal, out, owned, task, exchange,
                 attempt, harness, spent>>

\* The welcome waits in the pump for a handler of an earlier connection.
Welcome ==
  /\ conn = "open" /\ step = "idle"
  /\ conn' = "ready" /\ epoch' = epoch + 1 /\ recovering' = TRUE
  /\ UNCHANGED <<server, arrived, journal, out, owned, task, exchange, attempt,
                 harness, spent>>

\* The socket is lost, which ends the exchange of its epoch.
Drop ==
  /\ conn \in {"open", "ready"} /\ spent.drop < MaxDrops
  /\ conn' = "offline" /\ recovering' = FALSE
  /\ IF waiter.owner = "none" THEN UNCHANGED <<exchange, task, delivered>>
     ELSE ExchangeFails(FALSE)
  /\ Spend("drop")
  /\ UNCHANGED <<server, epoch, arrived, cursor, out, owned, attempt, harness>>

\* Faulty variant: an exchange has no deadline.
BlockedNever == FALSE

\* The answer waits in the pump for a handler that waits for the exchange.
Blocked == waiter.owner # "none" /\ step # "idle" /\ ~Overtakes

\* An exchange lasts two seconds at most: always too short for an answer that
\* is blocked, sometimes for another.
ExchangeTimesOut ==
  /\ ExchangeFails(SameSocket)
  /\ UNCHANGED <<server, socket, cursor, out, owned, attempt, harness>>
BlockedTimesOut == Blocked /\ ExchangeTimesOut /\ UNCHANGED spent
SlowTimesOut ==
  /\ waiter.owner # "none" /\ spent.timeout < MaxTimeouts
  /\ ExchangeTimesOut /\ Spend("timeout")

\* The process of the plugin and of the Harness dies, and starts again.
Crash ==
  /\ conn # "down" /\ spent.crash < MaxCrashes
  /\ conn' = "down" /\ recovering' = FALSE
  /\ handler' = NoHandler /\ step' = "idle"
  /\ waiter' = NoWaiter /\ native' = "none"
  /\ live' = FALSE /\ cancellation' = 0 /\ agent' = "none"
  /\ Spend("crash")
  /\ UNCHANGED <<server, epoch, arrived, journal, out, owned, runs, ended>>

Restart ==
  /\ conn = "down" /\ conn' = "offline"
  /\ UNCHANGED <<server, epoch, arrived, recovering, journal, out, owned, task,
                 exchange, attempt, harness, spent>>

Init ==
  /\ status = "dispatched" /\ lease = 1 /\ consumed = 0
  /\ rows = <<Row("offer", 1, "dispatched", 0)>>
  /\ conn = "offline" /\ epoch = 0 /\ arrived = 0 /\ recovering = FALSE
  /\ cursor = 0 /\ delivered = {} /\ out = <<>>
  /\ intent = "none" /\ terminal = "none"
  /\ handler = NoHandler /\ step = "idle"
  /\ waiter = NoWaiter /\ native = "none"
  /\ live = FALSE /\ cancellation = 0
  /\ agent = "none" /\ runs = 0 /\ ended = "none"
  /\ spent = [cancel |-> 0, drop |-> 0, crash |-> 0, timeout |-> 0,
              failure |-> 0]

Progress ==
  \/ Consume \/ Arrive \/ Pump \/ Recover \/ Connect \/ Welcome \/ Restart
  \/ PublishClaim \/ CreateAgent \/ ProveStarted \/ AbortedTurnEnds
  \/ CommitCancelled \/ BlockedTimesOut

Environment ==
  \/ OfferAgain \/ OwnerCancels \/ RunningTurnEnds \/ StartFails \/ CancelLapses
  \/ SlowTimesOut \/ Drop \/ Crash

Next == Progress \/ Environment

Spec == Init /\ [][Next]_vars
FairSpec == Spec /\ WF_vars(Progress)

-----------------------------------------------------------------------------
(* Properties *)

Final == {"succeeded", "failed", "cancelled"}
Undisturbed == spent = [spent EXCEPT !.drop = 0, !.crash = 0, !.timeout = 0,
                                     !.failure = 0]
OutcomesIn(n) == {m \in 1..n : out[m].type = "outcome"}

\* An attempt is given to an agent at most once, and only after the control
\* plane accepted its claim, whatever is offered again, lost, late or crashed
\* (start, admit, prepareOwnedIntent).
RunsOnceClaimed ==
  /\ runs <= 1
  /\ runs = 1 => \/ status \in {"running", "cancelling"} \cup Outcomes
                 \/ \E n \in 1..Len(rows) : rows[n].type = "cancel"

\* The turn's end and the cancellation race for one outcome: a single message
\* is queued, it carries the local record, and the control plane adopts it
\* (commitTerminal, stateEligible, ingestJobEvent).
OneOutcome ==
  /\ Cardinality(OutcomesIn(Len(out))) = (IF terminal = "none" THEN 0 ELSE 1)
  /\ \A m \in OutcomesIn(Len(out)) : out[m].outcome = terminal
  /\ OutcomesIn(consumed) # {} => status = terminal

\* An offer that is not disturbed is run: the state its handler waits for gets
\* past the handler (deliverStateEarly).
OfferRuns == <>(runs = 1 \/ ~Undisturbed \/ spent.cancel > 0 \/ lease > 1)

\* A cancelled agent ends the job, one way or the other, if the connection
\* holds (handle and #cancel of the cancel handler).
CancelSettles == agent = "aborting" ~> (status \in Final \/ ~Undisturbed)
===============================================================================
