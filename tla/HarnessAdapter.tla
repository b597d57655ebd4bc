---------------------------- MODULE HarnessAdapter ----------------------------
(***************************************************************************)
(* The AgentAdapter of the Harness plugin                                  *)
(* (packages/harness-plugin/src/harness/agent-adapter.ts) over the mapping *)
(* table of the plugin store (store/plugin-store.ts): it creates or        *)
(* resumes one Harness agent per attempt of a job, listens to the agents'  *)
(* sessions, and reports progress and one outcome to its event sink.       *)
(*                                                                         *)
(* Every await of the adapter is a boundary between steps: the Harness     *)
(* opens a session, an agent becomes idle, a handle closes, an event sink  *)
(* returns.  Calls and session events run in between.  The store may fail  *)
(* at any call, as often as MaxFaults says.                                *)
(***************************************************************************)
EXTENDS Naturals, Sequences

CONSTANTS
    Jobs,
    Attempts,    \* attempt numbers, 1 .. n
    Sessions,    \* Harness session ids
    Statuses,    \* what the status column of the table holds
    Earlier,     \* mapping tables an earlier run may have left
    Known,       \* mappings the caller may add to the recovery
    Reasons,     \* how a turn may end
    MaxHandles,  \* bound: agents opened by the Harness
    MaxEvents,   \* bound: progress events of a session
    MaxFaults,   \* bound: failures of the store
    None

VARIABLES
    store,      \* job_mappings: attempt -> session and status
    sessions,   \* the Harness's sessions: the phase of the turn and how it ended
    handles,    \* the agent handles the adapter was given
    owners,     \* #ownedByAttempt; #ownedBySession holds the same owners
    latest,     \* #latestByJob
    creates,    \* #createTasks
    resumes,    \* #resumeTasksByAttempt, and #resumeTasks
    lost,       \* #lostIdentityKeys
    recovery,   \* #recover: where it stands, the mappings still to resume, the one at work
    sinks,      \* #eventTasks: the sinks at work
    disposal,   \* #disposed and the steps of #disposePromise
    told,       \* what the sink was given, by job and session
    faults

vars == <<store, sessions, handles, owners, latest, creates, resumes, lost, recovery, sinks,
          disposal, told, faults>>

Keys == Jobs \X Attempts

\* A row of the table, and the row as the recovery carries it.
Rows == [session : Sessions, status : Statuses]
Mappings == [key : Keys, session : Sessions, status : Statuses]

TERMINAL_STATUSES ==
    {"succeeded", "failed", "cancelled", "canceled", "completed", "terminal", "lost", "denied",
     "done", "expired"}

isActiveStatus(status) == status # "" /\ status \notin TERMINAL_STATUSES

ASSUME AttemptsAssumption == Attempts \subseteq Nat

ASSUME MaxEventsAssumption == MaxEvents \in Nat

ASSUME StatusesAssumption == {"running", "succeeded", "failed"} \subseteq Statuses

ASSUME NoneAssumption ==
    /\ None \notin Nat /\ None \notin {"succeeded", "failed"}
    /\ None \notin Rows /\ None \notin Mappings
    /\ None \notin [step : {"opens", "resumes"}, key : Keys]
    /\ None \notin [session : Sessions, status : Statuses, step : {"opens", "closes"}]
    /\ None \notin [session : Sessions, handle : Nat, seen : SUBSET Nat,
                    terminal : {"succeeded", "failed", None}, emitted : BOOLEAN,
                    watched : BOOLEAN]

\* create opens a new attempt of a job only when the newest one is over.
RunningIsNewest(table) ==
    \A k, l \in Keys :
        (/\ k[1] = l[1] /\ table[k] # None /\ table[l] # None
         /\ isActiveStatus(table[k].status)) => l[2] <= k[2]

ASSUME EarlierAssumption ==
    \A table \in Earlier : table \in [Keys -> Rows \cup {None}] /\ RunningIsNewest(table)

\* What the caller knows of are attempts of that kind: the newest one of its job
\* when it is under way.
ASSUME KnownAssumption ==
    /\ Known \subseteq Mappings
    /\ \A m \in Known :
          isActiveStatus(m.status) =>
              /\ \A n \in Known : (isActiveStatus(n.status) /\ n.key[1] = m.key[1]) => n = m
              /\ \A table \in Earlier : \A l \in Keys :
                    (l[1] = m.key[1] /\ table[l] # None) =>
                        /\ l[2] <= m.key[2]
                        /\ isActiveStatus(table[l].status) => l = m.key

Disposed == disposal # "no"
Ready == recovery.step = "ready"

\* What a turn's end means for the job: nothing when its reason is unreadable.
TerminalFor(reason) ==
    CASE reason = "completed" -> "succeeded"
      [] reason = "unreadable" -> None
      [] OTHER -> "failed"

-----------------------------------------------------------------------------
(* The mapping table. *)

Mapped == {k \in Keys : store[k] # None}

\* mapJob refuses a second session for an attempt and a second attempt for a session.
Mappable(k, s) ==
    /\ store[k] # None => store[k].session = s
    /\ \A l \in Mapped : store[l].session = s => l = k

Stored(k, s, status) ==
    IF Mappable(k, s) THEN [store EXCEPT ![k] = [session |-> s, status |-> status]] ELSE store

\* findJob returns the newest attempt of a job, or none.
Attempted(j) == {k \in Mapped : k[1] = j}

findJob(j) == {k \in Attempted(j) : \A l \in Attempted(j) : l[2] <= k[2]}

listNonterminalJobs ==
    {[key |-> k, session |-> store[k].session, status |-> store[k].status] :
        k \in {l \in Mapped :
                 store[l].status \notin {"succeeded", "failed", "cancelled", "expired"}}}

\* A call of the store that may fail.
StoreCall(fails) ==
    /\ fails => faults < MaxFaults
    /\ faults' = IF fails THEN faults + 1 ELSE faults

-----------------------------------------------------------------------------
(* Events. *)

NewTask(e) == [event |-> e, waits |-> FALSE, released |-> FALSE]

\* #emit: the sink starts at once; disposal drains the sinks at work.
Started(events) ==
    IF Disposed THEN sinks ELSE sinks \cup {NewTask(e) : e \in events}

Counted(j, s) == IF Disposed THEN told ELSE [told EXCEPT ![<<j, s>>].outcomes = @ + 1]

\* The event of a session that has an outcome; told apart by how many there were.
OutcomeEvent(j, s) == <<j, s, "outcome", told[<<j, s>>].outcomes + 1>>

LostKeys(j, a, s) == {<<"session", j, s>>} \cup (IF a = None THEN {} ELSE {<<"attempt", j, a>>})

\* #hasEmittedSessionLost
IsLost(j, a, s) == LostKeys(j, a, s) \cap lost # {}

\* #emitSessionLost, once for a session and once for an attempt; the failed
\* status is written as well as it can be.
EmitSessionLost(j, a, s, writes) ==
    IF Disposed \/ IsLost(j, a, s)
    THEN UNCHANGED <<store, lost, sinks, told, faults>>
    ELSE /\ lost' = lost \cup LostKeys(j, a, s)
         /\ IF a = None THEN UNCHANGED <<store, faults>>
            ELSE /\ StoreCall(~writes)
                 /\ store' = IF writes THEN Stored(<<j, a>>, s, "failed") ELSE store
         /\ sinks' = Started({OutcomeEvent(j, s)})
         /\ told' = Counted(j, s)

-----------------------------------------------------------------------------
(* Ownership. *)

\* The attempt that owns a session, if any: the listener looks it up.
OwnersOf(s) == {k \in Keys : owners[k] # None /\ owners[k].session = s}

Owned(s) == OwnersOf(s) # {}

NewOwner(s, h, terminal) ==
    [session |-> s, handle |-> h, seen |-> {}, terminal |-> terminal, emitted |-> FALSE,
     watched |-> TRUE]

\* #attach finds an owner of the attempt, or makes one unless the session has
\* an owner already.
Attachable(k, s) == owners[k] # None \/ ~Owned(s)

Attach(k, s, h, terminal) ==
    /\ owners' = IF owners[k] # None THEN owners
                 ELSE [owners EXCEPT ![k] = NewOwner(s, h, terminal)]
    /\ latest' = IF owners[k] # None THEN latest ELSE [latest EXCEPT ![k[1]] = k[2]]

\* The Harness gave the adapter a handle, which stays open or is closed again.
FaultyOpened(s, open) == handles' = Append(handles, [session |-> s, open |-> TRUE])

Opened(s, open) == handles' = Append(handles, [session |-> s, open |-> open])

Detached(k, s) == Opened(s, FALSE) /\ UNCHANGED <<owners, latest>>

Capture(s) ==
    IF sessions[s].phase \in {"ended", "idle"} THEN TerminalFor(sessions[s].reason) ELSE None

-----------------------------------------------------------------------------
(* Resuming a mapping. *)

\* #startResume: one task for an attempt; none for an attempt that has an owner
\* or was reported lost.
StartResume(m) ==
    LET k == m.key
    IN  resumes' =
            IF resumes[k] # None \/ owners[k] # None \/ IsLost(k[1], k[2], m.session)
            THEN resumes
            ELSE [resumes EXCEPT ![k] = [session |-> m.session, status |-> m.status,
                                         step |-> "opens"]]

\* #resumeMapping when the Harness has answered with an agent: a session of its
\* own is attached, mapped and watched; otherwise the handle is closed first.
ResumeOpened(k) ==
    LET t == resumes[k]
        closes == resumes' = [resumes EXCEPT ![k].step = "closes"]
    IN  /\ t # None /\ t.step = "opens"
        /\ Len(handles) < MaxHandles
        /\ \E s \in Sessions, writes \in BOOLEAN :
              /\ sessions[s].phase # "fresh"
              /\ IF Disposed \/ s # t.session \/ ~Attachable(k, s)
                 THEN /\ writes
                      /\ Opened(s, FALSE) /\ closes
                      /\ UNCHANGED <<store, owners, latest, faults>>
                 ELSE /\ StoreCall(~writes)
                      /\ IF writes /\ Mappable(k, s)
                         THEN /\ store' = Stored(k, s, t.status)
                              /\ Attach(k, s, Len(handles) + 1, Capture(s))
                              /\ Opened(s, TRUE)
                              /\ resumes' = [resumes EXCEPT ![k] = None]
                         ELSE Detached(k, s) /\ closes /\ UNCHANGED store
        /\ UNCHANGED <<sessions, creates, lost, recovery, sinks, disposal, told>>

\* The Harness could not resume the session, or the handle is closed: the
\* session is lost.
ResumeFails(k) ==
    LET t == resumes[k]
    IN  /\ t # None
        /\ \E writes \in BOOLEAN : EmitSessionLost(k[1], k[2], t.session, writes)
        /\ resumes' = [resumes EXCEPT ![k] = None]
        /\ UNCHANGED <<sessions, handles, owners, latest, creates, recovery, disposal>>

-----------------------------------------------------------------------------
(* Recovery at start. *)

\* The caller's mappings join those of the store; when the store could not be
\* read, every active one is reported lost.
RecoverKnown ==
    /\ recovery.step = "known"
    /\ \E extra \in SUBSET Known, writes \in BOOLEAN :
          LET gone == {m \in extra : isActiveStatus(m.status) /\ ~Disposed}
              new == {m \in extra : \A n \in recovery.queue : n.key # m.key}
          IN  IF recovery.down
              THEN /\ lost' = lost \cup UNION {LostKeys(m.key[1], m.key[2], m.session) : m \in gone}
                   /\ store' = [k \in Keys |->
                          IF writes /\ \E m \in gone : m.key = k /\ Mappable(k, m.session)
                          THEN [session |-> (CHOOSE m \in gone : m.key = k).session,
                                status |-> "failed"]
                          ELSE store[k]]
                   /\ sinks' = Started({OutcomeEvent(m.key[1], m.session) : m \in gone})
                   /\ told' = [x \in DOMAIN told |->
                          IF \E m \in gone : <<m.key[1], m.session>> = x
                          THEN [told[x] EXCEPT !.outcomes = @ + 1] ELSE told[x]]
                   /\ recovery' = [recovery EXCEPT !.step = "ready"]
              ELSE /\ writes
                   /\ recovery' = [recovery EXCEPT !.step = "next", !.queue = @ \cup new]
                   /\ UNCHANGED <<store, lost, sinks, told>>
    /\ UNCHANGED <<sessions, handles, owners, latest, creates, resumes, disposal, faults>>

\* The mappings are resumed one after the other, in the order of the rows, which
\* may be any.
RecoverNext ==
    /\ recovery.step = "next"
    /\ \/ /\ recovery.queue = {}
          /\ recovery' = [recovery EXCEPT !.step = "ready"]
          /\ UNCHANGED resumes
       \/ \E m \in recovery.queue :
             IF Disposed \/ ~isActiveStatus(m.status)
             THEN /\ recovery' = [recovery EXCEPT !.queue = @ \ {m}]
                  /\ UNCHANGED resumes
             ELSE /\ StartResume(m)
                  /\ recovery' = [recovery EXCEPT !.step = "waits", !.queue = @ \ {m},
                                                  !.now = m]
    /\ UNCHANGED <<store, sessions, handles, owners, latest, creates, lost, sinks, disposal, told,
                   faults>>

RecoverWaits ==
    /\ recovery.step = "waits"
    /\ resumes[recovery.now.key] = None
    /\ recovery' = [recovery EXCEPT !.step = "next", !.now = None]
    /\ UNCHANGED <<store, sessions, handles, owners, latest, creates, resumes, lost, sinks,
                   disposal, told, faults>>

-----------------------------------------------------------------------------
(* The caller's operations. *)

OpenAttempt(j, attempt) ==
    /\ attempt \in Attempts
    /\ creates' = [creates EXCEPT ![j] = [step |-> "opens", key |-> <<j, attempt>>]]
    /\ UNCHANGED resumes

\* create waits for the recovery; a second create of a job joins the first.
Create(j) ==
    /\ Ready /\ ~Disposed /\ ~recovery.down
    /\ creates[j] = None /\ latest[j] = None
    /\ \/ /\ Attempted(j) = {}
          /\ OpenAttempt(j, 1)
       \/ \E k \in findJob(j) :
             IF isActiveStatus(store[k].status)
             THEN /\ StartResume([key |-> k, session |-> store[k].session,
                                  status |-> store[k].status])
                  /\ creates' = [creates EXCEPT ![j] = [step |-> "resumes", key |-> k]]
             ELSE OpenAttempt(j, k[2] + 1)
    /\ UNCHANGED <<store, sessions, handles, owners, latest, lost, recovery, sinks, disposal, told,
                   faults>>

Unused(s) == sessions[s].phase = "fresh" /\ \A h \in DOMAIN handles : handles[h].session # s

\* The Harness has a new agent, whose attempt is attached and mapped before it
\* is given the request; what fails after that closes the handle again.
CreateOpened(j) ==
    LET k == creates[j].key
    IN  /\ creates[j] # None /\ creates[j].step = "opens"
        /\ Len(handles) < MaxHandles
        /\ creates' = [creates EXCEPT ![j] = None]
        /\ \E s \in Sessions, writes, accepts, again \in BOOLEAN :
              /\ Unused(s) \/ Owned(s)
              /\ IF Disposed \/ ~Attachable(k, s)
                 THEN /\ writes /\ accepts /\ again
                      /\ Opened(s, FALSE)
                      /\ UNCHANGED <<store, sessions, owners, latest, faults>>
                 ELSE IF writes /\ Mappable(k, s)
                 THEN IF accepts
                      THEN /\ again
                           /\ store' = Stored(k, s, "running")
                           /\ Attach(k, s, Len(handles) + 1, None)
                           /\ Opened(s, TRUE)
                           /\ sessions' = [sessions EXCEPT ![s].phase = "busy"]
                           /\ UNCHANGED faults
                      ELSE /\ StoreCall(~again)
                           /\ store' = Stored(k, s, IF again THEN "failed" ELSE "running")
                           /\ Detached(k, s)
                           /\ UNCHANGED sessions
                 ELSE /\ accepts /\ again
                      /\ StoreCall(~writes)
                      /\ Detached(k, s)
                      /\ UNCHANGED <<store, sessions>>
        /\ UNCHANGED <<resumes, lost, recovery, sinks, disposal, told>>

\* The Harness refuses the agent, or the resumption create waited for is over.
CreateEnds(j) ==
    /\ creates[j] # None
    /\ creates[j].step = "resumes" => resumes[creates[j].key] = None
    /\ creates' = [creates EXCEPT ![j] = None]
    /\ UNCHANGED <<store, sessions, handles, owners, latest, resumes, lost, recovery, sinks,
                   disposal, told, faults>>

\* resume of a session: one that is not the job's own is reported lost.
Resume(j, s) ==
    LET reported == /\ EmitSessionLost(j, None, s, TRUE)
                    /\ UNCHANGED resumes
        nothing == UNCHANGED <<store, lost, sinks, told, resumes, faults>>
    IN  /\ Ready /\ ~Disposed
        /\ sessions[s].phase # "fresh"
        /\ IF recovery.down THEN reported
           ELSE IF latest[j] # None
           THEN IF owners[<<j, latest[j]>>].session # s THEN reported ELSE nothing
           ELSE \/ /\ StoreCall(TRUE)
                   /\ IF IsLost(j, None, s)
                      THEN UNCHANGED <<store, lost, sinks, told, resumes>>
                      ELSE /\ lost' = lost \cup LostKeys(j, None, s)
                           /\ sinks' = Started({OutcomeEvent(j, s)})
                           /\ told' = [Counted(j, s) EXCEPT ![<<j, s>>].blind = TRUE]
                           /\ UNCHANGED <<store, resumes>>
                \/ Attempted(j) = {} /\ reported
                \/ \E k \in findJob(j) :
                      IF store[k].session # s THEN reported
                      ELSE IF ~isActiveStatus(store[k].status) THEN nothing
                      ELSE /\ StartResume([key |-> k, session |-> s, status |-> store[k].status])
                           /\ UNCHANGED <<store, lost, sinks, told, faults>>
        /\ UNCHANGED <<sessions, handles, owners, latest, creates, recovery, disposal>>

\* cancel of the job's agent: an idle one is watched again; a busy one is told,
\* and the Harness ends its turn (TurnEnds).  The caller then waits for the idle
\* agent and settles it, which is what the watcher does too.
Cancel(j) ==
    /\ Ready /\ ~Disposed /\ ~recovery.down
    /\ latest[j] # None
    /\ LET k == <<j, latest[j]>>
       IN  owners' = [owners EXCEPT ![k].watched = TRUE]
    /\ UNCHANGED <<store, sessions, handles, latest, creates, resumes, lost, recovery, sinks,
                   disposal, told, faults>>

-----------------------------------------------------------------------------
(* The Harness: its sessions and the agents' turns. *)

Running(s) == \E h \in DOMAIN handles : handles[h].session = s /\ handles[h].open

Heard(k, n) ==
    /\ ~Disposed
    /\ owners[k] # None /\ ~owners[k].emitted
    /\ n \notin owners[k].seen

\* A session event that is not the end of a turn, delivered once or again.
SessionEvent(s, n) ==
    /\ sessions[s].phase = "busy" /\ Running(s)
    /\ n <= sessions[s].events + 1
    /\ sessions' = [sessions EXCEPT ![s].events = IF n > @ THEN n ELSE @]
    /\ \/ \E k \in OwnersOf(s) :
             /\ Heard(k, n)
             /\ owners' = [owners EXCEPT ![k].seen = @ \cup {n}]
             /\ sinks' = Started({<<k[1], s, "progress", n>>})
       \/ /\ \A k \in OwnersOf(s) : ~Heard(k, n)
          /\ UNCHANGED <<owners, sinks>>
    /\ UNCHANGED <<store, handles, latest, creates, resumes, lost, recovery, disposal, told,
                   faults>>

\* A turn ends: its outcome is kept until the agent is idle.
TurnEnds(s) ==
    /\ sessions[s].phase = "busy" /\ Running(s)
    /\ \E reason \in Reasons :
          /\ sessions' = [sessions EXCEPT ![s].phase = "ended", ![s].reason = reason]
          /\ owners' = [k \in Keys |->
                IF k \in OwnersOf(s) /\ Heard(k, MaxEvents + 1) /\ TerminalFor(reason) # None
                THEN [owners[k] EXCEPT !.seen = @ \cup {MaxEvents + 1},
                                       !.terminal = TerminalFor(reason), !.watched = TRUE]
                ELSE owners[k]]
    /\ UNCHANGED <<store, handles, latest, creates, resumes, lost, recovery, sinks, disposal, told,
                   faults>>

BecomesIdle(s) ==
    /\ sessions[s].phase = "ended"
    /\ sessions' = [sessions EXCEPT ![s].phase = "idle"]
    /\ UNCHANGED <<store, handles, owners, latest, creates, resumes, lost, recovery, sinks,
                   disposal, told, faults>>

\* #settleTerminal
FaultySettles(k) == ~Disposed /\ owners[k].terminal # None

Settles(k) == ~Disposed /\ owners[k].terminal # None /\ ~owners[k].emitted

\* #watchIdle: the agent is idle, or its handle is closed.
IdleReached(k) ==
    sessions[owners[k].session].phase = "idle" \/ ~handles[owners[k].handle].open

Settle(k) ==
    LET o == owners[k]
        s == o.session
    IN  /\ o # None /\ o.watched /\ IdleReached(k)
        /\ IF Settles(k)
           THEN /\ \E writes \in BOOLEAN :
                      /\ StoreCall(~writes)
                      /\ store' = IF writes THEN Stored(k, s, o.terminal) ELSE store
                /\ owners' = [owners EXCEPT ![k].emitted = TRUE, ![k].watched = FALSE]
                /\ sinks' = Started({OutcomeEvent(k[1], s)})
                /\ told' = Counted(k[1], s)
           ELSE /\ owners' = [owners EXCEPT ![k].watched = FALSE]
                /\ UNCHANGED <<store, sinks, told, faults>>
        /\ UNCHANGED <<sessions, handles, latest, creates, resumes, lost, recovery, disposal>>

-----------------------------------------------------------------------------
(* Sinks and disposal. *)

\* dispose marks the adapter and stops the listener; later calls get the same
\* promise.
Dispose ==
    /\ ~Disposed
    /\ disposal' = "tasks"
    /\ UNCHANGED <<store, sessions, handles, owners, latest, creates, resumes, lost, recovery,
                   sinks, told, faults>>

\* A sink disposes the adapter and waits for it: its own task leaves the drain.
FaultyReleased(t) == [t EXCEPT !.waits = TRUE]

Released(t) == [t EXCEPT !.waits = TRUE, !.released = TRUE]

SinkDisposes(t) ==
    /\ ~t.waits
    /\ sinks' = (sinks \ {t}) \cup {Released(t)}
    /\ disposal' = IF Disposed THEN disposal ELSE "tasks"
    /\ UNCHANGED <<store, sessions, handles, owners, latest, creates, resumes, lost, recovery,
                   told, faults>>

SinkReturns(t) ==
    /\ ~t.waits \/ disposal = "done"
    /\ sinks' = sinks \ {t}
    /\ UNCHANGED <<store, sessions, handles, owners, latest, creates, resumes, lost, recovery,
                   disposal, told, faults>>

TasksSettled == Ready /\ (\A j \in Jobs : creates[j] = None) /\ (\A k \in Keys : resumes[k] = None)

Forgotten == [j \in Jobs |-> None]

\* The steps of the disposal: the tasks settle, the owned handles close, the
\* watchers end, and the sinks at work are drained.
DisposeStep ==
    \/ /\ disposal = "tasks" /\ TasksSettled
       /\ disposal' = "idle"
       /\ handles' = [h \in DOMAIN handles |->
             IF \E k \in Keys : owners[k] # None /\ owners[k].handle = h
             THEN [handles[h] EXCEPT !.open = FALSE] ELSE handles[h]]
       /\ UNCHANGED <<owners, latest>>
    \/ /\ disposal = "idle" /\ \A k \in Keys : owners[k] # None => ~owners[k].watched
       /\ disposal' = "events"
       /\ UNCHANGED <<handles, owners, latest>>
    \/ /\ disposal = "events" /\ \A t \in sinks : t.released
       /\ disposal' = "done"
       /\ owners' = [k \in Keys |-> None]
       /\ latest' = Forgotten
       /\ UNCHANGED handles

DisposeGoesOn ==
    /\ DisposeStep
    /\ UNCHANGED <<store, sessions, creates, resumes, lost, recovery, sinks, told, faults>>

-----------------------------------------------------------------------------

\* A new adapter over the table an earlier one left: its agents are gone, their
\* sessions remember the turn.  The table is read in the constructor.
Init ==
    /\ store \in Earlier
    /\ sessions \in [Sessions -> [phase : {"fresh", "busy", "idle"}, reason : Reasons \cup {None},
                                  events : {0}]]
    /\ \A s \in Sessions :
          LET used == \/ \E k \in Keys : store[k] # None /\ store[k].session = s
                      \/ \E m \in Known : m.session = s
          IN  /\ sessions[s].phase = "fresh" <=> ~used
              /\ sessions[s].reason = None <=> sessions[s].phase # "idle"
    /\ handles = <<>>
    /\ owners = [k \in Keys |-> None]
    /\ latest = [j \in Jobs |-> None]
    /\ creates = [j \in Jobs |-> None]
    /\ resumes = [k \in Keys |-> None]
    /\ lost = {}
    /\ \E down \in BOOLEAN :
          recovery = [step |-> "known", down |-> down, now |-> None,
                      queue |-> IF down THEN {} ELSE listNonterminalJobs]
    /\ sinks = {}
    /\ disposal = "no"
    /\ told = [x \in Jobs \X Sessions |-> [outcomes |-> 0, blind |-> FALSE]]
    /\ faults = 0

Recovers == RecoverKnown \/ RecoverNext \/ RecoverWaits

Next ==
    \/ Recovers
    \/ \E k \in Keys : ResumeOpened(k) \/ ResumeFails(k) \/ Settle(k)
    \/ \E j \in Jobs : Create(j) \/ CreateOpened(j) \/ CreateEnds(j) \/ Cancel(j)
    \/ \E j \in Jobs, s \in Sessions : Resume(j, s)
    \/ \E s \in Sessions : TurnEnds(s) \/ BecomesIdle(s)
    \/ \E s \in Sessions, n \in 1 .. MaxEvents : SessionEvent(s, n)
    \/ \E t \in sinks : SinkDisposes(t) \/ SinkReturns(t)
    \/ Dispose
    \/ DisposeGoesOn

Spec == Init /\ [][Next]_vars

\* The calls of the Harness settle, its idle agents say so, a sink returns once
\* what it waits for is there, and the adapter's own continuations run.  No
\* caller has to call, and no turn has to end.
FairSpec ==
    /\ Spec
    /\ WF_vars(Recovers)
    /\ \A k \in Keys : WF_vars(ResumeFails(k)) /\ WF_vars(Settle(k))
    /\ \A j \in Jobs : WF_vars(CreateEnds(j))
    /\ \A s \in Sessions : WF_vars(BecomesIdle(s))
    /\ WF_vars(\E t \in sinks : SinkReturns(t))
    /\ WF_vars(DisposeGoesOn)

-----------------------------------------------------------------------------
(* Properties. *)

\* Whatever is resumed, lost, cancelled or finished in whatever order, the sink
\* hears of at most one outcome of a job's session (#lostIdentityKeys and
\* terminalEmitted together).  A session reported lost only because the table
\* could not be read for an explicit resume may be at work nevertheless, and end
\* once more.
OneOutcome == \A x \in DOMAIN told : told[x].outcomes <= IF told[x].blind THEN 2 ELSE 1

\* Once dispose has resolved, no agent that any create, resume or recovery was
\* given is left open, and no sink that does not wait for the disposal itself is
\* at work.
DisposedIsQuiet ==
    disposal = "done" =>
        /\ \A h \in DOMAIN handles : ~handles[h].open
        /\ \A t \in sinks : t.waits

\* dispose resolves, also when a sink calls it and waits for it, and while the
\* recovery, a create or a resume is under way.
DisposeResolves == Disposed ~> disposal = "done"
=============================================================================
