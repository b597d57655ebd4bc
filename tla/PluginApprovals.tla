-------------------------- MODULE PluginApprovals --------------------------
(***************************************************************************)
(* How one tool call of a bridge-owned agent is decided on the Mac: the    *)
(* policy guard's pre-execute hook classifies it, an approval_required     *)
(* call is answered by the approval answerer, which refreshes the job's    *)
(* live state and asks the remote broker; the broker reserves a revision,  *)
(* publishes approval.requested and waits for a decision, a timeout, an    *)
(* abort, a lost connection or the plugin's disposal; the guard then       *)
(* checks the one-use proof again just before the tool runs.               *)
(*                                                                         *)
(* An execution is one ToolExecution object of the host, which gives each  *)
(* its own callId, so the execution itself names its entry of the trusted  *)
(* action registry.  A print stands for the canonical action of an         *)
(* execution at this moment together with its fingerprint; what a print    *)
(* classifies as is ClassOf.  Time is monotonic time in ticks; the   *)
(* wall clock is mono + skew, where a skew other than zero is more than    *)
(* the second of drift the code tolerates.  The server's clock has skew 0. *)
(* Every await of the code is a step boundary.                             *)
(***************************************************************************)
EXTENDS Integers, FiniteSets, FiniteSetsExt

CONSTANTS
    Execs,          \* the tool executions of the agents
    Agents,         \* the owned agents, one per (job, attempt)
    Prints,         \* the canonical actions a call can resolve to
    ClassOf,        \* the policy class of each print
    None,           \* undefined
    NoPrint,        \* a call the execution adapter cannot map
    MaxAdmissions,  \* the broker's bound on concurrent requests (32)
    Timeout,        \* approvalTimeoutSeconds of the repository
    Validity,       \* life of a job.state snapshot, less its second of margin
    JobExpiry,      \* expires_at of the jobs, on the server's clock
    DecisionLives,  \* how long after it is received a decision may expire
    Revokes,        \* what releasing a reservation may do to it
    Skews,          \* the drifts the wall clock may jump to
    MaxTime, MaxEpoch, MaxFaults   \* bounds of the model

Outcomes == {"allowed-once", "rejected", "cancelled", "unavailable"}

ASSUME ClassesKnown ==
    ClassOf \in [Prints -> {"automatic", "approval_required", "denied"}]

ASSUME TimesKnown ==
    /\ {Timeout, Validity, JobExpiry} \cup DecisionLives \cup Skews \subseteq Int
    /\ Revokes \subseteq BOOLEAN

VARIABLES
    mono,       \* performance.now()
    skew,       \* Date.now() - performance.now()
    up, epoch,  \* a socket is open, and which one
    phase,      \* PluginComposition: new, live, draining, stopping, closed
    answering,  \* the answerer's lifetime is not aborted
    owners,     \* TrustedActionRegistry: the registered agents
    actions,    \* TrustedActionRegistry: the entry of each execution's call
    dead,       \* the aborted signals of registry entries
    snaps,      \* LiveStateRegistry: latest snapshot of each job
    world,      \* the print each execution resolves to now
    exec,       \* per execution: see NewExec
    revokes,    \* this plugin's reservations are revoked by their release
    faults      \* how many disturbances have happened

env == <<world, revokes>>
vars == <<mono, skew, up, epoch, phase, answering, owners, actions, dead,
          snaps, world, exec, revokes, faults>>

wall == mono + skew

disposed == phase \notin {"new", "live"}

-----------------------------------------------------------------------------
(* Records. *)

(* pc: idle, asking (approval.request was called), elsewhere (another       *)
(* answerer of the host decides), refreshing, waiting, settled, returned,   *)
(* answered, allowed, denied, ran, blocked.                                 *)
NewExec == [pc |-> "idle", agent |-> None, aborted |-> FALSE,
            proof |-> None, granted |-> FALSE, runs |-> 0, ran |-> None,
            print |-> None, sig |-> None,
            res |-> None, published |-> "no", out |-> "unavailable", due |-> 0,
            approved |-> None, grantedAt |-> 0]

(* What the answerer's frames held is gone when they have returned. *)
Forget(e) == [NewExec EXCEPT !.agent = e.agent, !.aborted = e.aborted,
                             !.proof = e.proof, !.approved = e.approved]

Ended(e, pc) == [NewExec EXCEPT !.agent = e.agent, !.pc = pc]

Init ==
    /\ mono = 0 /\ skew = 0 /\ up = FALSE /\ epoch = 0 /\ phase = "new"
    /\ answering = TRUE /\ owners = Agents
    /\ actions = [c \in Execs |-> None]
    /\ dead = {}
    /\ snaps = [a \in Agents |-> None]
    /\ world \in [Execs -> {p \in Prints : ClassOf[p] = "approval_required"}]
    /\ exec = [c \in Execs |-> NewExec]
    /\ revokes \in Revokes
    /\ faults = 0

-----------------------------------------------------------------------------
(* Settling waiters.  An abort event, the timer, a failed publication and a *)
(* decision all settle a waiter once; later ones find it settled.           *)

Settled(ex, who, outcome) ==
    [c \in Execs |->
        IF c \in who /\ ex[c].pc = "waiting"
        THEN [ex[c] EXCEPT !.pc = "settled", !.out = outcome]
        ELSE ex[c]]

(* The caller's signal: the answerer's lifetime, the entry's signal and the *)
(* execution's own.                                                         *)
CallerAborted(c) ==
    \/ ~answering
    \/ exec[c].sig \in dead
    \/ exec[c].aborted

-----------------------------------------------------------------------------
(* LiveStateRegistry. *)

(* A snapshot is refused when the local clock is off the server's. *)
Cached(a) == [snaps EXCEPT ![a] = [at |-> mono, skew |-> skew,
                                   until |-> mono + Validity]]

Cacheable == skew = 0 /\ Validity > 0

HasRevision(a) ==
    /\ snaps[a] # None
    /\ mono >= snaps[a].at /\ mono < snaps[a].until
    /\ skew = snaps[a].skew

-----------------------------------------------------------------------------
(* ApprovalReservationProvider. *)

(* The wire deadline is a wall time, the monotonic one is kept beside it. *)
WireDeadline == Min({JobExpiry, wall + Timeout})

MonotonicDeadline == mono + Min({Timeout, Max({0, JobExpiry - wall})})

Reservable(a) ==
    /\ phase # "closed"                        \* store.ownedIntent throws
    /\ up
    /\ HasRevision(a)
    /\ WireDeadline > wall /\ MonotonicDeadline > mono

Reserved(a) == [epoch |-> epoch, seen |-> snaps[a].at,
                at |-> mono, skew |-> skew, wire |-> WireDeadline,
                until |-> MonotonicDeadline, released |-> FALSE]

EpochHolds(r) == up /\ epoch = r.epoch

SignalAborted(r) == r.released \/ ~EpochHolds(r)

FaultyIsCurrent(r) == ~SignalAborted(r)

IsCurrent(r) ==
    /\ ~SignalAborted(r)
    /\ mono >= r.at /\ mono < r.until
    /\ skew = r.skew

(* The provider's release revokes the reservation; the reservation type     *)
(* also allows one that stays meaningful after its release.                 *)
Release(r) == [r EXCEPT !.released = revokes]

-----------------------------------------------------------------------------
(* TrustedActionRegistry. *)

(* register: the entry of the call is replaced and its signal aborted.      *)
(* Classification always re-registers; for an agent that is not owned the   *)
(* registration throws and is ignored.                                      *)
Registers(c, a) == a \in owners /\ world[c] # NoPrint

Replaced(c, a) == IF Registers(c, a) /\ actions[c] # None THEN {actions[c].sig} ELSE {}

Registered(c, a, step) ==
    IF Registers(c, a)
    THEN [actions EXCEPT ![c] = [print |-> world[c], sig |-> <<c, step>>]]
    ELSE actions

WaitersOf(sigs) == {c \in Execs : exec[c].sig \in sigs}

(* resolveAction of the answerer *)
EntryLive(c) == actions[c] # None /\ actions[c].sig \notin dead

ClassNow(c) == IF world[c] = NoPrint THEN None ELSE ClassOf[world[c]]

-----------------------------------------------------------------------------
(* The policy guard: pre-execute. *)

(* The host may have no approval service, and its other hooks may refuse a  *)
(* call the policy lets through.                                            *)
PreExecute(c, a, willing) ==
    LET mine == [exec[c] EXCEPT !.agent = a] IN
    /\ exec[c].pc = "idle" /\ phase # "new"
    /\ IF exec[c].aborted
       THEN /\ exec' = [exec EXCEPT ![c] = Ended(mine, "denied")]
            /\ UNCHANGED <<actions, dead>>
       ELSE /\ actions' = Registered(c, a, "pre")
            /\ dead' = dead \cup Replaced(c, a)
            /\ exec' = [exec EXCEPT ![c] =
                   IF ClassNow(c) \in {None, "denied"} \/ ~willing THEN Ended(mine, "denied")
                   ELSE IF ClassNow(c) = "approval_required"
                   THEN [mine EXCEPT !.pc = "asking", !.proof = world[c]]
                   ELSE [mine EXCEPT !.pc = "allowed", !.proof = world[c],
                                     !.granted = TRUE]]
    /\ UNCHANGED <<mono, skew, up, epoch, phase, answering, owners, snaps, faults, env>>

(* The proof is granted only by an allowed-once answer. *)
PreExecuteReturns(c) ==
    LET allow == exec[c].out = "allowed-once" /\ ~exec[c].aborted IN
    /\ exec[c].pc = "answered"
    /\ exec' = [exec EXCEPT ![c] =
          IF allow THEN [Forget(@) EXCEPT !.pc = "allowed", !.granted = TRUE]
          ELSE Ended(@, "denied")]
    /\ UNCHANGED <<mono, skew, up, epoch, phase, answering, owners, actions, dead,
                   snaps, faults, env>>

(* The guard proper, which the host calls just before the tool runs: the    *)
(* proof is consumed whatever happens, the call is classified again.        *)
FaultyProofPasses(c) == exec[c].proof # None /\ exec[c].granted

ProofPasses(c) ==
    /\ ClassNow(c) \notin {None, "denied"}
    /\ exec[c].proof # None
    /\ exec[c].proof = world[c]
    /\ exec[c].granted

Consumed(e) == [e EXCEPT !.proof = None]

Guard(c) ==
    LET a == exec[c].agent
        passes == ~exec[c].aborted /\ ProofPasses(c)
    IN
    /\ exec[c].pc \in {"allowed", "ran"} /\ exec[c].runs < 2
    /\ actions' = IF exec[c].aborted THEN actions ELSE Registered(c, a, "guard")
    /\ dead' = IF exec[c].aborted THEN dead ELSE dead \cup Replaced(c, a)
    /\ exec' = [exec EXCEPT ![c] =
          IF passes
          THEN [Consumed(exec[c]) EXCEPT !.pc = "ran", !.ran = world[c], !.runs = @ + 1]
          ELSE Ended(exec[c], "blocked")]
    /\ UNCHANGED <<mono, skew, up, epoch, phase, answering, owners, snaps, faults, env>>

-----------------------------------------------------------------------------
(* The answerer, up to the refresh of the job's live state. *)

Answer(c) ==
    LET a == exec[c].agent
        e == actions[c]
    IN
    /\ exec[c].pc = "asking"
    /\ exec' = [exec EXCEPT ![c] =
          IF a \notin owners \/ ~answering THEN [@ EXCEPT !.pc = "elsewhere"]
          ELSE IF ~EntryLive(c) THEN [@ EXCEPT !.pc = "answered", !.out = "unavailable"]
          ELSE IF ClassOf[e.print] = "denied"
          THEN [@ EXCEPT !.pc = "answered", !.out = "rejected"]
          ELSE IF ClassOf[e.print] # "approval_required" \/ phase = "closed"
          THEN [@ EXCEPT !.pc = "answered", !.out = "unavailable"]
          ELSE [@ EXCEPT !.pc = "refreshing", !.print = e.print, !.sig = e.sig]]
    /\ UNCHANGED <<mono, skew, up, epoch, phase, answering, owners, actions, dead,
                   snaps, faults, env>>

(* No owner is registered for the agent: the host's next answerer decides. *)
ElsewhereAnswers(c) ==
    /\ exec[c].pc = "elsewhere"
    /\ \E o \in Outcomes :
         exec' = [exec EXCEPT ![c].pc = "answered", ![c].out = o,
                              ![c].approved = IF o = "allowed-once" THEN exec[c].proof
                                              ELSE None]
    /\ UNCHANGED <<mono, skew, up, epoch, phase, answering, owners, actions, dead,
                   snaps, faults, env>>

-----------------------------------------------------------------------------
(* The broker. *)

Admitted == {c \in Execs : exec[c].pc \in {"waiting", "settled"}}

FaultyAdmissible(a) == Cardinality(Admitted) < MaxAdmissions

Admissible(a) ==
    /\ Cardinality(Admitted) < MaxAdmissions
    /\ \A d \in Admitted : exec[d].agent # a

Requested(e) ==
    IF disposed \/ ~Admissible(e.agent) \/ ~Reservable(e.agent)
    THEN [e EXCEPT !.pc = "answered", !.out = "unavailable"]
    ELSE [e EXCEPT !.pc = "waiting", !.res = Reserved(e.agent), !.due = WireDeadline,
                   !.published = "pending"]

(* After the refresh, whose false result the plugin does not look at. *)
AfterRefresh(c) ==
    IF CallerAborted(c)
    THEN [exec[c] EXCEPT !.pc = "answered", !.out = "unavailable"]
    ELSE Requested(exec[c])

(* A live job.state arrives, in answer to a refresh or to the observation    *)
(* with which the driver started the attempt; it is cached as it is received, before the refresh that *)
(* asked for it returns.  A refresh that fails returns without one.          *)
Observed(a) ==
    /\ up /\ Cacheable
    /\ snaps[a] = None \/ \E c \in Execs : exec[c].agent = a /\ exec[c].pc = "refreshing"
    /\ snaps' = Cached(a)
    /\ UNCHANGED <<mono, skew, up, epoch, phase, answering, owners, actions, dead,
                   exec, faults, env>>

RefreshReturns(c) ==
    /\ exec[c].pc = "refreshing"
    /\ exec' = [exec EXCEPT ![c] = AfterRefresh(c)]
    /\ UNCHANGED <<mono, skew, up, epoch, phase, answering, owners, actions, dead,
                   snaps, faults, env>>

PublishReturns(c) ==
    /\ exec[c].published = "pending"
    /\ \E ok \in BOOLEAN :
         exec' = [Settled(exec, IF ok THEN {} ELSE {c}, "unavailable") EXCEPT
                      ![c].published = IF ok THEN "sent" ELSE "failed"]
    /\ UNCHANGED <<mono, skew, up, epoch, phase, answering, owners, actions, dead,
                   snaps, faults, env>>

FaultyTimerDue(c) == exec[c].pc = "waiting" /\ wall >= exec[c].due

TimerDue(c) == exec[c].pc = "waiting" /\ mono >= exec[c].res.until

TimerFires(c) ==
    /\ TimerDue(c)
    /\ exec' = Settled(exec, {c}, "unavailable")
    /\ UNCHANGED <<mono, skew, up, epoch, phase, answering, owners, actions, dead,
                   snaps, faults, env>>

(* acceptDecision, reached while the intake is open.  fits abstracts the    *)
(* comparison of job, attempt, revision and fingerprint with the request.   *)
Verdict(c, fits, expires) ==
    IF wall >= exec[c].due \/ ~IsCurrent(exec[c].res) THEN "stale"
    ELSE IF expires <= wall \/ ~fits THEN "ignored" ELSE "fits"

Decision(c, approve, fits, life) ==
    LET v == Verdict(c, fits, wall + life)
        out == IF v = "fits" THEN IF approve THEN "allowed-once" ELSE "rejected"
               ELSE "unavailable"
    IN
    /\ phase = "live" /\ up
    /\ exec[c].pc = "waiting" /\ exec[c].published = "sent"
    /\ v # "ignored"
    /\ exec' = [Settled(exec, {c}, out) EXCEPT
                   ![c].due = IF v = "fits" THEN Min({@, wall + life}) ELSE @,
                   ![c].approved = IF out = "allowed-once" /\ fits THEN exec[c].print
                                   ELSE None]
    /\ UNCHANGED <<mono, skew, up, epoch, phase, answering, owners, actions, dead,
                   snaps, faults, env>>

(* request, after its await: release, the last currentness check, the       *)
(* outcome, and the end of the admission.                                   *)
BrokerReturns(c) ==
    LET r == Release(exec[c].res)
        o == exec[c].out
        final == IF CallerAborted(c) THEN "cancelled"
                 ELSE IF o = "allowed-once"
                         /\ (~IsCurrent(r) \/ disposed \/ wall >= exec[c].due)
                 THEN "unavailable" ELSE o
    IN
    /\ exec[c].pc = "settled"
    /\ exec' = [exec EXCEPT ![c].pc = "returned", ![c].out = final, ![c].res = r,
                            ![c].grantedAt = IF final = "allowed-once" THEN mono ELSE 0]
    /\ UNCHANGED <<mono, skew, up, epoch, phase, answering, owners, actions, dead,
                   snaps, faults, env>>

(* The answerer after the broker: the owner and the action are read again.  *)
SameAction(c) ==
    /\ EntryLive(c)
    /\ actions[c] = [print |-> exec[c].print, sig |-> exec[c].sig]

AnswererReturns(c) ==
    LET o == exec[c].out
        final == IF exec[c].aborted THEN "cancelled"
                 ELSE IF CallerAborted(c) \/ exec[c].agent \notin owners THEN "unavailable"
                 ELSE IF o = "allowed-once" /\ ~SameAction(c) THEN "unavailable"
                 ELSE o
    IN
    /\ exec[c].pc = "returned"
    /\ exec' = [exec EXCEPT ![c] = [Forget(@) EXCEPT !.pc = "answered", !.out = final]]
    /\ UNCHANGED <<mono, skew, up, epoch, phase, answering, owners, actions, dead,
                   snaps, faults, env>>

-----------------------------------------------------------------------------
(* The plugin's lifecycle. *)

Connect ==
    /\ phase = "new" /\ phase' = "live"
    /\ UNCHANGED <<mono, skew, up, epoch, answering, owners, actions, dead, snaps,
                   exec, faults, env>>

Opened ==
    /\ phase \in {"live", "draining"} /\ ~up /\ epoch < MaxEpoch
    /\ up' = TRUE /\ epoch' = epoch + 1
    /\ UNCHANGED <<mono, skew, phase, answering, owners, actions, dead, snaps, exec,
                   faults, env>>

(* dispose: intake first, then every pending approval is settled. *)
Dispose ==
    /\ phase \in {"new", "live"} /\ phase' = "draining"
    /\ exec' = Settled(exec, Execs, "unavailable")
    /\ UNCHANGED <<mono, skew, up, epoch, answering, owners, actions, dead, snaps,
                   faults, env>>

(* The driver's disposal returned or threw; the transport is told to stop. *)
DriverDisposed ==
    /\ phase = "draining" /\ phase' = "stopping"
    /\ UNCHANGED <<mono, skew, up, epoch, answering, owners, actions, dead, snaps,
                   exec, faults, env>>

(* The transport has stopped; the store is closed. *)
StoreCloses ==
    /\ phase = "stopping" /\ phase' = "closed"
    /\ up' = FALSE
    /\ exec' = Settled(exec, Execs, "unavailable")
    /\ UNCHANGED <<mono, skew, epoch, answering, owners, actions, dead, snaps,
                   faults, env>>

-----------------------------------------------------------------------------
(* Disturbances. *)

(* The socket is lost; its epoch's signal aborts every reservation of it. *)
Lost ==
    /\ up /\ up' = FALSE
    /\ exec' = Settled(exec, Execs, "unavailable")
    /\ UNCHANGED <<mono, skew, epoch, phase, answering, owners, actions, dead, snaps, env>>

(* The host aborts one execution. *)
AbortExecution(c) ==
    /\ ~exec[c].aborted /\ exec[c].pc \notin {"denied", "ran", "blocked"}
    /\ exec' = [Settled(exec, {c}, "cancelled") EXCEPT ![c].aborted = TRUE]
    /\ UNCHANGED <<mono, skew, up, epoch, phase, answering, owners, actions, dead,
                   snaps, env>>

Withdraw(a) ==
    LET mine == {c \in Execs : exec[c].agent = a /\ actions[c] # None}
        sigs == {actions[c].sig : c \in mine}
    IN
    /\ a \in owners /\ owners' = owners \ {a}
    /\ actions' = [c \in Execs |-> IF exec[c].agent = a THEN None ELSE actions[c]]
    /\ dead' = dead \cup sigs
    /\ exec' = Settled(exec, WaitersOf(sigs), "cancelled")
    /\ UNCHANGED <<mono, skew, up, epoch, phase, answering, snaps, env>>

(* The answerer is unregistered. *)
Unregister ==
    /\ answering /\ answering' = FALSE
    /\ exec' = Settled(exec, Execs, "cancelled")
    /\ UNCHANGED <<mono, skew, up, epoch, phase, owners, actions, dead, snaps, env>>

(* The file system changes what a call resolves to. *)
PathChanges(c) ==
    /\ exec[c].pc \notin {"denied", "ran", "blocked"}
    /\ \E p \in Prints \cup {NoPrint} : p # world[c] /\ world' = [world EXCEPT ![c] = p]
    /\ UNCHANGED <<mono, skew, up, epoch, phase, answering, owners, actions, dead,
                   snaps, exec, revokes>>

(* The wall clock is set. *)
ClockJumps ==
    /\ \E s \in Skews : s # skew /\ skew' = s
    /\ UNCHANGED <<mono, up, epoch, phase, answering, owners, actions, dead, snaps,
                   exec, env>>

Disturbance ==
    /\ faults < MaxFaults /\ faults' = faults + 1
    /\ \/ Lost \/ Unregister \/ ClockJumps
       \/ \E c \in Execs : AbortExecution(c) \/ PathChanges(c)
       \/ \E a \in Agents : Withdraw(a)

(* The clock runs on while somebody waits. *)
Tick ==
    /\ mono < MaxTime \/ \E c \in Execs : exec[c].pc = "waiting" /\ mono <= exec[c].res.until
    /\ mono' = mono + 1
    /\ UNCHANGED <<skew, up, epoch, phase, answering, owners, actions, dead, snaps,
                   exec, faults, env>>

Steps(c) ==
    \/ PreExecuteReturns(c) \/ Answer(c) \/ ElsewhereAnswers(c) \/ RefreshReturns(c)
    \/ PublishReturns(c) \/ TimerFires(c) \/ BrokerReturns(c) \/ AnswererReturns(c)

Next ==
    \/ \E c \in Execs :
         \/ \E a \in Agents, willing \in BOOLEAN : PreExecute(c, a, willing)
         \/ Steps(c) \/ Guard(c)
         \/ \E approve, fits \in BOOLEAN, life \in DecisionLives :
              Decision(c, approve, fits, life)
    \/ \E a \in Agents : Observed(a)
    \/ Connect \/ Opened \/ Dispose \/ DriverDisposed \/ StoreCloses
    \/ Disturbance \/ Tick

Spec == Init /\ [][Next]_vars

FairSpec == Spec /\ WF_vars(Tick) /\ \A c \in Execs : WF_vars(Steps(c))

-----------------------------------------------------------------------------
(* Properties. *)

(* A tool runs at most once per execution, and only as an action that needs *)
(* no approval or as exactly the action an approval was given for: not one  *)
(* the path was changed to while the decision was awaited.                  *)
RunsApproved ==
    \A c \in Execs : exec[c].runs > 0 =>
        /\ exec[c].runs = 1
        /\ \/ ClassOf[exec[c].ran] = "automatic"
           \/ ClassOf[exec[c].ran] = "approval_required" /\ exec[c].approved = exec[c].ran

(* A grant of the broker falls inside the reservation's monotonic lifetime: *)
(* setting the wall clock back while a decision is awaited does not extend  *)
(* it.                                                                      *)
GrantInLifetime ==
    \A c \in Execs : exec[c].res # None /\ exec[c].grantedAt > 0 =>
        exec[c].grantedAt < exec[c].res.until

(* An attempt never has two approvals outstanding, however its calls and    *)
(* their refreshes interleave: the server keeps one pending approval per    *)
(* job.                                                                     *)
OneWaiterPerAttempt ==
    \A c, d \in Execs : c # d /\ exec[c].pc = "waiting" /\ exec[d].pc = "waiting" =>
        exec[c].agent # exec[d].agent

(* Every call that asked for approval is eventually allowed or denied,      *)
(* whatever happens to the connection, the wall clock or the decision.      *)
RequestAnswered ==
    \A c \in Execs : exec[c].pc = "asking"
        ~> exec[c].pc \in {"allowed", "denied", "ran", "blocked"}

(* An approved request whose epoch, lifetime, caller and delivery deadline  *)
(* all still hold when the broker returns is allowed once.                  *)
StillValid(c) ==
    /\ exec[c].out = "allowed-once" /\ ~CallerAborted(c) /\ ~disposed
    /\ IsCurrent(exec[c].res) /\ wall < exec[c].due

ApprovedGranted ==
    [][\A c \in Execs : exec[c].pc = "settled" /\ StillValid(c) /\ exec'[c].pc = "returned"
          => exec'[c].out = "allowed-once"]_vars
=============================================================================
