------------------------------ MODULE JobStore ------------------------------
(***************************************************************************)
(* The control plane's durable job store: the transactions of              *)
(* JobRepository (apps/control-plane/src/db/job-repository.ts) that the    *)
(* owner's tools run, and the business handlers that                       *)
(* PostgresConnectorStore (apps/control-plane/src/connector/outbox.ts)     *)
(* applies to a Connector's messages, over the jobs and approvals of one   *)
(* owner and the command rows queued for each of the owner's Connectors.   *)
(*                                                                         *)
(* Every operation locks its job row and then its connector row FOR        *)
(* UPDATE, so each is one atomic step; the deadline re-checks after the    *)
(* writes make a transaction that a deadline overtakes abort, so a step    *)
(* reads one value of the database clock.  Refused operations change       *)
(* nothing here: their receipts are the subject of ConnectorLink.          *)
(***************************************************************************)
EXTENDS JobState, Integers, Sequences, FiniteSets

CONSTANTS
  Jobs,           \* job ids
  Connectors,     \* Connectors of the owner
  ApprovalIds,    \* approval ids a Connector can allocate
  Repositories,   \* repositories with an enabled policy
  RepositoryOf,   \* the repository of each job
  MaxConcurrency, \* maxConcurrency of each repository's policy
  MaxInt,         \* largest value of the revision and attempt columns
  MaxClock,       \* bound on the database clock, in ticks
  JobTtl,         \* life of a job, in ticks
  LeaseTtl,       \* OFFER_LEASE_MS, in ticks
  CommandTtl,     \* life of an approval.decision command, in ticks
  ReplayBatch,    \* SERVER_REPLAY_BATCH_SIZE
  Attempts,       \* attempt numbers the Connectors put in their messages
  None            \* null

ASSUME ConstantsAssumption ==
  /\ RepositoryOf \in [Jobs -> Repositories]
  /\ MaxConcurrency \in [Repositories -> Nat]
  /\ MaxInt \in Nat /\ MaxInt > 0
  /\ MaxClock \in Nat
  /\ JobTtl \in Nat \ {0} /\ LeaseTtl \in Nat \ {0} /\ CommandTtl \in Nat \ {0}
  /\ ReplayBatch \in Nat \ {0}
  /\ Attempts \subseteq Nat \ {0}
  /\ None \notin Connectors \cup ApprovalIds \cup Jobs

VARIABLES
  clock,      \* clock_timestamp(), in ticks
  jobs,       \* jobs table
  approvals,  \* approvals table
  dispatches, \* job_events rows job.dispatched and job.redispatched
  outbox      \* command rows of connector_messages, per Connector

vars == <<clock, jobs, approvals, dispatches, outbox>>

-----------------------------------------------------------------------------
(* Rows.  lease 0, cancelRevision 0 and connector None stand for null. A    *)
(* lease id is a fresh UUID: the number of times its job was offered.       *)

NoJob == [status |-> "absent", revision |-> 0, attempt |-> 0,
          connector |-> None, lease |-> 0, leaseExpires |-> 0, expires |-> 0,
          cancelRevision |-> 0, summary |-> "none", unread |-> FALSE,
          acknowledged |-> FALSE]

NoApproval == [job |-> None, attempt |-> 0, revision |-> 0, expires |-> 0,
               decision |-> "none"]

\* What a terminal event carries as its summary: no usable one, an object
\* without a text, or a text (hasUsableTerminalSummary, acknowledgeResult).
Summaries == {"none", "object", "text"}

\* What a job.event asks for (statusForEvent): nothing but progress, a
\* return to running, a wait, or an outcome.
EventKinds == {"progress", "running", "waiting_approval",
               "succeeded", "failed", "cancelled"}

Exists(j) == jobs[j].status # "absent"
Terminal(j) == jobs[j].status \in TerminalStates
Claimed(j) == jobs[j].status \in ClaimedStates
Unexpired(j) == jobs[j].expires > clock

Lesser(a, b) == IF a < b THEN a ELSE b

\* lockClientJob: the row is visible to a Connector only while it is bound.
Bound(c, j) == Exists(j) /\ jobs[j].connector = c

\* Faulty variant: off by one at the limit of the column.
CanIncrementPast(n) == n <= MaxInt

\* checkedJobIncrement succeeds.
CanIncrement(n) == n < MaxInt

\* enqueueServerMessage / enqueueServerCommand: append at the next server
\* sequence of the Connector.
Row(type, j, attempt, ref, approval, decision, expires) ==
  [type |-> type, job |-> j, attempt |-> attempt, ref |-> ref,
   approval |-> approval, decision |-> decision, expires |-> expires]

Enqueue(c, row) == outbox' = [outbox EXCEPT ![c] = Append(@, row)]

\* A status change of job j: every one increments the revision.
Move(j, status) == [jobs[j] EXCEPT !.status = status, !.revision = @ + 1]

MoveTerminal(j, status) == [Move(j, status) EXCEPT !.unread = TRUE]

SetJob(j, row) == jobs' = [jobs EXCEPT ![j] = row]

-----------------------------------------------------------------------------
(* The owner's side: JobRepository.                                         *)

\* createIdempotent for a request key that has no record yet.
Submit(j) ==
  /\ ~Exists(j)
  /\ SetJob(j, [NoJob EXCEPT !.status = "queued",
                             !.expires = clock + JobTtl])
  /\ UNCHANGED <<clock, approvals, dispatches, outbox>>

\* A job that is already cancelling, cancelled or terminal is returned as it
\* is.
Cancellable(j) == Exists(j) /\ ~Terminal(j) /\ jobs[j].status # "cancelling"

\* cancelAtomically with the revision the caller last read.
CancelAtomically(j, expectedRevision) ==
  /\ Cancellable(j)
  /\ jobs[j].revision = expectedRevision
  /\ CanIncrement(expectedRevision)
  /\ \/ /\ jobs[j].status \in {"queued", "dispatched"}
        /\ SetJob(j, MoveTerminal(j, "cancelled"))
        /\ UNCHANGED outbox
     \/ /\ jobs[j].status \notin {"queued", "dispatched"}
        /\ Unexpired(j)
        /\ SetJob(j, [Move(j, "cancelling") EXCEPT
                        !.cancelRevision = expectedRevision + 1])
        /\ Enqueue(jobs[j].connector,
                   Row("job.cancel", j, jobs[j].attempt, expectedRevision + 1,
                       None, "none", jobs[j].expires))
  /\ UNCHANGED <<clock, approvals, dispatches>>

\* Faulty variant: an approval is not bound to a revision.
ApprovalCurrentAtAnyRevision(a) ==
  /\ approvals[a].job # None
  /\ LET job == jobs[approvals[a].job] IN
       job.status = "waiting_approval" /\ job.attempt = approvals[a].attempt

\* The binding an undecided approval must still have to be decided.
ApprovalCurrent(a) ==
  /\ approvals[a].job # None
  /\ LET job == jobs[approvals[a].job] IN
       /\ job.status = "waiting_approval"
       /\ job.revision = approvals[a].revision
       /\ job.attempt = approvals[a].attempt

Undecided(a) == approvals[a].decision = "none"

\* recordApprovalDecision: the decision is recorded once; a decision that
\* arrives after the approval's own deadline is recorded as a reject.  Either
\* way the decision is queued for the job's Connector.
RecordApprovalDecision(a, decision, expectedRevision) ==
  /\ ApprovalCurrent(a)
  /\ Undecided(a)
  /\ approvals[a].revision = expectedRevision
  /\ Unexpired(approvals[a].job)
  /\ LET j == approvals[a].job
         effective == IF approvals[a].expires <= clock
                        THEN "reject" ELSE decision
     IN /\ approvals' = [approvals EXCEPT ![a].decision = effective]
        /\ Enqueue(jobs[j].connector,
                   Row("approval.decision", j, approvals[a].attempt,
                       approvals[a].revision, a, effective,
                       Lesser(jobs[j].expires, clock + CommandTtl)))
  /\ UNCHANGED <<clock, jobs, dispatches>>

\* acknowledgeResult: once, and only for a summary that has a text.
AcknowledgeResult(j) ==
  /\ Terminal(j)
  /\ jobs[j].summary = "text"
  /\ ~jobs[j].acknowledged
  /\ SetJob(j, [jobs[j] EXCEPT !.acknowledged = TRUE, !.unread = FALSE])
  /\ UNCHANGED <<clock, approvals, dispatches, outbox>>

-----------------------------------------------------------------------------
(* Dispatch: PostgresConnectorStore.dispatchNext.                           *)

\* Faulty variant: an offer holds no slot until it is claimed.
ActiveOnceClaimed(r) ==
  {j \in Jobs : RepositoryOf[j] = r /\ Unexpired(j) /\ Claimed(j)}

\* Jobs that hold one of their repository's slots at the admission time.
Active(r) ==
  {j \in Jobs : /\ RepositoryOf[j] = r
                /\ Unexpired(j)
                /\ \/ Claimed(j)
                   \/ /\ jobs[j].status = "dispatched"
                      /\ jobs[j].leaseExpires > clock}

\* Faulty variant: a running job whose lease ran out is offered again.
OfferableRunning(j) ==
  /\ Unexpired(j)
  /\ \/ jobs[j].status = "queued"
     \/ jobs[j].status \in {"dispatched", "running"}
          /\ jobs[j].leaseExpires <= clock

Offerable(j) ==
  /\ Unexpired(j)
  /\ \/ jobs[j].status = "queued"
     \/ jobs[j].status = "dispatched" /\ jobs[j].leaseExpires <= clock

\* FOR UPDATE SKIP LOCKED takes the oldest row no other transaction holds,
\* which can be any offerable job.
DispatchNext(c, j) ==
  /\ Offerable(j)
  /\ Cardinality(Active(RepositoryOf[j])) < MaxConcurrency[RepositoryOf[j]]
  /\ CanIncrement(jobs[j].revision) /\ CanIncrement(jobs[j].attempt)
  /\ LET lease == jobs[j].lease + 1
         leaseExpires == Lesser(clock + LeaseTtl, jobs[j].expires)
         attempt == jobs[j].attempt + 1
     IN /\ SetJob(j, [Move(j, "dispatched") EXCEPT
                        !.connector = c, !.lease = lease,
                        !.leaseExpires = leaseExpires])
        /\ dispatches' = dispatches \cup
             {[job |-> j, connector |-> c, attempt |-> attempt,
               lease |-> lease, expires |-> leaseExpires]}
        /\ Enqueue(c, Row("job.offer", j, attempt, lease, None, "none",
                          leaseExpires))
  /\ UNCHANGED <<clock, approvals>>

-----------------------------------------------------------------------------
(* The Connector's messages, as applyBusiness of acceptClientMessage runs   *)
(* them for a Connector that negotiated durable receipts and coordination.  *)
(* The verdict of a message is                                              *)
(*   "accept", "audit", "withdrawn"  it is applied,                         *)
(*   "expired", "conflict", "limit"  it is consumed as a rejection: the     *)
(*                                   savepoint is undone, an error and an   *)
(*                                   acknowledgement are queued,            *)
(*   "unauthorized", "failed"        the whole transaction is rolled back,  *)
(*                                   the message is not consumed and the    *)
(*                                   gateway closes the connection.         *)

Consumed == {"accept", "audit", "withdrawn", "expired", "conflict", "limit"}

Dispatched(c, j, attempt) ==
  {d \in dispatches : d.connector = c /\ d.job = j /\ d.attempt = attempt}

\* hasExpiredOriginalOffer: this lease was offered to this Connector, is no
\* longer the job's lease, and has run out.
ExpiredOriginalOffer(c, j, attempt, lease) ==
  /\ jobs[j].lease # lease
  /\ \E d \in Dispatched(c, j, attempt) : d.lease = lease /\ d.expires <= clock

\* Faulty variant: the lease of the claim is not part of the match.
OriginalClaimOfferAnyLease(c, j, attempt, lease) ==
  Cardinality(Dispatched(c, j, attempt)) = 1

\* hasOriginalOffer: exactly one dispatch record matches the message.
OriginalClaimOffer(c, j, attempt, lease) ==
  Cardinality({d \in Dispatched(c, j, attempt) : d.lease = lease}) = 1

ClaimVerdict(c, j, attempt, lease) ==
  CASE /\ ~(Bound(c, j) /\ jobs[j].lease = lease)
       /\ ExpiredOriginalOffer(c, j, attempt, lease) -> "expired"
    [] /\ Bound(c, j) /\ jobs[j].lease = lease
       /\ jobs[j].status = "cancelled" /\ Unexpired(j)
       /\ attempt = jobs[j].attempt + 1 -> "withdrawn"
    [] OTHER ->
       IF ~Bound(c, j) THEN "unauthorized"
       ELSE IF \/ jobs[j].status # "dispatched"
               \/ jobs[j].lease # lease
               \/ attempt # jobs[j].attempt + 1
         THEN IF OriginalClaimOffer(c, j, attempt, lease)
                THEN "conflict" ELSE "unauthorized"
       ELSE IF jobs[j].leaseExpires <= clock \/ ~Unexpired(j) THEN "expired"
       ELSE IF CanIncrement(jobs[j].attempt) /\ CanIncrement(jobs[j].revision)
         THEN "accept"
       ELSE IF OriginalClaimOffer(c, j, attempt, lease)
         THEN "limit" ELSE "failed"

\* replaceServerMessage: the row keeps its sequence and becomes an error.
Tombstone(row) == [row EXCEPT !.type = "protocol.error"]

\* claimOfferedJob, with withdrawCancelledOffer for a job that was cancelled
\* while its offer was out.
ClaimOfferedJob(c, j, attempt, lease) ==
  /\ \/ /\ ClaimVerdict(c, j, attempt, lease) = "accept"
        /\ SetJob(j, [Move(j, "running") EXCEPT !.attempt = attempt])
        /\ UNCHANGED outbox
     \/ /\ ClaimVerdict(c, j, attempt, lease) = "withdrawn"
        /\ outbox' = [outbox EXCEPT ![c] =
             [n \in DOMAIN @ |->
                IF @[n].type = "job.offer" /\ @[n].job = j /\ @[n].ref = lease
                  THEN Tombstone(@[n]) ELSE @[n]]]
        /\ UNCHANGED jobs
  /\ UNCHANGED <<clock, approvals, dispatches>>

\* terminalStatusForEvent and statusForEvent
TerminalEvent(kind) == kind \in TerminalStates

StatusForEvent(current, kind) == IF kind = "progress" THEN current ELSE kind

\* An event for a job that has ended: an outcome is only added to its history.
AfterTerminal(j, kind) == IF TerminalEvent(kind) THEN "audit" ELSE "conflict"

EventVerdict(c, j, attempt, kind) ==
  LET next == StatusForEvent(jobs[j].status, kind) IN
  IF ~Bound(c, j) THEN "unauthorized"
  ELSE IF jobs[j].attempt # attempt THEN "conflict"
  ELSE IF Terminal(j) THEN AfterTerminal(j, kind)
  ELSE IF ~Claimed(j) THEN "conflict"
  ELSE IF ~Unexpired(j) THEN "expired"
  ELSE IF next # jobs[j].status /\ ~canTransition(jobs[j].status, next)
    THEN "conflict"
  ELSE IF CanIncrement(jobs[j].revision) THEN "accept" ELSE "limit"

\* ingestJobEvent
IngestJobEvent(c, j, attempt, kind, summary) ==
  /\ EventVerdict(c, j, attempt, kind) = "accept"
  /\ LET next == StatusForEvent(jobs[j].status, kind) IN
       SetJob(j, IF TerminalEvent(kind)
                   THEN [MoveTerminal(j, next) EXCEPT !.summary = summary]
                   ELSE Move(j, next))
  /\ UNCHANGED <<clock, approvals, dispatches, outbox>>

ApprovalVerdict(c, j, attempt, revision, a, expires) ==
  IF ~Bound(c, j) THEN "unauthorized"
  ELSE IF \/ jobs[j].status \notin {"running", "waiting_approval"}
          \/ jobs[j].attempt # attempt THEN "conflict"
  ELSE IF ~CanIncrement(jobs[j].revision) THEN "limit"
  ELSE IF revision # jobs[j].revision + 1 THEN "conflict"
  ELSE IF ~Unexpired(j) \/ expires <= clock THEN "expired"
  ELSE IF approvals[a] # NoApproval THEN "failed"
  ELSE "accept"

\* ingestApprovalRequested: the wait and the approval are bound to the same
\* new revision of the job.
IngestApprovalRequested(c, j, attempt, revision, a, expires) ==
  /\ ApprovalVerdict(c, j, attempt, revision, a, expires) = "accept"
  /\ SetJob(j, Move(j, "waiting_approval"))
  /\ approvals' = [approvals EXCEPT ![a] =
       [job |-> j, attempt |-> attempt, revision |-> revision,
        expires |-> expires, decision |-> "none"]]
  /\ UNCHANGED <<clock, dispatches, outbox>>

\* Faulty variant: a cancellation report is taken in any state.
CancelledVerdictEager(c, j, attempt) ==
  IF ~Bound(c, j) THEN "unauthorized"
  ELSE IF jobs[j].attempt # attempt THEN "conflict"
  ELSE IF CanIncrement(jobs[j].revision) THEN "accept" ELSE "limit"

CancelledVerdict(c, j, attempt) ==
  IF ~Bound(c, j) THEN "unauthorized"
  ELSE IF jobs[j].attempt # attempt THEN "conflict"
  ELSE IF jobs[j].status = "cancelling"
    THEN IF ~Unexpired(j) THEN "expired"
         ELSE IF CanIncrement(jobs[j].revision) THEN "accept" ELSE "limit"
  ELSE IF Terminal(j) THEN "audit" ELSE "conflict"

\* ingestJobCancelled
IngestJobCancelled(c, j, attempt) ==
  /\ CancelledVerdict(c, j, attempt) = "accept"
  /\ SetJob(j, MoveTerminal(j, "cancelled"))
  /\ UNCHANGED <<clock, approvals, dispatches, outbox>>

\* The job an acknowledged row resumes: the row is an approve decision whose
\* binding is still the job's.
Resumes(row) ==
  /\ row.type = "approval.decision" /\ row.decision = "approve"
  /\ jobs[row.job].status = "waiting_approval"
  /\ jobs[row.job].attempt = row.attempt
  /\ jobs[row.job].revision = row.ref
  /\ Unexpired(row.job)

\* resumeDeliveredApproval has no checkedJobIncrement: the UPDATE itself fails
\* when the column is exhausted.
AckVerdict(c, n) ==
  IF n \notin DOMAIN outbox[c] THEN "failed"
  ELSE IF Resumes(outbox[c][n]) /\ ~CanIncrement(jobs[outbox[c][n].job].revision)
    THEN "failed"
  ELSE "accept"

\* The client ack of server row n.
ClientAck(c, n) ==
  /\ AckVerdict(c, n) = "accept"
  /\ Resumes(outbox[c][n])
  /\ SetJob(outbox[c][n].job, Move(outbox[c][n].job, "running"))
  /\ UNCHANGED <<clock, approvals, dispatches, outbox>>

\* tombstoneReplayBatch, run by every hello and every pendingServerMessages:
\* rows after the Connector's cursor that have expired, and offers of jobs
\* that have ended, become errors in place, a batch at a time.
Replaceable(c, after) ==
  {n \in DOMAIN outbox[c] :
     /\ n > after
     /\ outbox[c][n].type # "protocol.error"
     /\ \/ outbox[c][n].expires <= clock
        \/ outbox[c][n].type = "job.offer" /\ Terminal(outbox[c][n].job)}

TombstoneReplayBatch(c, after) ==
  LET candidates == Replaceable(c, after)
      batch == {n \in candidates :
                  Cardinality({m \in candidates : m < n}) < ReplayBatch}
  IN /\ candidates # {}
     /\ outbox' = [outbox EXCEPT ![c] =
          [n \in DOMAIN @ |-> IF n \in batch THEN Tombstone(@[n]) ELSE @[n]]]
     /\ UNCHANGED <<clock, jobs, approvals, dispatches>>

Tick ==
  /\ clock < MaxClock
  /\ clock' = clock + 1
  /\ UNCHANGED <<jobs, approvals, dispatches, outbox>>

-----------------------------------------------------------------------------

Init ==
  /\ clock = 0
  /\ jobs = [j \in Jobs |-> NoJob]
  /\ approvals = [a \in ApprovalIds |-> NoApproval]
  /\ dispatches = {}
  /\ outbox = [c \in Connectors |-> <<>>]

Revisions == 0..MaxInt

OwnerStep ==
  \/ \E j \in Jobs :
       \/ Submit(j)
       \/ \E revision \in Revisions : CancelAtomically(j, revision)
       \/ AcknowledgeResult(j)
  \/ \E a \in ApprovalIds, decision \in {"approve", "reject"},
        revision \in Revisions : RecordApprovalDecision(a, decision, revision)

ConnectorStep(c) ==
  \/ \E j \in Jobs :
       \/ DispatchNext(c, j)
       \/ \E attempt \in Attempts :
            \/ \E lease \in {d.lease : d \in dispatches} :
                 ClaimOfferedJob(c, j, attempt, lease)
            \/ \E kind \in EventKinds, summary \in Summaries :
                 /\ TerminalEvent(kind) \/ summary = "none"
                 /\ IngestJobEvent(c, j, attempt, kind, summary)
            \/ \E revision \in Revisions, a \in ApprovalIds,
                  expires \in 1..MaxClock :
                 IngestApprovalRequested(c, j, attempt, revision, a, expires)
            \/ IngestJobCancelled(c, j, attempt)
  \/ \E n \in DOMAIN outbox[c] :
       ClientAck(c, n) \/ TombstoneReplayBatch(c, n - 1)

Next == Tick \/ OwnerStep \/ \E c \in Connectors : ConnectorStep(c)

Spec == Init /\ [][Next]_vars

-----------------------------------------------------------------------------
(* Types *)

JobRows ==
  [status : JobStatus \cup {"absent"}, revision : 0..MaxInt, attempt : 0..MaxInt,
   connector : Connectors \cup {None}, lease : Nat, leaseExpires : Nat,
   expires : Nat, cancelRevision : 0..MaxInt, summary : Summaries,
   unread : BOOLEAN, acknowledged : BOOLEAN]

ApprovalRows ==
  [job : Jobs \cup {None}, attempt : Nat, revision : Nat, expires : Nat,
   decision : {"none", "approve", "reject"}]

DispatchRows ==
  [job : Jobs, connector : Connectors, attempt : Nat, lease : Nat,
   expires : Nat]

OutboxRows ==
  [type : {"job.offer", "job.cancel", "approval.decision", "protocol.error"},
   job : Jobs, attempt : Nat, ref : Nat, approval : ApprovalIds \cup {None},
   decision : {"none", "approve", "reject"}, expires : Nat]

\* The tables hold rows of their schema (db/schema.ts).
TypeOK ==
  /\ clock \in Nat
  /\ jobs \in [Jobs -> JobRows]
  /\ approvals \in [ApprovalIds -> ApprovalRows]
  /\ dispatches \subseteq DispatchRows
  /\ outbox \in [Connectors -> Seq(OutboxRows)]

-----------------------------------------------------------------------------
(* Properties *)

\* A job is executed at most once.  However often its offer is repeated,
\* handed to another Connector or claimed late, the attempt counter never
\* passes 1, and it is 1 exactly for the jobs whose claim was accepted:
\* claimOfferedJob is the only writer and no handler makes a claimed job
\* offerable again.
SingleExecution ==
  \A j \in Jobs :
    /\ jobs[j].attempt <= 1
    /\ jobs[j].status \in {"absent", "queued", "dispatched"}
         => jobs[j].attempt = 0
    /\ jobs[j].status \in ClaimedStates \cup {"succeeded", "failed"}
         => jobs[j].attempt = 1

\* The admission count of dispatchNext bounds what is really in flight: a
\* late claim, a redispatch or the passage of time never lifts a repository
\* above its policy's maxConcurrency.
SlotsRespected ==
  \A r \in Repositories : Cardinality(Active(r)) <= MaxConcurrency[r]

\* The owner is never asked two questions about one job: at most one approval
\* has the binding recordApprovalDecision and listPendingApprovals require.
OnePendingApproval ==
  \A a, b \in ApprovalIds :
    ApprovalCurrent(a) /\ ApprovalCurrent(b)
      /\ approvals[a].job = approvals[b].job => a = b

\* An ended job stays as it ended: a late event, a late cancellation, a late
\* claim or a replayed acknowledgement never re-opens it or rewrites its
\* outcome.  Only the owner's one acknowledgement is recorded on it.
TerminalIsFinal ==
  [][\A j \in Jobs :
       Terminal(j) =>
         /\ [jobs[j] EXCEPT !.unread = FALSE, !.acknowledged = TRUE]
              = [jobs'[j] EXCEPT !.unread = FALSE, !.acknowledged = TRUE]
         /\ jobs[j].acknowledged => jobs'[j] = jobs[j]]_vars

\* The revision identifies what the optimistic checks compare it with: a
\* handler that changes the status, the attempt, the lease or the binding of
\* a job moves its revision by exactly one, so a decision or a cancellation
\* that carries the current revision was made about the current state.
RevisionNamesState ==
  [][\A j \in Jobs :
       \/ jobs'[j].revision = jobs[j].revision + 1
       \/ /\ jobs'[j].revision = jobs[j].revision
          /\ Exists(j) =>
               /\ jobs'[j].status = jobs[j].status
               /\ jobs'[j].attempt = jobs[j].attempt
               /\ jobs'[j].lease = jobs[j].lease
               /\ jobs'[j].connector = jobs[j].connector]_vars

\* A Connector's outbound queue is strictly ordered, so a message the store
\* refuses without consuming it blocks every later one.  That never happens
\* to what a Connector may legitimately have queued: a claim of any offer it
\* was ever sent, and any event or cancellation report of an attempt it runs
\* or ran, whatever happened to the job in between.
PublishedIsConsumed ==
  /\ \A d \in dispatches :
       ClaimVerdict(d.connector, d.job, d.attempt, d.lease) \in Consumed
  /\ \A j \in Jobs : jobs[j].attempt > 0 =>
       LET c == jobs[j].connector IN
         /\ CancelledVerdict(c, j, jobs[j].attempt) \in Consumed
         /\ \A kind \in EventKinds :
              EventVerdict(c, j, jobs[j].attempt, kind) \in Consumed

Lifecycle == INSTANCE JobLifecycle WITH status <- [j \in Jobs |-> jobs[j].status]

\* Every status change of every handler follows the transition table.
FollowsLifecycle == Lifecycle!Spec
=============================================================================
