--------------------------- MODULE JobStoreProofs ---------------------------
(***************************************************************************)
(* Proofs about JobStore, for any jobs, Connectors, approvals, limits and  *)
(* deadlines.  The types are an inductive invariant (Typing).  StepShape   *)
(* then says once what a step of any handler does to the jobs table;       *)
(* single execution, final outcomes, revisions and the refinement of       *)
(* JobLifecycle follow from it.  WorkShape says what a step does to offers *)
(* and slots; that published messages are consumed and that repositories   *)
(* stay within their slots follow from it.                                 *)
(***************************************************************************)
EXTENDS JobStore, FiniteSetTheorems, TLAPS

-----------------------------------------------------------------------------
(* Types *)

\* Replacing rows of a sequence in place leaves a sequence (replaceServerMessage).
LEMMA SameLength ==
  ASSUME NEW S, NEW s \in Seq(S), NEW f \in [DOMAIN s -> S]
  PROVE  f \in Seq(S)
  <1>1. DOMAIN s = 1..Len(s) /\ Len(s) \in Nat
    OBVIOUS
  <1> QED
    BY <1>1

\* A status change within the range of the revision column leaves a job row.
LEMMA MoveType ==
  ASSUME TypeOK, ConstantsAssumption, NEW j \in Jobs, NEW status \in JobStatus,
         CanIncrement(jobs[j].revision)
  PROVE  Move(j, status) \in JobRows /\ MoveTerminal(j, status) \in JobRows
  <1>1. jobs[j] \in JobRows
    BY Zenon DEF TypeOK
  <1>2. jobs[j].revision + 1 \in 0..MaxInt
    BY <1>1 DEF JobRows, CanIncrement, ConstantsAssumption
  <1> QED
    BY <1>1, <1>2, Zenon DEF Move, MoveTerminal, JobRows

\* Writing a job row keeps the type of the jobs table.
LEMMA SetJobType ==
  ASSUME TypeOK, NEW j \in Jobs, NEW row \in JobRows, SetJob(j, row)
  PROVE  jobs' \in [Jobs -> JobRows]
  BY Zenon DEF TypeOK, SetJob

\* Appending a row keeps the type of the outbox, also when c is not a Connector.
LEMMA EnqueueType ==
  ASSUME TypeOK, NEW c, NEW row \in OutboxRows, Enqueue(c, row)
  PROVE  outbox' \in [Connectors -> Seq(OutboxRows)]
  <1>1. ASSUME NEW d \in Connectors PROVE outbox'[d] \in Seq(OutboxRows)
    BY <1>1 DEF TypeOK, Enqueue
  <1> QED
    BY <1>1, Zenon DEF TypeOK, Enqueue

LEMMA TombstoneType ==
  ASSUME NEW row \in OutboxRows
  PROVE  Tombstone(row) \in OutboxRows
  BY Zenon DEF Tombstone, OutboxRows

\* The rows replay and withdrawal replace stay rows of the outbox.
LEMMA ReplacedType ==
  ASSUME TypeOK, NEW c \in Connectors, NEW B,
         outbox' = [outbox EXCEPT ![c] =
           [n \in DOMAIN @ |-> IF n \in B THEN Tombstone(@[n]) ELSE @[n]]]
  PROVE  outbox' \in [Connectors -> Seq(OutboxRows)]
  <1> DEFINE s == outbox[c]
             f == [n \in DOMAIN s |-> IF n \in B THEN Tombstone(s[n]) ELSE s[n]]
  <1>1. s \in Seq(OutboxRows)
    BY Zenon DEF TypeOK
  <1>2. \A n \in DOMAIN s : s[n] \in OutboxRows /\ Tombstone(s[n]) \in OutboxRows
    BY <1>1, TombstoneType
  <1>3. f \in [DOMAIN s -> OutboxRows]
    BY <1>2, Zenon
  <1>4. f \in Seq(OutboxRows)
    BY <1>1, <1>3, SameLength, Zenon
  <1>5. outbox' = [outbox EXCEPT ![c] = f]
    BY Zenon
  <1> QED
    BY <1>4, <1>5, Zenon DEF TypeOK

\* The owner's operations keep the types.
LEMMA OwnerTyping ==
  ASSUME TypeOK, ConstantsAssumption, OwnerStep
  PROVE  TypeOK'
  <1>1. ASSUME NEW j \in Jobs, Submit(j) PROVE TypeOK'
    <2>1. NoJob \in JobRows
      BY DEF NoJob, JobRows, Summaries, ConstantsAssumption
    <2>2. clock + JobTtl \in Nat
      BY DEF TypeOK, ConstantsAssumption
    <2>3. [NoJob EXCEPT !.status = "queued", !.expires = clock + JobTtl] \in JobRows
      BY <2>1, <2>2, Zenon DEF JobRows, JobStatus
    <2> QED
      BY <1>1, <2>3, SetJobType, Zenon DEF Submit, TypeOK
  <1>2. ASSUME NEW j \in Jobs, NEW revision \in Revisions,
               CancelAtomically(j, revision)
        PROVE  TypeOK'
    <2> USE <1>2 DEF CancelAtomically
    <2>0. revision + 1 \in 0..MaxInt /\ jobs[j] \in JobRows
      BY SMTT(30) DEF Revisions, CanIncrement, ConstantsAssumption, TypeOK
    <2>1. CASE SetJob(j, MoveTerminal(j, "cancelled")) /\ UNCHANGED outbox
      <3>1. MoveTerminal(j, "cancelled") \in JobRows
        BY MoveType, Zenon DEF JobStatus
      <3> QED
        BY <2>1, <3>1, SetJobType, Zenon DEF TypeOK
    <2>2. CASE /\ SetJob(j, [Move(j, "cancelling") EXCEPT
                               !.cancelRevision = revision + 1])
               /\ Enqueue(jobs[j].connector,
                     Row("job.cancel", j, jobs[j].attempt, revision + 1,
                         None, "none", jobs[j].expires))
      <3>1. Move(j, "cancelling") \in JobRows
        BY MoveType, Zenon DEF JobStatus
      <3>2. [Move(j, "cancelling") EXCEPT !.cancelRevision = revision + 1] \in JobRows
        BY <3>1, <2>0, Zenon DEF JobRows
      <3>3. Row("job.cancel", j, jobs[j].attempt, revision + 1,
                None, "none", jobs[j].expires) \in OutboxRows
        BY <2>0 DEF Row, OutboxRows, JobRows
      <3>4. jobs' \in [Jobs -> JobRows]
        BY <2>2, <3>2, SetJobType, Zenon
      <3>5. outbox' \in [Connectors -> Seq(OutboxRows)]
        BY <2>2, <3>3, EnqueueType, Zenon
      <3> QED
        BY <3>4, <3>5, Zenon DEF TypeOK
    <2> QED
      BY <2>1, <2>2, Zenon
  <1>3. ASSUME NEW j \in Jobs, AcknowledgeResult(j) PROVE TypeOK'
    <2>1. jobs[j] \in JobRows
      BY Zenon DEF TypeOK
    <2>2. [jobs[j] EXCEPT !.acknowledged = TRUE, !.unread = FALSE] \in JobRows
      BY <2>1, Zenon DEF JobRows
    <2> QED
      BY <1>3, <2>2, SetJobType, Zenon DEF AcknowledgeResult, TypeOK
  <1>4. ASSUME NEW a \in ApprovalIds, NEW decision \in {"approve", "reject"},
               NEW revision \in Revisions,
               RecordApprovalDecision(a, decision, revision)
        PROVE  TypeOK'
    <2> DEFINE j == approvals[a].job
               effective == IF approvals[a].expires <= clock
                              THEN "reject" ELSE decision
               row == Row("approval.decision", j, approvals[a].attempt,
                          approvals[a].revision, a, effective,
                          Lesser(jobs[j].expires, clock + CommandTtl))
    <2>1. /\ approvals[a] \in ApprovalRows /\ j \in Jobs /\ jobs[j] \in JobRows
          /\ effective \in {"approve", "reject"}
      BY <1>4, Zenon DEF RecordApprovalDecision, ApprovalCurrent, TypeOK, ApprovalRows
    <2>2. Lesser(jobs[j].expires, clock + CommandTtl) \in Nat
      BY <2>1, SMTT(30) DEF Lesser, TypeOK, JobRows, ConstantsAssumption
    <2>3. row \in OutboxRows
      BY <2>1, <2>2, Zenon DEF Row, OutboxRows, ApprovalRows
    <2>4. outbox' \in [Connectors -> Seq(OutboxRows)]
      <3>1. Enqueue(jobs[j].connector, row)
        BY <1>4, Zenon DEF RecordApprovalDecision
      <3> QED
        BY <2>3, <3>1, EnqueueType, Zenon
    <2>5. approvals' \in [ApprovalIds -> ApprovalRows]
      <3>1. approvals' = [approvals EXCEPT ![a].decision = effective]
        BY <1>4, Zenon DEF RecordApprovalDecision
      <3>2. [approvals[a] EXCEPT !.decision = effective] \in ApprovalRows
        BY <2>1, Zenon DEF ApprovalRows
      <3>3. approvals' = [approvals EXCEPT ![a] =
                            [approvals[a] EXCEPT !.decision = effective]]
        BY <3>1, Zenon
      <3> QED
        BY <3>2, <3>3, Zenon DEF TypeOK
    <2> QED
      BY <1>4, <2>4, <2>5, Zenon DEF RecordApprovalDecision, TypeOK
  <1> QED
    BY <1>1, <1>2, <1>3, <1>4, Zenon DEF OwnerStep

\* What a Connector's messages, dispatch and replay do keeps the types.
LEMMA ConnectorTyping ==
  ASSUME TypeOK, ConstantsAssumption, NEW c \in Connectors, ConnectorStep(c)
  PROVE  TypeOK'
  <1>0. ASSUME NEW j \in Jobs PROVE jobs[j] \in JobRows
    BY <1>0, Zenon DEF TypeOK
  <1>1. ASSUME NEW j \in Jobs, DispatchNext(c, j) PROVE TypeOK'
    <2> DEFINE lease == jobs[j].lease + 1
               leaseExpires == Lesser(clock + LeaseTtl, jobs[j].expires)
               attempt == jobs[j].attempt + 1
    <2>1. lease \in Nat /\ leaseExpires \in Nat /\ attempt \in Nat
      BY <1>0, SMTT(30) DEF JobRows, Lesser, TypeOK, ConstantsAssumption
    <2>2. Move(j, "dispatched") \in JobRows
      BY <1>1, MoveType, Zenon DEF DispatchNext, JobStatus
    <2>3. [Move(j, "dispatched") EXCEPT !.connector = c, !.lease = lease,
             !.leaseExpires = leaseExpires] \in JobRows
      BY <2>1, <2>2, Zenon DEF JobRows
    <2>4. jobs' \in [Jobs -> JobRows]
      BY <1>1, <2>3, SetJobType, Zenon DEF DispatchNext
    <2>5. Row("job.offer", j, attempt, lease, None, "none", leaseExpires)
            \in OutboxRows
      BY <2>1, Zenon DEF Row, OutboxRows
    <2>6. outbox' \in [Connectors -> Seq(OutboxRows)]
      <3>1. Enqueue(c, Row("job.offer", j, attempt, lease, None, "none",
                           leaseExpires))
        BY <1>1, Zenon DEF DispatchNext
      <3> QED
        BY <3>1, <2>5, EnqueueType, Zenon
    <2>7. dispatches' \subseteq DispatchRows
      BY <1>1, <2>1, SMTT(30) DEF DispatchNext, DispatchRows, TypeOK
    <2> QED
      BY <1>1, <2>4, <2>6, <2>7, Zenon DEF DispatchNext, TypeOK
  <1>2. ASSUME NEW j \in Jobs, NEW attempt \in Attempts, NEW lease,
               ClaimOfferedJob(c, j, attempt, lease)
        PROVE  TypeOK'
    <2>1. CASE /\ ClaimVerdict(c, j, attempt, lease) = "accept"
               /\ SetJob(j, [Move(j, "running") EXCEPT !.attempt = attempt])
               /\ UNCHANGED outbox
      <3>1. /\ attempt = jobs[j].attempt + 1
            /\ CanIncrement(jobs[j].attempt) /\ CanIncrement(jobs[j].revision)
        BY <2>1, Zenon DEF ClaimVerdict
      <3>2. attempt \in 0..MaxInt
        BY <1>0, <3>1 DEF JobRows, CanIncrement, ConstantsAssumption
      <3>3. Move(j, "running") \in JobRows
        BY <3>1, MoveType, Zenon DEF JobStatus
      <3>4. [Move(j, "running") EXCEPT !.attempt = attempt] \in JobRows
        BY <3>2, <3>3, Zenon DEF JobRows
      <3> QED
        BY <1>2, <2>1, <3>4, SetJobType, Zenon DEF ClaimOfferedJob, TypeOK
    <2>2. CASE /\ outbox' = [outbox EXCEPT ![c] =
                    [n \in DOMAIN @ |->
                       IF @[n].type = "job.offer" /\ @[n].job = j /\ @[n].ref = lease
                         THEN Tombstone(@[n]) ELSE @[n]]]
               /\ UNCHANGED jobs
      <3> DEFINE B == {n \in DOMAIN outbox[c] :
                         /\ outbox[c][n].type = "job.offer"
                         /\ outbox[c][n].job = j /\ outbox[c][n].ref = lease}
      <3>1. outbox' = [outbox EXCEPT ![c] =
              [n \in DOMAIN @ |-> IF n \in B THEN Tombstone(@[n]) ELSE @[n]]]
        BY <2>2, Zenon
      <3>2. outbox' \in [Connectors -> Seq(OutboxRows)]
        BY <3>1, ReplacedType, Zenon
      <3> QED
        BY <1>2, <2>2, <3>2, Zenon DEF ClaimOfferedJob, TypeOK
    <2> QED
      BY <1>2, <2>1, <2>2, Zenon DEF ClaimOfferedJob
  <1>3. ASSUME NEW j \in Jobs, NEW attempt \in Attempts, NEW kind \in EventKinds,
               NEW summary \in Summaries,
               IngestJobEvent(c, j, attempt, kind, summary)
        PROVE  TypeOK'
    <2> DEFINE next == StatusForEvent(jobs[j].status, kind)
    <2>1. CanIncrement(jobs[j].revision) /\ Claimed(j)
      BY <1>3, Zenon DEF IngestJobEvent, EventVerdict, AfterTerminal
    <2>2. next \in JobStatus
      BY <2>1, Zenon DEF StatusForEvent, EventKinds, JobStatus, Claimed, ClaimedStates
    <2>3. Move(j, next) \in JobRows /\ MoveTerminal(j, next) \in JobRows
      BY <2>1, <2>2, MoveType, Zenon
    <2>4. [MoveTerminal(j, next) EXCEPT !.summary = summary] \in JobRows
      BY <2>3, Zenon DEF JobRows
    <2>5. jobs' \in [Jobs -> JobRows]
      BY <1>3, <2>3, <2>4, SetJobType, Zenon DEF IngestJobEvent
    <2> QED
      BY <1>3, <2>5, Zenon DEF IngestJobEvent, TypeOK
  <1>4. ASSUME NEW j \in Jobs, NEW attempt \in Attempts, NEW revision \in Revisions,
               NEW a \in ApprovalIds, NEW expires \in 1..MaxClock,
               IngestApprovalRequested(c, j, attempt, revision, a, expires)
        PROVE  TypeOK'
    <2>1. CanIncrement(jobs[j].revision)
      BY <1>4, Zenon DEF IngestApprovalRequested, ApprovalVerdict
    <2>2. jobs' \in [Jobs -> JobRows]
      BY <1>4, <2>1, MoveType, SetJobType, Zenon DEF IngestApprovalRequested, JobStatus
    <2>3. [job |-> j, attempt |-> attempt, revision |-> revision,
           expires |-> expires, decision |-> "none"] \in ApprovalRows
      BY DEF ApprovalRows, ConstantsAssumption, Revisions
    <2>4. approvals' \in [ApprovalIds -> ApprovalRows]
      BY <1>4, <2>3, Zenon DEF IngestApprovalRequested, TypeOK
    <2> QED
      BY <1>4, <2>2, <2>4, Zenon DEF IngestApprovalRequested, TypeOK
  <1>5. ASSUME NEW j \in Jobs, NEW attempt \in Attempts,
               IngestJobCancelled(c, j, attempt)
        PROVE  TypeOK'
    <2>1. CanIncrement(jobs[j].revision)
      BY <1>5, Zenon DEF IngestJobCancelled, CancelledVerdict
    <2>2. jobs' \in [Jobs -> JobRows]
      BY <1>5, <2>1, MoveType, SetJobType, Zenon DEF IngestJobCancelled, JobStatus
    <2> QED
      BY <1>5, <2>2, Zenon DEF IngestJobCancelled, TypeOK
  <1>6. ASSUME NEW n \in DOMAIN outbox[c], ClientAck(c, n) PROVE TypeOK'
    <2> DEFINE j == outbox[c][n].job
    <2>1. outbox[c][n] \in OutboxRows
      BY DEF TypeOK
    <2>2. j \in Jobs
      BY <2>1, Zenon DEF OutboxRows
    <2>3. CanIncrement(jobs[j].revision)
      BY <1>6, Zenon DEF ClientAck, AckVerdict
    <2>4. jobs' \in [Jobs -> JobRows]
      BY <1>6, <2>2, <2>3, MoveType, SetJobType, Zenon DEF ClientAck, JobStatus
    <2> QED
      BY <1>6, <2>4, Zenon DEF ClientAck, TypeOK
  <1>7. ASSUME NEW n \in DOMAIN outbox[c], TombstoneReplayBatch(c, n - 1)
        PROVE  TypeOK'
    <2>1. outbox' \in [Connectors -> Seq(OutboxRows)]
      BY <1>7, ReplacedType, Zenon DEF TombstoneReplayBatch
    <2> QED
      BY <1>7, <2>1, Zenon DEF TombstoneReplayBatch, TypeOK
  <1> QED
    BY <1>1, <1>2, <1>3, <1>4, <1>5, <1>6, <1>7, Zenon DEF ConnectorStep

\* Every table holds rows of its schema in every reachable state: revisions,
\* attempts and cancellation provenance never leave their columns' range, and
\* every command row names a job (checkedJobIncrement, enqueueServerMessage).
THEOREM Typing == Spec => []TypeOK
  <1>1. Init => TypeOK
    BY ConstantsAssumption
    DEF Init, TypeOK, NoJob, NoApproval, JobRows, ApprovalRows, DispatchRows,
        Summaries, ConstantsAssumption
  <1>2. TypeOK /\ [Next]_vars => TypeOK'
    <2> SUFFICES ASSUME TypeOK, [Next]_vars PROVE TypeOK'
      BY Zenon
    <2>1. CASE Tick
      BY <2>1 DEF Tick, TypeOK
    <2>2. CASE OwnerStep
      BY <2>2, OwnerTyping, ConstantsAssumption, Zenon
    <2>3. ASSUME NEW c \in Connectors, ConnectorStep(c) PROVE TypeOK'
      BY <2>3, ConnectorTyping, ConstantsAssumption, Zenon
    <2>4. CASE UNCHANGED vars
      BY <2>4, Zenon DEF vars, TypeOK
    <2> QED
      BY <2>1, <2>2, <2>3, <2>4, Zenon DEF Next
  <1> QED
    BY <1>1, <1>2, PTL DEF Spec

-----------------------------------------------------------------------------
(* What a step does to the jobs table *)

\* createIdempotent
Created(old, new) ==
  /\ old.status = "absent"
  /\ new.status = "queued" /\ new.revision = 0 /\ new.attempt = 0

\* The handlers that change a live job.
Moved(old, new) ==
  /\ old.status \notin TerminalStates \cup {"absent"}
  /\ new.revision = old.revision + 1
  /\ new.status = old.status \/ canTransition(old.status, new.status)
  /\ new.attempt = IF old.status = "dispatched" /\ new.status = "running"
                     THEN old.attempt + 1 ELSE old.attempt

\* acknowledgeResult
Acknowledged(old, new) ==
  /\ old.status \in TerminalStates /\ ~old.acknowledged
  /\ new = [old EXCEPT !.acknowledged = TRUE, !.unread = FALSE]

JobStep ==
  \/ jobs' = jobs
  \/ \E j \in Jobs : \E row \in JobRows :
       /\ jobs' = [jobs EXCEPT ![j] = row]
       /\ \/ Created(jobs[j], row)
          \/ Moved(jobs[j], row)
          \/ Acknowledged(jobs[j], row)

\* A handler that moves job j to a row whose status and attempt fit.
LEMMA MoveShape ==
  ASSUME TypeOK, TypeOK', NEW j \in Jobs, NEW row, SetJob(j, row),
         Moved(jobs[j], row)
  PROVE  JobStep
  <1>1. jobs' = [jobs EXCEPT ![j] = row]
    BY Zenon DEF SetJob
  <1>2. row = jobs'[j]
    BY <1>1, Zenon DEF TypeOK
  <1>3. row \in JobRows
    BY <1>2, Zenon DEF TypeOK
  <1> QED
    BY <1>1, <1>3, Zenon DEF JobStep

\* The fields of a moved row.
LEMMA MoveFields ==
  ASSUME TypeOK, NEW j \in Jobs, NEW status
  PROVE  /\ Move(j, status).status = status
         /\ Move(j, status).revision = jobs[j].revision + 1
         /\ Move(j, status).attempt = jobs[j].attempt
         /\ MoveTerminal(j, status).status = status
         /\ MoveTerminal(j, status).revision = jobs[j].revision + 1
         /\ MoveTerminal(j, status).attempt = jobs[j].attempt
  <1>1. jobs[j] \in JobRows
    BY Zenon DEF TypeOK
  <1> QED
    BY <1>1, Zenon DEF Move, MoveTerminal, JobRows

\* The same after a handler has set further columns.
LEMMA MoveMore ==
  ASSUME TypeOK, NEW j \in Jobs, NEW status, NEW x, NEW y, NEW z
  PROVE  /\ LET row == [Move(j, status) EXCEPT !.cancelRevision = x]
            IN /\ row.status = status /\ row.revision = jobs[j].revision + 1
               /\ row.attempt = jobs[j].attempt
         /\ LET row == [Move(j, status) EXCEPT !.connector = x, !.lease = y,
                                               !.leaseExpires = z]
            IN /\ row.status = status /\ row.revision = jobs[j].revision + 1
               /\ row.attempt = jobs[j].attempt
         /\ LET row == [Move(j, status) EXCEPT !.attempt = x]
            IN /\ row.status = status /\ row.revision = jobs[j].revision + 1
               /\ row.attempt = x
         /\ LET row == [MoveTerminal(j, status) EXCEPT !.summary = x]
            IN /\ row.status = status /\ row.revision = jobs[j].revision + 1
               /\ row.attempt = jobs[j].attempt
  <1>1. jobs[j] \in JobRows
    BY Zenon DEF TypeOK
  <1> QED
    BY <1>1, Zenon DEF Move, MoveTerminal, JobRows

\* No owner operation does anything to a job but these.
LEMMA OwnerShape ==
  ASSUME TypeOK, TypeOK', OwnerStep
  PROVE  JobStep
  <1>1. ASSUME NEW j \in Jobs, Submit(j) PROVE JobStep
    <2> DEFINE row == [NoJob EXCEPT !.status = "queued",
                                    !.expires = clock + JobTtl]
    <2>1. row.status = "queued" /\ row.revision = 0 /\ row.attempt = 0
      BY Zenon DEF NoJob
    <2>2. jobs' = [jobs EXCEPT ![j] = row] /\ jobs[j].status = "absent"
      BY <1>1, Zenon DEF Submit, SetJob, Exists
    <2>3. row \in JobRows
      <3>1. jobs'[j] = row
        BY <2>2, Zenon DEF TypeOK
      <3> QED
        BY <3>1 DEF TypeOK
    <2>4. Created(jobs[j], row)
      BY <2>1, <2>2, Zenon DEF Created
    <2> HIDE DEF row
    <2> QED
      BY <2>2, <2>3, <2>4, Zenon DEF JobStep
  <1>2. ASSUME NEW j \in Jobs, NEW revision \in Revisions,
               CancelAtomically(j, revision)
        PROVE  JobStep
    <2>0. /\ jobs[j].status \in JobStatus \cup {"absent"}
          /\ jobs[j].status \notin TerminalStates \cup {"absent", "cancelling"}
      BY <1>2, Zenon DEF CancelAtomically, Cancellable, Exists, Terminal, TypeOK, JobRows
    <2>1. CASE /\ jobs[j].status \in {"queued", "dispatched"}
               /\ SetJob(j, MoveTerminal(j, "cancelled"))
      <3>1. Moved(jobs[j], MoveTerminal(j, "cancelled"))
        BY <2>0, <2>1, MoveFields, SMTT(30) DEF Moved, canTransition
      <3> QED
        BY <2>1, <3>1, MoveShape, Zenon
    <2>2. CASE /\ jobs[j].status \notin {"queued", "dispatched"}
               /\ SetJob(j, [Move(j, "cancelling") EXCEPT
                               !.cancelRevision = revision + 1])
      <3>1. jobs[j].status \in {"running", "waiting_approval"}
        BY <2>0, <2>2, Zenon DEF JobStatus, TerminalStates
      <3>2. Moved(jobs[j], [Move(j, "cancelling") EXCEPT
                              !.cancelRevision = revision + 1])
        BY <2>0, <3>1, MoveMore, SMTT(30) DEF Moved, canTransition
      <3> QED
        BY <2>2, <3>2, MoveShape, Zenon
    <2> QED
      BY <1>2, <2>1, <2>2, Zenon DEF CancelAtomically
  <1>3. ASSUME NEW j \in Jobs, AcknowledgeResult(j) PROVE JobStep
    <2> DEFINE row == [jobs[j] EXCEPT !.acknowledged = TRUE, !.unread = FALSE]
    <2>1. jobs' = [jobs EXCEPT ![j] = row]
      BY <1>3, Zenon DEF AcknowledgeResult, SetJob
    <2>2. row \in JobRows
      <3>1. jobs'[j] = row
        BY <2>1, Zenon DEF TypeOK
      <3> QED
        BY <3>1 DEF TypeOK
    <2>3. Acknowledged(jobs[j], row)
      BY <1>3, Zenon DEF AcknowledgeResult, Terminal, Acknowledged
    <2> HIDE DEF row
    <2> QED
      BY <2>1, <2>2, <2>3, Zenon DEF JobStep
  <1>4. ASSUME NEW a \in ApprovalIds, NEW decision, NEW revision,
               RecordApprovalDecision(a, decision, revision)
        PROVE  JobStep
    BY <1>4, Zenon DEF RecordApprovalDecision, JobStep
  <1> QED
    BY <1>1, <1>2, <1>3, <1>4, Zenon DEF OwnerStep

\* Nor does a Connector's message, dispatch or replay.
LEMMA ConnectorShape ==
  ASSUME TypeOK, TypeOK', ConstantsAssumption,
         NEW c \in Connectors, ConnectorStep(c)
  PROVE  JobStep
  <1>1. ASSUME NEW j \in Jobs, DispatchNext(c, j) PROVE JobStep
    <2> DEFINE lease == jobs[j].lease + 1
               leaseExpires == Lesser(clock + LeaseTtl, jobs[j].expires)
    <2>1. jobs[j].status \in {"queued", "dispatched"}
      BY <1>1, Zenon DEF DispatchNext, Offerable
    <2>2. Moved(jobs[j], [Move(j, "dispatched") EXCEPT
             !.connector = c, !.lease = lease, !.leaseExpires = leaseExpires])
      BY <2>1, MoveMore, SMTT(30) DEF Moved, canTransition, TerminalStates
    <2> QED
      BY <1>1, <2>2, MoveShape, Zenon DEF DispatchNext
  <1>2. ASSUME NEW j \in Jobs, NEW attempt \in Attempts, NEW lease,
               ClaimOfferedJob(c, j, attempt, lease)
        PROVE  JobStep
    <2>1. CASE UNCHANGED jobs
      BY <2>1, Zenon DEF JobStep
    <2>2. CASE /\ ClaimVerdict(c, j, attempt, lease) = "accept"
               /\ SetJob(j, [Move(j, "running") EXCEPT !.attempt = attempt])
      <3>1. jobs[j].status = "dispatched" /\ attempt = jobs[j].attempt + 1
        BY <2>2, Zenon DEF ClaimVerdict
      <3>2. Moved(jobs[j], [Move(j, "running") EXCEPT !.attempt = attempt])
        BY <3>1, MoveMore, SMTT(30) DEF Moved, canTransition, TerminalStates
      <3> QED
        BY <2>2, <3>2, MoveShape, Zenon
    <2> QED
      BY <1>2, <2>1, <2>2, Zenon DEF ClaimOfferedJob
  <1>3. ASSUME NEW j \in Jobs, NEW attempt \in Attempts, NEW kind \in EventKinds,
               NEW summary \in Summaries,
               IngestJobEvent(c, j, attempt, kind, summary)
        PROVE  JobStep
    <2> DEFINE next == StatusForEvent(jobs[j].status, kind)
               row == IF TerminalEvent(kind)
                        THEN [MoveTerminal(j, next) EXCEPT !.summary = summary]
                        ELSE Move(j, next)
    <2>1. /\ Claimed(j)
          /\ next = jobs[j].status \/ canTransition(jobs[j].status, next)
      BY <1>3, Zenon DEF IngestJobEvent, EventVerdict, AfterTerminal
    <2>2. /\ row.status = next /\ row.revision = jobs[j].revision + 1
          /\ row.attempt = jobs[j].attempt
      BY MoveFields, MoveMore
    <2>3. SetJob(j, row)
      BY <1>3, Zenon DEF IngestJobEvent
    <2>4. Moved(jobs[j], row)
      <3> HIDE DEF next, row
      <3> QED
        BY <2>1, <2>2, Zenon DEF Moved, Claimed, ClaimedStates, TerminalStates
    <2> QED
      BY <2>3, <2>4, MoveShape, Zenon
  <1>4. ASSUME NEW j \in Jobs, NEW attempt, NEW revision, NEW a, NEW expires,
               IngestApprovalRequested(c, j, attempt, revision, a, expires)
        PROVE  JobStep
    <2>1. jobs[j].status \in {"running", "waiting_approval"}
      BY <1>4, Zenon DEF IngestApprovalRequested, ApprovalVerdict
    <2>2. Moved(jobs[j], Move(j, "waiting_approval"))
      BY <2>1, MoveFields, SMTT(30) DEF Moved, canTransition, TerminalStates
    <2> QED
      BY <1>4, <2>2, MoveShape, Zenon DEF IngestApprovalRequested
  <1>5. ASSUME NEW j \in Jobs, NEW attempt, IngestJobCancelled(c, j, attempt)
        PROVE  JobStep
    <2>1. jobs[j].status = "cancelling"
      BY <1>5, Zenon DEF IngestJobCancelled, CancelledVerdict
    <2>2. Moved(jobs[j], MoveTerminal(j, "cancelled"))
      BY <2>1, MoveFields, SMTT(30) DEF Moved, canTransition, TerminalStates
    <2> QED
      BY <1>5, <2>2, MoveShape, Zenon DEF IngestJobCancelled
  <1>6. ASSUME NEW n \in DOMAIN outbox[c], ClientAck(c, n) PROVE JobStep
    <2> DEFINE j == outbox[c][n].job
    <2>1. outbox[c][n] \in OutboxRows
      BY DEF TypeOK
    <2>2. j \in Jobs
      BY <2>1, Zenon DEF OutboxRows
    <2>3. jobs[j].status = "waiting_approval"
      BY <1>6, Zenon DEF ClientAck, Resumes
    <2>4. Moved(jobs[j], Move(j, "running"))
      BY <2>2, <2>3, MoveFields, ZenonT(30) DEF Moved, canTransition, TerminalStates
    <2> QED
      BY <1>6, <2>2, <2>4, MoveShape, Zenon DEF ClientAck
  <1>7. ASSUME NEW n \in DOMAIN outbox[c], TombstoneReplayBatch(c, n - 1)
        PROVE  JobStep
    BY <1>7, Zenon DEF TombstoneReplayBatch, JobStep
  <1> QED
    BY <1>1, <1>2, <1>3, <1>4, <1>5, <1>6, <1>7, Zenon DEF ConnectorStep

\* Every step creates a job, moves one along the transition table with its
\* revision, or acknowledges a result.
LEMMA StepShape ==
  ASSUME TypeOK, TypeOK', [Next]_vars
  PROVE  JobStep
  <1>1. CASE Tick \/ UNCHANGED vars
    BY <1>1, Zenon DEF Tick, vars, JobStep
  <1> QED
    BY <1>1, OwnerShape, ConnectorShape, ConstantsAssumption, Zenon DEF Next

-----------------------------------------------------------------------------
(* Single execution *)

\* However offers are repeated, reassigned and claimed late, no job is ever
\* executed a second time: claimOfferedJob alone raises the attempt, and only
\* of a job that is dispatched, which a job with an attempt never is again.
THEOREM SingleExecutionHolds == Spec => []SingleExecution
  <1>1. Init => SingleExecution
    BY SMTT(30) DEF Init, SingleExecution, NoJob, ClaimedStates
  <1>2. TypeOK /\ TypeOK' /\ SingleExecution /\ [Next]_vars => SingleExecution'
    <2> SUFFICES ASSUME TypeOK, TypeOK', SingleExecution, [Next]_vars,
                        NEW k \in Jobs
                 PROVE  /\ jobs'[k].attempt <= 1
                        /\ jobs'[k].status \in {"absent", "queued", "dispatched"}
                             => jobs'[k].attempt = 0
                        /\ jobs'[k].status \in ClaimedStates \cup {"succeeded", "failed"}
                             => jobs'[k].attempt = 1
      BY Zenon DEF SingleExecution
    <2>1. CASE jobs'[k] = jobs[k]
      BY <2>1, Zenon DEF SingleExecution
    <2>2. CASE jobs'[k] # jobs[k]
      <3>1. PICK j \in Jobs, row \in JobRows :
              /\ jobs' = [jobs EXCEPT ![j] = row]
              /\ \/ Created(jobs[j], row)
                 \/ Moved(jobs[j], row)
                 \/ Acknowledged(jobs[j], row)
        BY <2>2, StepShape, Zenon DEF JobStep
      <3>2. j = k /\ jobs'[k] = row
        BY <2>2, <3>1, Zenon DEF TypeOK
      <3>3. jobs[k] \in JobRows
        BY Zenon DEF TypeOK
      <3>4. CASE Created(jobs[k], row)
        BY <3>2, <3>4, SMTT(30) DEF Created, ClaimedStates
      <3>5. CASE Moved(jobs[k], row)
        BY <3>2, <3>3, <3>5, SMTT(30)
        DEF Moved, canTransition, SingleExecution, ClaimedStates,
            TerminalStates, JobRows, JobStatus
      <3>6. CASE Acknowledged(jobs[k], row)
        <4>1. row.status = jobs[k].status /\ row.attempt = jobs[k].attempt
          BY <3>3, <3>6, Zenon DEF Acknowledged, JobRows
        <4> QED
          BY <3>2, <4>1, Zenon DEF SingleExecution
      <3> QED
        BY <3>1, <3>2, <3>4, <3>5, <3>6, Zenon
    <2> QED
      BY <2>1, <2>2, Zenon
  <1> QED
    BY <1>1, <1>2, Typing, PTL DEF Spec

-----------------------------------------------------------------------------
(* Final outcomes *)

\* A job that has ended is never re-opened and its outcome never rewritten, by
\* no late event, cancellation, claim or acknowledgement; the owner's one
\* acknowledgement is all that is still recorded (acknowledgeResult).
THEOREM OutcomesAreFinal == Spec => TerminalIsFinal
  <1> DEFINE Final(j) ==
        Terminal(j) =>
          /\ [jobs[j] EXCEPT !.unread = FALSE, !.acknowledged = TRUE]
               = [jobs'[j] EXCEPT !.unread = FALSE, !.acknowledged = TRUE]
          /\ jobs[j].acknowledged => jobs'[j] = jobs[j]
  <1>1. TypeOK /\ TypeOK' /\ [Next]_vars => [\A j \in Jobs : Final(j)]_vars
    <2> SUFFICES ASSUME TypeOK, TypeOK', [Next]_vars, NEW k \in Jobs,
                        Terminal(k), jobs'[k] # jobs[k]
                 PROVE  Final(k)
      BY Zenon
    <2>1. PICK j \in Jobs, row \in JobRows :
            /\ jobs' = [jobs EXCEPT ![j] = row]
            /\ \/ Created(jobs[j], row)
               \/ Moved(jobs[j], row)
               \/ Acknowledged(jobs[j], row)
      BY StepShape, Zenon DEF JobStep
    <2>2. j = k /\ jobs'[k] = row
      BY <2>1, Zenon DEF TypeOK
    <2>3. Acknowledged(jobs[k], row)
      BY <2>1, <2>2, Zenon DEF Created, Moved, Terminal, TerminalStates
    <2>4. jobs[k] \in JobRows
      BY Zenon DEF TypeOK
    <2> QED
      BY <2>2, <2>3, <2>4, Zenon DEF Acknowledged, JobRows
  <1> QED
    BY <1>1, Typing, PTL DEF Spec, TerminalIsFinal

-----------------------------------------------------------------------------
(* Revisions *)

\* A job id without a job has no revision yet.
AbsentIsBlank == \A j \in Jobs : ~Exists(j) => jobs[j].revision = 0

LEMMA AbsentBlank == Spec => []AbsentIsBlank
  <1>1. Init => AbsentIsBlank
    BY DEF Init, AbsentIsBlank, NoJob
  <1>2. TypeOK /\ TypeOK' /\ AbsentIsBlank /\ [Next]_vars => AbsentIsBlank'
    <2> SUFFICES ASSUME TypeOK, TypeOK', AbsentIsBlank, [Next]_vars,
                        NEW k \in Jobs, jobs'[k].status = "absent"
                 PROVE  jobs'[k].revision = 0
      BY Zenon DEF AbsentIsBlank, Exists
    <2>1. CASE jobs'[k] = jobs[k]
      BY <2>1, Zenon DEF AbsentIsBlank, Exists
    <2>2. CASE jobs'[k] # jobs[k]
      <3>1. PICK j \in Jobs, row \in JobRows :
              /\ jobs' = [jobs EXCEPT ![j] = row]
              /\ \/ Created(jobs[j], row)
                 \/ Moved(jobs[j], row)
                 \/ Acknowledged(jobs[j], row)
        BY <2>2, StepShape, Zenon DEF JobStep
      <3>2. j = k /\ jobs'[k] = row /\ jobs[k] \in JobRows
        BY <2>2, <3>1, Zenon DEF TypeOK
      <3>3. ~Created(jobs[k], row) /\ ~Moved(jobs[k], row)
        BY <3>2, Zenon DEF Created, Moved, canTransition
      <3>4. ~Acknowledged(jobs[k], row)
        BY <3>2, Zenon DEF Acknowledged, JobRows, TerminalStates
      <3> QED
        BY <3>1, <3>2, <3>3, <3>4, Zenon
    <2> QED
      BY <2>1, <2>2, Zenon
  <1> QED
    BY <1>1, <1>2, Typing, PTL DEF Spec

\* The revision identifies the state a decision or a cancellation is made
\* about: whatever handler changes the status, the attempt, the lease or the
\* Connector of a job moves its revision by exactly one.
THEOREM RevisionsNameStates == Spec => RevisionNamesState
  <1> DEFINE Named(j) ==
        \/ jobs'[j].revision = jobs[j].revision + 1
        \/ /\ jobs'[j].revision = jobs[j].revision
           /\ Exists(j) =>
                /\ jobs'[j].status = jobs[j].status
                /\ jobs'[j].attempt = jobs[j].attempt
                /\ jobs'[j].lease = jobs[j].lease
                /\ jobs'[j].connector = jobs[j].connector
  <1>1. TypeOK /\ TypeOK' /\ AbsentIsBlank /\ [Next]_vars
          => [\A j \in Jobs : Named(j)]_vars
    <2> SUFFICES ASSUME TypeOK, TypeOK', AbsentIsBlank, [Next]_vars,
                        NEW k \in Jobs, jobs'[k] # jobs[k]
                 PROVE  Named(k)
      BY Zenon
    <2>1. PICK j \in Jobs, row \in JobRows :
            /\ jobs' = [jobs EXCEPT ![j] = row]
            /\ \/ Created(jobs[j], row)
               \/ Moved(jobs[j], row)
               \/ Acknowledged(jobs[j], row)
      BY StepShape, Zenon DEF JobStep
    <2>2. j = k /\ jobs'[k] = row /\ jobs[k] \in JobRows
      BY <2>1, Zenon DEF TypeOK
    <2>3. CASE Created(jobs[k], row)
      BY <2>2, <2>3, Zenon DEF Created, AbsentIsBlank, Exists
    <2>4. CASE Moved(jobs[k], row)
      BY <2>2, <2>4, Zenon DEF Moved
    <2>5. CASE Acknowledged(jobs[k], row)
      BY <2>2, <2>5 DEF Acknowledged, JobRows
    <2> QED
      BY <2>1, <2>2, <2>3, <2>4, <2>5, Zenon
  <1> QED
    BY <1>1, Typing, AbsentBlank, PTL DEF Spec, RevisionNamesState

-----------------------------------------------------------------------------
(* The lifecycle *)

\* Every handler obeys the transition table of job-state.ts, those that write
\* a status without assertTransition included: the job store implements
\* JobLifecycle under the mapping that forgets all but the status.
THEOREM ImplementsLifecycle == Spec => FollowsLifecycle
  <1> DEFINE status == [j \in Jobs |-> jobs[j].status]
  <1>1. Init => Lifecycle!Init
    BY SMTT(30) DEF Init, Lifecycle!Init, NoJob
  <1>2. TypeOK /\ TypeOK' /\ [Next]_vars => [Lifecycle!Next]_status
    <2> SUFFICES ASSUME TypeOK, TypeOK', [Next]_vars, jobs' # jobs
                 PROVE  [Lifecycle!Next]_status
      BY Zenon
    <2>1. PICK j \in Jobs, row \in JobRows :
            /\ jobs' = [jobs EXCEPT ![j] = row]
            /\ \/ Created(jobs[j], row)
               \/ Moved(jobs[j], row)
               \/ Acknowledged(jobs[j], row)
      BY StepShape, Zenon DEF JobStep
    <2>2. status' = [status EXCEPT ![j] = row.status]
      BY <2>1, Zenon DEF TypeOK
    <2>3. CASE row.status = jobs[j].status
      BY <2>2, <2>3, Zenon
    <2>4. CASE Created(jobs[j], row)
      <3>1. Lifecycle!Create(j)
        BY <2>2, <2>4, Zenon DEF Created, Lifecycle!Create
      <3> QED
        BY <3>1, Zenon DEF Lifecycle!Next
    <2>5. CASE canTransition(jobs[j].status, row.status)
      <3>1. Lifecycle!Transition(j, row.status)
        BY <2>2, <2>5, Zenon DEF Lifecycle!Transition, Lifecycle!canTransition, canTransition
      <3>2. row.status \in Lifecycle!JobStatus
        BY <2>5, Zenon DEF canTransition, Lifecycle!JobStatus
      <3> QED
        BY <3>1, <3>2, Zenon DEF Lifecycle!Next
    <2>6. CASE Acknowledged(jobs[j], row)
      <3>1. jobs[j] \in JobRows
        BY Zenon DEF TypeOK
      <3>2. row.status = jobs[j].status
        BY <2>6, <3>1, Zenon DEF Acknowledged, JobRows
      <3> QED
        BY <2>3, <3>2, Zenon
    <2> QED
      BY <2>1, <2>3, <2>4, <2>5, <2>6, Zenon DEF Moved
  <1> QED
    BY <1>1, <1>2, Typing, PTL DEF Spec, FollowsLifecycle, Lifecycle!Spec

-----------------------------------------------------------------------------
(* Approvals *)

\* The strengthening for OnePendingApproval: no approval is bound to a
\* revision its job has not reached, and no two approvals of a job are bound
\* to the same revision.
ApprovalsBound ==
  /\ \A a \in ApprovalIds : approvals[a].job # None =>
       approvals[a].revision <= jobs[approvals[a].job].revision
  /\ \A a, b \in ApprovalIds :
       /\ approvals[a].job # None
       /\ approvals[a].job = approvals[b].job
       /\ approvals[a].revision = approvals[b].revision
       => a = b

\* A job's revision never decreases.
LEMMA RevisionGrows ==
  ASSUME TypeOK, TypeOK', AbsentIsBlank, [Next]_vars, NEW k \in Jobs
  PROVE  jobs[k].revision <= jobs'[k].revision
  <1>0. jobs[k] \in JobRows /\ jobs[k].revision \in Nat
    BY ConstantsAssumption, SMTT(30) DEF TypeOK, JobRows, ConstantsAssumption
  <1>1. CASE jobs'[k] = jobs[k]
    BY <1>0, <1>1, SMTT(30)
  <1>2. CASE jobs'[k] # jobs[k]
    <2>1. PICK j \in Jobs, row \in JobRows :
            /\ jobs' = [jobs EXCEPT ![j] = row]
            /\ \/ Created(jobs[j], row)
               \/ Moved(jobs[j], row)
               \/ Acknowledged(jobs[j], row)
      BY <1>2, StepShape, Zenon DEF JobStep
    <2>2. j = k /\ jobs'[k] = row
      BY <1>2, <2>1, Zenon DEF TypeOK
    <2>3. CASE Created(jobs[k], row)
      BY <1>0, <2>2, <2>3, SMTT(30) DEF Created, AbsentIsBlank, Exists
    <2>4. CASE Moved(jobs[k], row)
      BY <1>0, <2>2, <2>4, SMTT(30) DEF Moved
    <2>5. CASE Acknowledged(jobs[k], row)
      BY <1>0, <2>2, <2>5, SMTT(30) DEF Acknowledged, JobRows
    <2> QED
      BY <2>1, <2>2, <2>3, <2>4, <2>5, Zenon
  <1> QED
    BY <1>1, <1>2, Zenon

\* Approvals change only by a new request, at the revision its job takes in
\* the same step, or by a decision, which leaves the binding alone.
LEMMA ApprovalShape ==
  ASSUME TypeOK, TypeOK', [Next]_vars
  PROVE  \/ \A a \in ApprovalIds : /\ approvals'[a].job = approvals[a].job
                                   /\ approvals'[a].revision = approvals[a].revision
         \/ \E r \in ApprovalIds, j \in Jobs :
              /\ approvals'[r].job = j
              /\ approvals'[r].revision = jobs[j].revision + 1
              /\ jobs'[j].revision = jobs[j].revision + 1
              /\ \A a \in ApprovalIds \ {r} : approvals'[a] = approvals[a]
  <1>1. ASSUME NEW c \in Connectors, NEW j \in Jobs, NEW attempt, NEW revision,
               NEW r \in ApprovalIds, NEW expires,
               IngestApprovalRequested(c, j, attempt, revision, r, expires)
        PROVE  /\ approvals'[r].job = j
               /\ approvals'[r].revision = jobs[j].revision + 1
               /\ jobs'[j].revision = jobs[j].revision + 1
               /\ \A a \in ApprovalIds \ {r} : approvals'[a] = approvals[a]
    <2>1. revision = jobs[j].revision + 1
      BY <1>1, Zenon DEF IngestApprovalRequested, ApprovalVerdict
    <2>2. approvals' = [approvals EXCEPT ![r] =
             [job |-> j, attempt |-> attempt, revision |-> revision,
              expires |-> expires, decision |-> "none"]]
      BY <1>1, Zenon DEF IngestApprovalRequested
    <2>3. jobs'[j] = Move(j, "waiting_approval")
      BY <1>1, Zenon DEF IngestApprovalRequested, SetJob, TypeOK
    <2> QED
      BY <2>1, <2>2, <2>3, MoveFields, SMTT(30) DEF TypeOK
  <1>2. ASSUME NEW r \in ApprovalIds, NEW decision, NEW revision,
               RecordApprovalDecision(r, decision, revision)
        PROVE  \A a \in ApprovalIds :
                 /\ approvals'[a].job = approvals[a].job
                 /\ approvals'[a].revision = approvals[a].revision
    <2>1. PICK effective : approvals' = [approvals EXCEPT ![r].decision = effective]
      BY <1>2, Zenon DEF RecordApprovalDecision
    <2>2. \A a \in ApprovalIds : approvals[a] \in ApprovalRows
      BY Zenon DEF TypeOK
    <2> QED
      BY <2>1, <2>2, ZenonT(30) DEF TypeOK, ApprovalRows
  <1>3. CASE UNCHANGED approvals
    BY <1>3, Zenon
  <1>4. CASE Tick \/ UNCHANGED vars
    BY <1>3, <1>4, Zenon DEF Tick, vars
  <1>5. CASE OwnerStep
    BY <1>2, <1>3, <1>5, ZenonT(30)
    DEF OwnerStep, Submit, CancelAtomically, AcknowledgeResult
  <1>6. ASSUME NEW c \in Connectors, ConnectorStep(c)
        PROVE  \/ UNCHANGED approvals
               \/ \E j \in Jobs, attempt \in Attempts, revision \in Revisions,
                     r \in ApprovalIds, expires \in 1..MaxClock :
                    IngestApprovalRequested(c, j, attempt, revision, r, expires)
    BY <1>6, ZenonT(30) DEF ConnectorStep, DispatchNext, ClaimOfferedJob, IngestJobEvent,
                IngestJobCancelled, ClientAck, TombstoneReplayBatch
  <1> QED
    BY <1>1, <1>3, <1>4, <1>5, <1>6, SMTT(30) DEF Next

\* The owner is never asked two questions about one job at once: of all the
\* approvals ever requested for it, at most one has the binding that
\* recordApprovalDecision and listPendingApprovals require.
THEOREM OnePendingApprovalHolds == Spec => []OnePendingApproval
  <1>1. Init => ApprovalsBound
    BY DEF Init, ApprovalsBound, NoApproval
  <1>2. TypeOK /\ TypeOK' /\ AbsentIsBlank /\ ApprovalsBound /\ [Next]_vars
          => ApprovalsBound'
    <2> SUFFICES ASSUME TypeOK, TypeOK', AbsentIsBlank, ApprovalsBound, [Next]_vars
                 PROVE  ApprovalsBound'
      BY Zenon
    <2>1. \A j \in Jobs : /\ jobs[j].revision \in Nat /\ jobs'[j].revision \in Nat
                          /\ jobs[j].revision <= jobs'[j].revision
      <3>1. ASSUME NEW j \in Jobs
            PROVE  jobs[j].revision \in Nat /\ jobs'[j].revision \in Nat
        BY ConstantsAssumption, SMTT(30) DEF TypeOK, JobRows, ConstantsAssumption
      <3> QED
        BY <3>1, RevisionGrows, Zenon
    <2>2. \A a \in ApprovalIds :
            /\ approvals[a].revision \in Nat
            /\ approvals[a].job # None => approvals[a].job \in Jobs
      BY Zenon DEF TypeOK, ApprovalRows
    <2>3. CASE \A a \in ApprovalIds :
                 /\ approvals'[a].job = approvals[a].job
                 /\ approvals'[a].revision = approvals[a].revision
      BY <2>1, <2>2, <2>3 DEF ApprovalsBound
    <2>4. CASE \E r \in ApprovalIds, j \in Jobs :
                 /\ approvals'[r].job = j
                 /\ approvals'[r].revision = jobs[j].revision + 1
                 /\ jobs'[j].revision = jobs[j].revision + 1
                 /\ \A a \in ApprovalIds \ {r} : approvals'[a] = approvals[a]
      <3>1. PICK r \in ApprovalIds, j \in Jobs :
              /\ approvals'[r].job = j
              /\ approvals'[r].revision = jobs[j].revision + 1
              /\ jobs'[j].revision = jobs[j].revision + 1
              /\ \A a \in ApprovalIds \ {r} : approvals'[a] = approvals[a]
        BY <2>4, Zenon
      <3>2. ASSUME NEW a \in ApprovalIds, approvals'[a].job # None
            PROVE  approvals'[a].revision <= jobs'[approvals'[a].job].revision
        BY <2>1, <2>2, <3>1, <3>2, SMTT(30) DEF ApprovalsBound
      <3>3. ASSUME NEW a \in ApprovalIds, a # r, approvals'[a].job = j
            PROVE  approvals'[a].revision # approvals'[r].revision
        BY <2>1, <2>2, <3>1, <3>3, ConstantsAssumption, SMTT(30)
        DEF ApprovalsBound, ConstantsAssumption
      <3>4. ASSUME NEW a \in ApprovalIds, NEW b \in ApprovalIds,
                   approvals'[a].job # None, approvals'[a].job = approvals'[b].job,
                   approvals'[a].revision = approvals'[b].revision
            PROVE  a = b
        BY <3>1, <3>3, <3>4, SMTT(30) DEF ApprovalsBound
      <3> QED
        BY <3>2, <3>4, Zenon DEF ApprovalsBound
    <2> QED
      BY <2>3, <2>4, ApprovalShape, Zenon
  <1>3. ApprovalsBound => OnePendingApproval
    BY DEF ApprovalsBound, OnePendingApproval, ApprovalCurrent
  <1> QED
    BY <1>1, <1>2, <1>3, Typing, AbsentBlank, PTL DEF Spec

-----------------------------------------------------------------------------
(* Offers and slots *)

\* A row holds a slot of its repository's policy at time t.
Occupies(row, t) ==
  /\ row.expires > t
  /\ \/ row.status \in ClaimedStates
     \/ row.status = "dispatched" /\ row.leaseExpires > t

SameOffer(old, new) ==
  /\ new.connector = old.connector /\ new.lease = old.lease
  /\ new.leaseExpires = old.leaseExpires /\ new.expires = old.expires

\* What every handler but createIdempotent and dispatchNext does to a job: its
\* offer stays, it is not offered, and it is only kept at work if it held a
\* slot before.
Worked(old, new) ==
  /\ SameOffer(old, new)
  /\ new.status \in {"absent", "queued", "dispatched"} => new.status = old.status
  /\ new.status \in ClaimedStates => new.status = old.status \/ Occupies(old, clock)

\* The strengthening for PublishedIsConsumed: the leases of a job count its
\* offers; the offer of the current lease is the job's, every earlier one has
\* run out.
OffersRecorded ==
  /\ \A j \in Jobs : jobs[j].status \in {"absent", "queued"} => jobs[j].lease = 0
  /\ \A d \in dispatches :
       /\ d.lease \in 1..jobs[d.job].lease
       /\ IF d.lease = jobs[d.job].lease
            THEN /\ jobs[d.job].connector = d.connector
                 /\ jobs[d.job].leaseExpires = d.expires
            ELSE d.expires <= clock
  /\ \A d, e \in dispatches : d.job = e.job /\ d.lease = e.lease => d = e

\* The strengthening for SlotsRespected: finitely many jobs hold a slot, so
\* that the count of dispatchNext counts them.
SlotsCounted ==
  \A r \in Repositories : /\ IsFiniteSet(Active(r))
                          /\ Cardinality(Active(r)) <= MaxConcurrency[r]

\* A move to a claimed state of a job that holds a slot, or to an outcome,
\* whatever further columns the handler sets.
LEMMA MoveWorked ==
  ASSUME TypeOK, NEW j \in Jobs, NEW status, NEW x,
         status \notin {"absent", "queued", "dispatched"},
         status \in ClaimedStates => Occupies(jobs[j], clock)
  PROVE  /\ Worked(jobs[j], Move(j, status))
         /\ Worked(jobs[j], MoveTerminal(j, status))
         /\ Worked(jobs[j], [Move(j, status) EXCEPT !.cancelRevision = x])
         /\ Worked(jobs[j], [Move(j, status) EXCEPT !.attempt = x])
         /\ Worked(jobs[j], [MoveTerminal(j, status) EXCEPT !.summary = x])
  <1>1. jobs[j] \in JobRows
    BY Zenon DEF TypeOK
  <1> DEFINE old == jobs[j]
             t == clock
             Fits(new) == SameOffer(old, new) /\ new.status = status
  <1>2. /\ Fits(Move(j, status)) /\ Fits(MoveTerminal(j, status))
        /\ Fits([Move(j, status) EXCEPT !.cancelRevision = x])
        /\ Fits([Move(j, status) EXCEPT !.attempt = x])
        /\ Fits([MoveTerminal(j, status) EXCEPT !.summary = x])
    BY <1>1, Zenon DEF Move, MoveTerminal, JobRows, SameOffer
  <1>3. \A new : Fits(new) => Worked(old, new)
    BY Zenon DEF Worked
  <1> HIDE DEF Fits, old
  <1>4. /\ Worked(old, Move(j, status)) /\ Worked(old, MoveTerminal(j, status))
        /\ Worked(old, [Move(j, status) EXCEPT !.cancelRevision = x])
        /\ Worked(old, [Move(j, status) EXCEPT !.attempt = x])
        /\ Worked(old, [MoveTerminal(j, status) EXCEPT !.summary = x])
    BY <1>2, <1>3, Zenon
  <1> QED
    BY <1>4, Zenon DEF old

\* A handler that works on job j leaves the others alone.
LEMMA WorkedAll ==
  ASSUME TypeOK, NEW j \in Jobs, NEW row, SetJob(j, row), Worked(jobs[j], row)
  PROVE  \A k \in Jobs : Worked(jobs[k], jobs'[k])
  <1>1. \A k \in Jobs : jobs'[k] = IF k = j THEN row ELSE jobs[k]
    BY Zenon DEF SetJob, TypeOK
  <1>2. \A k \in Jobs : Worked(jobs[k], jobs[k])
    BY Zenon DEF Worked, SameOffer
  <1> QED
    BY <1>1, <1>2, Zenon

Offered(k) == \E c \in Connectors : DispatchNext(c, k)

\* What the owner's operations do to the offer of a job.
LEMMA OwnerWork ==
  ASSUME TypeOK, OwnerStep, NEW k \in Jobs
  PROVE  Submit(k) \/ Worked(jobs[k], jobs'[k])
  <1>1. ASSUME NEW j \in Jobs, Submit(j)
        PROVE  Submit(k) \/ Worked(jobs[k], jobs'[k])
    <2>1. CASE k = j
      BY <1>1, <2>1, Zenon
    <2>2. CASE k # j
      <3>1. jobs'[k] = jobs[k]
        BY <1>1, <2>2, Zenon DEF Submit, SetJob, TypeOK
      <3> QED
        BY <3>1, Zenon DEF Worked, SameOffer
    <2> QED
      BY <2>1, <2>2, Zenon
  <1>2. ASSUME NEW j \in Jobs, NEW revision, CancelAtomically(j, revision)
        PROVE  Worked(jobs[k], jobs'[k])
    <2>0. /\ jobs[j].status \in JobStatus \cup {"absent"}
          /\ jobs[j].status \notin TerminalStates \cup {"absent", "cancelling"}
      BY <1>2, Zenon DEF CancelAtomically, Cancellable, Exists, Terminal, TypeOK, JobRows
    <2>1. CASE SetJob(j, MoveTerminal(j, "cancelled"))
      <3>1. Worked(jobs[j], MoveTerminal(j, "cancelled"))
        BY MoveWorked, Zenon DEF ClaimedStates
      <3> QED
        BY <2>1, <3>1, WorkedAll, Zenon
    <2>2. CASE /\ jobs[j].status \notin {"queued", "dispatched"} /\ Unexpired(j)
               /\ SetJob(j, [Move(j, "cancelling") EXCEPT
                               !.cancelRevision = revision + 1])
      <3>1. Occupies(jobs[j], clock)
        BY <2>0, <2>2, Zenon DEF Occupies, Unexpired, ClaimedStates, JobStatus,
                          TerminalStates
      <3>2. Worked(jobs[j], [Move(j, "cancelling") EXCEPT
                               !.cancelRevision = revision + 1])
        BY <3>1, MoveWorked, Zenon
      <3> QED
        BY <2>2, <3>2, WorkedAll, Zenon
    <2> QED
      BY <1>2, <2>1, <2>2, Zenon DEF CancelAtomically
  <1>3. ASSUME NEW j \in Jobs, AcknowledgeResult(j)
        PROVE  Worked(jobs[k], jobs'[k])
    <2> DEFINE row == [jobs[j] EXCEPT !.acknowledged = TRUE, !.unread = FALSE]
    <2>1. jobs[j] \in JobRows
      BY Zenon DEF TypeOK
    <2>2. Worked(jobs[j], row)
      BY <2>1, Zenon DEF JobRows, Worked, SameOffer
    <2> QED
      BY <1>3, <2>2, WorkedAll, Zenon DEF AcknowledgeResult
  <1>4. ASSUME UNCHANGED jobs PROVE Worked(jobs[k], jobs'[k])
    BY <1>4, Zenon DEF Worked, SameOffer
  <1> QED
    BY <1>1, <1>2, <1>3, <1>4, Zenon DEF OwnerStep, RecordApprovalDecision

\* What dispatch, a Connector's messages and replay do to the offer of a job.
LEMMA ConnectorWork ==
  ASSUME TypeOK, NEW c \in Connectors, ConnectorStep(c), NEW k \in Jobs
  PROVE  Offered(k) \/ Worked(jobs[k], jobs'[k])
  <1>0. ASSUME UNCHANGED jobs PROVE Worked(jobs[k], jobs'[k])
    BY <1>0, Zenon DEF Worked, SameOffer
  <1>1. ASSUME NEW j \in Jobs, DispatchNext(c, j)
        PROVE  Offered(k) \/ Worked(jobs[k], jobs'[k])
    <2>1. CASE k = j
      BY <1>1, <2>1, Zenon DEF Offered
    <2>2. CASE k # j
      <3>1. jobs'[k] = jobs[k]
        BY <1>1, <2>2, Zenon DEF DispatchNext, SetJob, TypeOK
      <3> QED
        BY <3>1, Zenon DEF Worked, SameOffer
    <2> QED
      BY <2>1, <2>2, Zenon
  <1>2. ASSUME NEW j \in Jobs, NEW attempt, NEW lease,
               ClaimOfferedJob(c, j, attempt, lease)
        PROVE  Worked(jobs[k], jobs'[k])
    <2>1. CASE /\ ClaimVerdict(c, j, attempt, lease) = "accept"
               /\ SetJob(j, [Move(j, "running") EXCEPT !.attempt = attempt])
      <3>1. /\ jobs[j].status = "dispatched"
            /\ ~(jobs[j].leaseExpires <= clock) /\ Unexpired(j)
        BY <2>1, Zenon DEF ClaimVerdict
      <3>2. jobs[j] \in JobRows /\ jobs[j].leaseExpires \in Nat /\ clock \in Nat
        BY Zenon DEF TypeOK, JobRows
      <3>3. Occupies(jobs[j], clock)
        BY <3>1, <3>2 DEF Occupies, Unexpired
      <3>4. Worked(jobs[j], [Move(j, "running") EXCEPT !.attempt = attempt])
        BY <3>3, MoveWorked, Zenon
      <3> QED
        BY <2>1, <3>4, WorkedAll, Zenon
    <2> QED
      BY <1>0, <1>2, <2>1, Zenon DEF ClaimOfferedJob
  <1>3. ASSUME NEW j \in Jobs, NEW attempt, NEW kind \in EventKinds, NEW summary,
               IngestJobEvent(c, j, attempt, kind, summary)
        PROVE  Worked(jobs[k], jobs'[k])
    <2> DEFINE next == StatusForEvent(jobs[j].status, kind)
               row == IF TerminalEvent(kind)
                        THEN [MoveTerminal(j, next) EXCEPT !.summary = summary]
                        ELSE Move(j, next)
    <2>1. Claimed(j) /\ Unexpired(j)
      BY <1>3, Zenon DEF IngestJobEvent, EventVerdict, AfterTerminal
    <2>2. Occupies(jobs[j], clock)
      BY <2>1, Zenon DEF Occupies, Claimed, Unexpired
    <2>3. next \notin {"absent", "queued", "dispatched"}
      BY <2>1, Zenon DEF StatusForEvent, EventKinds, Claimed, ClaimedStates
    <2>4. SetJob(j, row)
      BY <1>3, Zenon DEF IngestJobEvent
    <2> HIDE DEF next
    <2>5. /\ Worked(jobs[j], Move(j, next))
          /\ Worked(jobs[j], [MoveTerminal(j, next) EXCEPT !.summary = summary])
      BY <2>2, <2>3, MoveWorked, Zenon
    <2>6. Worked(jobs[j], row)
      BY <2>5, Zenon
    <2> HIDE DEF row
    <2> QED
      BY <2>4, <2>6, WorkedAll, Zenon
  <1>4. ASSUME NEW j \in Jobs, NEW attempt, NEW revision, NEW a, NEW expires,
               IngestApprovalRequested(c, j, attempt, revision, a, expires)
        PROVE  Worked(jobs[k], jobs'[k])
    <2>1. jobs[j].status \in {"running", "waiting_approval"} /\ Unexpired(j)
      BY <1>4, Zenon DEF IngestApprovalRequested, ApprovalVerdict
    <2>2. Occupies(jobs[j], clock)
      BY <2>1, Zenon DEF Occupies, ClaimedStates, Unexpired
    <2>3. Worked(jobs[j], Move(j, "waiting_approval"))
      BY <2>2, MoveWorked, Zenon
    <2> QED
      BY <1>4, <2>3, WorkedAll, Zenon DEF IngestApprovalRequested
  <1>5. ASSUME NEW j \in Jobs, NEW attempt, IngestJobCancelled(c, j, attempt)
        PROVE  Worked(jobs[k], jobs'[k])
    <2>1. Worked(jobs[j], MoveTerminal(j, "cancelled"))
      BY MoveWorked, Zenon DEF ClaimedStates
    <2> QED
      BY <1>5, <2>1, WorkedAll, Zenon DEF IngestJobCancelled
  <1>6. ASSUME NEW n \in DOMAIN outbox[c], ClientAck(c, n)
        PROVE  Worked(jobs[k], jobs'[k])
    <2> DEFINE j == outbox[c][n].job
    <2>1. outbox[c][n] \in OutboxRows
      BY SMTT(30) DEF TypeOK
    <2>2. j \in Jobs
      BY <2>1, Zenon DEF OutboxRows
    <2>3. jobs[j].status = "waiting_approval" /\ Unexpired(j)
      BY <1>6, Zenon DEF ClientAck, Resumes
    <2>4. SetJob(j, Move(j, "running"))
      BY <1>6, Zenon DEF ClientAck
    <2> HIDE DEF j
    <2>5. Occupies(jobs[j], clock)
      BY <2>3, Zenon DEF Occupies, ClaimedStates, Unexpired
    <2>6. Worked(jobs[j], Move(j, "running"))
      BY <2>2, <2>5, MoveWorked, Zenon
    <2> QED
      BY <2>2, <2>4, <2>6, WorkedAll, Zenon
  <1> QED
    BY <1>0, <1>1, <1>2, <1>3, <1>4, <1>5, <1>6, Zenon
    DEF ConnectorStep, TombstoneReplayBatch

\* A step offers a job, creates it, or works on it and then records no offer.
LEMMA WorkShape ==
  ASSUME TypeOK, [Next]_vars
  PROVE  /\ \A k \in Jobs : \/ Submit(k) \/ Offered(k)
                            \/ Worked(jobs[k], jobs'[k])
         /\ dispatches' # dispatches => \E k \in Jobs : Offered(k)
         /\ clock' \in Nat /\ clock <= clock'
  <1>1. CASE Tick \/ UNCHANGED vars
    BY <1>1, SMTT(30) DEF Tick, vars, TypeOK, Worked, SameOffer
  <1>2. CASE OwnerStep
    <2>1. UNCHANGED <<clock, dispatches>>
      BY <1>2, ZenonT(30) DEF OwnerStep, Submit, CancelAtomically, AcknowledgeResult,
                  RecordApprovalDecision
    <2> QED
      BY <1>2, <2>1, OwnerWork, SMTT(30) DEF TypeOK
  <1>3. ASSUME NEW c \in Connectors, ConnectorStep(c)
        PROVE  /\ UNCHANGED clock
               /\ UNCHANGED dispatches \/ \E k \in Jobs : Offered(k)
    BY <1>3, ZenonT(30) DEF ConnectorStep, DispatchNext, ClaimOfferedJob, IngestJobEvent,
                IngestApprovalRequested, IngestJobCancelled, ClientAck,
                TombstoneReplayBatch, Offered
  <1> QED
    BY <1>1, <1>2, <1>3, ConnectorWork, SMTT(30) DEF Next, TypeOK

\* An offer is recorded with the next lease of a job that has none, or whose
\* lease has run out.
LEMMA OfferedRow ==
  ASSUME TypeOK, NEW k \in Jobs, NEW c \in Connectors, DispatchNext(c, k)
  PROVE  /\ ~Occupies(jobs[k], clock) /\ UNCHANGED clock
         /\ jobs[k].status # "queued" => jobs[k].leaseExpires <= clock
         /\ jobs'[k].status = "dispatched" /\ jobs'[k].connector = c
         /\ jobs'[k].lease = jobs[k].lease + 1
         /\ \A j \in Jobs \ {k} : jobs'[j] = jobs[j]
         /\ \E d : /\ dispatches' = dispatches \cup {d}
                   /\ d.job = k /\ d.connector = c
                   /\ d.lease = jobs'[k].lease
                   /\ d.expires = jobs'[k].leaseExpires
  <1> DEFINE old == jobs[k]
             lease == old.lease + 1
             until == Lesser(clock + LeaseTtl, old.expires)
             row == [Move(k, "dispatched") EXCEPT !.connector = c, !.lease = lease,
                                                  !.leaseExpires = until]
             d == [job |-> k, connector |-> c, attempt |-> old.attempt + 1,
                   lease |-> lease, expires |-> until]
  <1>1. old \in JobRows /\ clock \in Nat
    BY Zenon DEF TypeOK
  <1>2. /\ jobs' = [jobs EXCEPT ![k] = row] /\ dispatches' = dispatches \cup {d}
        /\ UNCHANGED clock /\ Offerable(k)
    BY Zenon DEF DispatchNext, SetJob
  <1>3. /\ row.status = "dispatched" /\ row.connector = c
        /\ row.lease = lease /\ row.leaseExpires = until
    <2> HIDE DEF lease, until
    <2> QED
      BY <1>1, Zenon DEF Move, JobRows
  <1>4. jobs'[k] = row /\ \A j \in Jobs \ {k} : jobs'[j] = jobs[j]
    <2> HIDE DEF row
    <2> QED
      BY <1>2, Zenon DEF TypeOK
  <1>5. /\ d.job = k /\ d.connector = c /\ d.lease = lease /\ d.expires = until
    BY Zenon
  <1>6. /\ ~Occupies(old, clock)
        /\ old.status # "queued" => old.leaseExpires <= clock
    BY <1>1, <1>2 DEF Offerable, Occupies, ClaimedStates, JobRows
  <1> HIDE DEF row, d, until
  <1> QED
    BY <1>2, <1>3, <1>4, <1>5, <1>6, Zenon

\* The offers of every behaviour are recorded.
LEMMA OffersKept == Spec => []OffersRecorded
  <1>1. Init => OffersRecorded
    BY DEF Init, OffersRecorded, NoJob
  <1>2. TypeOK /\ TypeOK' /\ OffersRecorded /\ [Next]_vars => OffersRecorded'
    <2> SUFFICES ASSUME TypeOK, TypeOK', OffersRecorded, [Next]_vars
                 PROVE  OffersRecorded'
      BY Zenon
    <2>1. /\ \A j \in Jobs : jobs[j].lease \in Nat /\ jobs'[j].lease \in Nat
          /\ \A d \in dispatches : /\ d.job \in Jobs /\ d.lease \in Nat
                                   /\ d.expires \in Nat
          /\ clock \in Nat /\ clock' \in Nat /\ clock <= clock'
      BY WorkShape, Zenon DEF TypeOK, JobRows, DispatchRows
    <2>2. ASSUME NEW k \in Jobs, NEW c \in Connectors, DispatchNext(c, k)
          PROVE  OffersRecorded'
      <3>1. /\ UNCHANGED clock
            /\ jobs[k].status # "queued" => jobs[k].leaseExpires <= clock
            /\ jobs'[k].status = "dispatched" /\ jobs'[k].connector = c
            /\ jobs'[k].lease = jobs[k].lease + 1
            /\ \A j \in Jobs \ {k} : jobs'[j] = jobs[j]
        BY <2>2, OfferedRow, Zenon
      <3>2. PICK e : /\ dispatches' = dispatches \cup {e}
                     /\ e.job = k /\ e.connector = c
                     /\ e.lease = jobs'[k].lease
                     /\ e.expires = jobs'[k].leaseExpires
        BY <2>2, OfferedRow, SMTT(30)
      <3>3. ASSUME NEW j \in Jobs, jobs'[j].status \in {"absent", "queued"}
            PROVE  jobs'[j].lease = 0
        BY <3>1, <3>3, Zenon DEF OffersRecorded
      <3>4. ASSUME NEW d \in dispatches, d.job = k
            PROVE  /\ d.lease \in 1..jobs[k].lease /\ d.lease # jobs'[k].lease
                   /\ d.lease \in 1..jobs'[k].lease
                   /\ d.expires <= clock'
        <4>1. d.lease \in 1..jobs[k].lease
          BY <3>4, Zenon DEF OffersRecorded
        <4>2. jobs[k].status # "queued"
          BY <2>1, <4>1, SMTT(30) DEF OffersRecorded
        <4>3. d.expires <= clock
          BY <2>1, <3>1, <3>4, <4>2, Zenon DEF OffersRecorded
        <4> QED
          BY <2>1, <3>1, <4>1, <4>3, SMTT(30)
      <3>5. ASSUME NEW d \in dispatches'
            PROVE  /\ d.lease \in 1..jobs'[d.job].lease
                   /\ IF d.lease = jobs'[d.job].lease
                        THEN /\ jobs'[d.job].connector = d.connector
                             /\ jobs'[d.job].leaseExpires = d.expires
                        ELSE d.expires <= clock'
        <4>1. CASE d = e
          BY <2>1, <3>1, <3>2, <4>1, SMTT(30)
        <4>2. CASE d \in dispatches /\ d.job = k
          BY <3>4, <4>2, Zenon
        <4>3. CASE d \in dispatches /\ d.job # k
          BY <2>1, <3>1, <4>3, Zenon DEF OffersRecorded
        <4> QED
          BY <3>2, <4>1, <4>2, <4>3, Zenon
      <3>6. ASSUME NEW d \in dispatches', NEW f \in dispatches',
                   d.job = f.job, d.lease = f.lease
            PROVE  d = f
        BY <3>2, <3>4, <3>6, Zenon DEF OffersRecorded
      <3> QED
        BY <3>3, <3>5, <3>6, Zenon DEF OffersRecorded
    <2>3. CASE \A k \in Jobs : ~Offered(k)
      <3>1. dispatches' = dispatches
        BY <2>3, WorkShape, Zenon
      <3>2. ASSUME NEW k \in Jobs, Submit(k)
            PROVE  /\ jobs'[k].lease = 0 /\ \A d \in dispatches : d.job # k
        <4>1. jobs'[k].lease = 0
          BY <3>2, Zenon DEF Submit, SetJob, NoJob, TypeOK
        <4>2. jobs[k].lease = 0
          BY <3>2, Zenon DEF Submit, Exists, OffersRecorded
        <4> QED
          BY <2>1, <4>1, <4>2, SMTT(30) DEF OffersRecorded
      <3>3. \A k \in Jobs : Submit(k) \/ Worked(jobs[k], jobs'[k])
        BY <2>3, WorkShape, Zenon
      <3>4. ASSUME NEW k \in Jobs, jobs'[k].status \in {"absent", "queued"}
            PROVE  jobs'[k].lease = 0
        BY <3>2, <3>3, <3>4, Zenon DEF OffersRecorded, Worked, SameOffer
      <3>5. ASSUME NEW d \in dispatches
            PROVE  /\ d.lease \in 1..jobs'[d.job].lease
                   /\ IF d.lease = jobs'[d.job].lease
                        THEN /\ jobs'[d.job].connector = d.connector
                             /\ jobs'[d.job].leaseExpires = d.expires
                        ELSE d.expires <= clock'
        <4>1. SameOffer(jobs[d.job], jobs'[d.job])
          BY <2>1, <3>2, <3>3, Zenon DEF Worked
        <4> QED
          BY <2>1, <4>1, SMTT(30) DEF OffersRecorded, SameOffer
      <3> QED
        BY <3>1, <3>4, <3>5, Zenon DEF OffersRecorded
    <2> QED
      BY <2>2, <2>3, Zenon DEF Offered
  <1> QED
    BY <1>1, <1>2, Typing, PTL DEF Spec

\* A Connector's queue never blocks: the store consumes a claim of any offer
\* it ever made, and any event or cancellation report of an attempt that was
\* claimed, whatever happened to the job, the lease and the deadlines since.
THEOREM PublishedIsConsumedHolds == Spec => []PublishedIsConsumed
  <1>1. TypeOK /\ SingleExecution /\ OffersRecorded => PublishedIsConsumed
    <2> SUFFICES ASSUME TypeOK, SingleExecution, OffersRecorded
                 PROVE  PublishedIsConsumed
      BY Zenon
    <2>1. ASSUME NEW d \in dispatches
          PROVE  ClaimVerdict(d.connector, d.job, d.attempt, d.lease) \in Consumed
      <3> DEFINE c == d.connector
                 j == d.job
                 attempt == d.attempt
                 lease == d.lease
      <3>1. /\ j \in Jobs /\ lease \in Nat /\ d.expires \in Nat /\ clock \in Nat
            /\ jobs[j].lease \in Nat /\ lease \in 1..jobs[j].lease
        BY Zenon DEF TypeOK, DispatchRows, JobRows, OffersRecorded
      <3>2. d \in Dispatched(c, j, attempt)
        BY Zenon DEF Dispatched
      <3>3. OriginalClaimOffer(c, j, attempt, lease)
        <4>1. {e \in Dispatched(c, j, attempt) : e.lease = lease} = {d}
          BY <3>2, Zenon DEF Dispatched, OffersRecorded
        <4>2. Cardinality({d}) = 1
          BY FS_Singleton, Zenon
        <4> QED
          BY <4>1, <4>2, Zenon DEF OriginalClaimOffer
      <3>4. CASE jobs[j].lease # lease
        <4>1. ExpiredOriginalOffer(c, j, attempt, lease)
          BY <3>2, <3>4, Zenon DEF ExpiredOriginalOffer, OffersRecorded
        <4> HIDE DEF c, j, attempt, lease
        <4>2. ClaimVerdict(c, j, attempt, lease) \in Consumed
          BY <3>4, <4>1, Zenon DEF ClaimVerdict, Consumed
        <4> QED
          BY <4>2, Zenon DEF c, j, attempt, lease
      <3>5. CASE jobs[j].lease = lease
        <4>1. Bound(c, j)
          <5>1. jobs[j].status # "absent"
            BY <3>1, <3>5, SMTT(30) DEF OffersRecorded
          <5> QED
            BY <3>5, <5>1, Zenon DEF Bound, Exists, OffersRecorded
        <4> HIDE DEF c, j, attempt, lease
        <4>2. ClaimVerdict(c, j, attempt, lease) \in Consumed
          BY <3>3, <3>5, <4>1, Zenon DEF ClaimVerdict, Consumed
        <4> QED
          BY <4>2, Zenon DEF c, j, attempt, lease
      <3> QED
        BY <3>4, <3>5, Zenon
    <2>2. ASSUME NEW j \in Jobs, jobs[j].attempt > 0, NEW kind \in EventKinds
          PROVE  /\ CancelledVerdict(jobs[j].connector, j, jobs[j].attempt) \in Consumed
                 /\ EventVerdict(jobs[j].connector, j, jobs[j].attempt, kind)
                      \in Consumed
      <3>1. Bound(jobs[j].connector, j)
        BY <2>2, SMTT(30) DEF Bound, Exists, SingleExecution
      <3> QED
        BY <3>1, Zenon DEF CancelledVerdict, EventVerdict, AfterTerminal, Consumed
    <2>3. \E kind : kind \in EventKinds
      BY Zenon DEF EventKinds
    <2> QED
      BY <2>1, <2>2, <2>3, Zenon DEF PublishedIsConsumed
  <1> QED
    BY <1>1, Typing, SingleExecutionHolds, OffersKept, PTL

\* The admission count of dispatchNext bounds what is in flight: no late claim,
\* redispatch, resumption or passage of time lifts a repository above its
\* policy's maxConcurrency, for any number of jobs, repositories and slots.
THEOREM SlotsRespectedHolds == Spec => []SlotsRespected
  <1>0. \A r : Active(r) = {j \in Jobs : RepositoryOf[j] = r /\ Occupies(jobs[j], clock)}
    BY Zenon DEF Active, Occupies, Unexpired, Claimed
  <1>1. Init => SlotsCounted
    <2> SUFFICES ASSUME Init, NEW r \in Repositories
                 PROVE  /\ IsFiniteSet(Active(r))
                        /\ Cardinality(Active(r)) <= MaxConcurrency[r]
      BY Zenon DEF SlotsCounted
    <2>1. Active(r) = {}
      BY Zenon DEF Init, Active, NoJob, Claimed, ClaimedStates
    <2>2. IsFiniteSet({}) /\ Cardinality({}) = 0
      BY FS_EmptySet, Zenon
    <2>3. MaxConcurrency[r] \in Nat
      BY ConstantsAssumption, Zenon DEF ConstantsAssumption
    <2> QED
      BY <2>1, <2>2, <2>3, SMTT(30)
  <1>2. TypeOK /\ TypeOK' /\ SlotsCounted /\ [Next]_vars => SlotsCounted'
    <2> SUFFICES ASSUME TypeOK, TypeOK', SlotsCounted, [Next]_vars,
                        NEW r \in Repositories
                 PROVE  /\ IsFiniteSet(Active(r)')
                        /\ Cardinality(Active(r)') <= MaxConcurrency[r]
      BY Zenon DEF SlotsCounted
    <2> DEFINE A == Active(r)
               B == Active(r)'
               max == MaxConcurrency[r]
    <2>1. IsFiniteSet(A) /\ Cardinality(A) <= max /\ max \in Nat
      BY ConstantsAssumption, Zenon DEF SlotsCounted, ConstantsAssumption
    <2>2. /\ A = {j \in Jobs : RepositoryOf[j] = r /\ Occupies(jobs[j], clock)}
          /\ B = {j \in Jobs : RepositoryOf[j] = r /\ Occupies(jobs'[j], clock')}
      BY <1>0, Zenon DEF Active, Occupies, Unexpired, Claimed
    <2>3. ASSUME NEW k \in Jobs, Occupies(jobs'[k], clock'), ~Offered(k)
          PROVE  Occupies(jobs[k], clock)
      <3>1. /\ jobs[k].expires \in Nat /\ jobs[k].leaseExpires \in Nat
            /\ clock \in Nat /\ clock' \in Nat /\ clock <= clock'
        BY WorkShape, Zenon DEF TypeOK, JobRows
      <3>2. ~Submit(k)
        <4>1. ASSUME Submit(k) PROVE jobs'[k].status = "queued"
          BY <4>1, Zenon DEF Submit, SetJob, NoJob, TypeOK
        <4> QED
          BY <2>3, <4>1, Zenon DEF Occupies, ClaimedStates
      <3>3. Worked(jobs[k], jobs'[k])
        BY <2>3, <3>2, WorkShape, Zenon
      <3> QED
        BY <2>3, <3>1, <3>3, SMTT(30) DEF Worked, SameOffer, Occupies
    <2>4. CASE B \subseteq A
      <3> HIDE DEF A, B, max
      <3>1. IsFiniteSet(B) /\ Cardinality(B) <= Cardinality(A)
        BY <2>1, <2>4, FS_Subset, Zenon
      <3>2. Cardinality(A) \in Nat /\ Cardinality(B) \in Nat
        BY <2>1, <3>1, FS_CardinalityType, Zenon
      <3>3. Cardinality(B) <= max
        BY <2>1, <3>1, <3>2, SMTT(30)
      <3> QED
        BY <3>1, <3>3, Zenon DEF B, max
    <2>5. CASE ~(B \subseteq A)
      <3>1. PICK k \in B : k \notin A
        BY <2>5, Zenon
      <3>2. k \in Jobs /\ RepositoryOf[k] = r /\ Offered(k)
        BY <2>2, <2>3, <3>1, Zenon
      <3>3. PICK c \in Connectors : DispatchNext(c, k)
        BY <3>2, Zenon DEF Offered
      <3>4. Cardinality(A) < max
        BY <3>2, <3>3, Zenon DEF DispatchNext
      <3>5. B \subseteq A \cup {k}
        <4>1. \A j \in Jobs \ {k} : jobs'[j] = jobs[j] /\ clock' = clock
          BY <3>2, <3>3, OfferedRow, ZenonT(30)
        <4> QED
          BY <2>2, <4>1, Zenon
      <3> HIDE DEF A, B, max
      <3>6. /\ IsFiniteSet(A \cup {k})
            /\ Cardinality(A \cup {k}) = Cardinality(A) + 1
        BY <2>1, <3>1, FS_AddElement, Zenon
      <3>7. IsFiniteSet(B) /\ Cardinality(B) <= Cardinality(A \cup {k})
        BY <3>5, <3>6, FS_Subset, Zenon
      <3>8. Cardinality(A) \in Nat /\ Cardinality(B) \in Nat
        BY <2>1, <3>7, FS_CardinalityType, Zenon
      <3>9. Cardinality(B) <= max
        BY <2>1, <3>4, <3>6, <3>7, <3>8, SMTT(30)
      <3> QED
        BY <3>7, <3>9, Zenon DEF B, max
    <2> QED
      BY <2>4, <2>5, Zenon
  <1>3. SlotsCounted => SlotsRespected
    BY Zenon DEF SlotsCounted, SlotsRespected
  <1> QED
    BY <1>1, <1>2, <1>3, Typing, PTL DEF Spec
=============================================================================
