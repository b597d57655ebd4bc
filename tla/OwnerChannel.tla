----------------------------- MODULE OwnerChannel -----------------------------
(***************************************************************************)
(* The owner's way to their jobs: the assistant with the Qwen Skill        *)
(* (packages/qwen-skill), the MCP tools with their deadline                *)
(* (apps/control-plane/src/mcp/tools.ts), the job coordinator              *)
(* (domain/job-coordinator.ts) and the repository reads and transactions   *)
(* it calls (db/job-repository.ts).                                        *)
(*                                                                         *)
(* A tool call that runs past its deadline, or whose answer is lost on the *)
(* way, is over for the assistant and goes on in the server.  The jobs     *)
(* move meanwhile; how they move is module JobStore's subject, and here    *)
(* only what the owner can see of it: status, revision, the pending        *)
(* approval, the summary and the unread mark.  One owner, one conversation *)
(* and attempts that are never reassigned.                                 *)
(***************************************************************************)
EXTENDS Naturals, Sequences, FiniteSets, TLC

CONSTANTS
    Requests,       \* client_request_ids
    Payloads,       \* canonical submissions without the id
    Earlier,        \* how many jobs an earlier conversation may have left queued
    MaxJobs,        \* bound: jobs
    MaxApprovals,   \* bound: approvals
    MaxCalls,       \* bound: tool calls
    MaxRows,        \* MAX_LIST_LIMIT and MAX_APPROVAL_ROWS
    MaxAge,         \* APPROVAL_SNAPSHOT_MAX_AGE_MS
    Lifetime,       \* how long an approval is open
    MaxTime,        \* bound: time
    None

\* A row is never NULL.
ASSUME ChannelAssumption ==
    /\ Earlier \subseteq Nat /\ Lifetime \in Nat
    /\ None \notin [payload : Payloads, job : Nat]

VARIABLES
    now,
    jobs,       \* the job rows
    records,    \* the idempotency records: request -> payload and job
    approvals,  \* the approval rows
    ops,        \* tool calls at work in the server
    skill,      \* what the assistant knows and waits for
    seen        \* what the owner was told, and what they asked for

vars == <<now, jobs, records, approvals, ops, skill, seen>>

Terminal == {"succeeded", "failed", "cancelled", "expired"}
Mutations == {"submit_task", "cancel_task", "decide_approval"}

NewJob(r, payload) ==
    [request |-> r, payload |-> payload, status |-> "queued", revision |-> 0, summary |-> FALSE,
     unread |-> FALSE, read |-> FALSE]

Init ==
    /\ now = 0
    /\ \E n \in Earlier : jobs = [j \in 1 .. n |-> NewJob(None, None)]
    /\ records = [r \in Requests |-> None]
    /\ approvals = <<>>
    /\ ops = {}
    /\ skill = [call |-> 0, calls |-> 0, list |-> None, target |-> None, last |-> None]
    /\ seen = [receipts |-> {}, said |-> {}, cancels |-> {}]

-----------------------------------------------------------------------------
(* What the skill plans from the answers it holds. *)

\* renderApprovalList
Rendered(list) == SubSeq(list.items, 1, IF Len(list.items) < MaxRows THEN Len(list.items) ELSE MaxRows)

FaultyPlanned(ordinal) ==
    IF /\ skill.list # None
       /\ now - skill.list.at <= MaxAge
       /\ ordinal < Len(Rendered(skill.list))
    THEN {skill.list.items[ordinal + 1]}
    ELSE {}

\* planOrdinalDecision: the approval the ordinal names, if the list is fresh,
\* the row was shown and the approval has not passed its expiry; otherwise
\* the assistant lists again or asks, and calls nothing.
Planned(ordinal) ==
    IF /\ skill.list # None
       /\ now - skill.list.at <= MaxAge
       /\ ordinal \in 1 .. Len(Rendered(skill.list))
       /\ skill.list.items[ordinal].expires > now
    THEN {skill.list.items[ordinal]}
    ELSE {}

\* planCancellation
Cancellable(target) ==
    /\ target # None
    /\ target.status \notin Terminal \cup {"cancelling"}

FaultyPresented(status) == IF status \in Terminal THEN "cancelled" ELSE "cancelling"

\* presentCancellationResult
Presented(status) ==
    CASE status = "cancelled"                        -> "cancelled"
      [] status \in {"succeeded", "failed", "expired"} -> "kept"
      [] OTHER                                       -> "cancelling"

\* RETRYABLE_FAILURE
Retryable(code) == code \in {"TRANSPORT_TIMEOUT", "TEMPORARY_UNAVAILABLE"}

\* APPROVAL_REFRESH_CODES
RefreshCodes == {"REVISION_CONFLICT", "APPROVAL_EXPIRED", "APPROVAL_ALREADY_DECIDED",
                 "APPROVAL_SUPERSEDED"}

-----------------------------------------------------------------------------
(* The assistant's calls.  It makes one at a time and waits for the answer. *)

\* register, execute: the call is parsed and handed to the coordinator.
Call(tool, args) ==
    /\ skill.call = 0
    /\ skill.calls < MaxCalls
    /\ ops' = ops \cup {[n |-> skill.calls + 1, tool |-> tool, args |-> args, read |-> None]}

\* validateFixture: a mutation starts with the owner's request.
Begin(tool, args) ==
    /\ Call(tool, args)
    /\ skill' = [skill EXCEPT !.call = skill.calls + 1, !.calls = @ + 1,
                     !.last = IF tool \in Mutations
                              THEN [tool |-> tool, args |-> args, retried |-> FALSE]
                              ELSE None]

Submit(r, p) ==
    /\ records[r] = None => Len(jobs) < MaxJobs
    /\ Begin("submit_task", [request |-> r, payload |-> p])
    /\ UNCHANGED <<now, jobs, records, approvals, seen>>

GetTask(j) ==
    /\ Begin("get_task", [job |-> j])
    /\ UNCHANGED <<now, jobs, records, approvals, seen>>

GetResult(j) ==
    /\ Begin("get_task_result", [job |-> j])
    /\ UNCHANGED <<now, jobs, records, approvals, seen>>

ListApprovals ==
    /\ Begin("list_pending_approvals", [all |-> TRUE])
    /\ UNCHANGED <<now, jobs, records, approvals, seen>>

\* The owner says "approve the first one".
Decide(ordinal, decision) ==
    /\ \E item \in Planned(ordinal) :
          Begin("decide_approval",
                [approval |-> item.approval, decision |-> decision, revision |-> item.revision])
    /\ seen' = [seen EXCEPT !.said = @ \cup {<<skill.list.items[ordinal].approval, decision>>}]
    /\ UNCHANGED <<now, jobs, records, approvals>>

Cancel ==
    /\ Cancellable(skill.target)
    /\ Begin("cancel_task", [job |-> skill.target.job, revision |-> skill.target.revision])
    /\ UNCHANGED <<now, jobs, records, approvals, seen>>

\* validateFixture: the same tool and payload, after a retryable failure, once.
Retry ==
    /\ skill.last # None
    /\ Call(skill.last.tool, skill.last.args)
    /\ skill' = [skill EXCEPT !.call = skill.calls + 1, !.calls = @ + 1,
                              !.last.retried = TRUE]
    /\ UNCHANGED <<now, jobs, records, approvals, seen>>

-----------------------------------------------------------------------------
(* Answers. *)

\* A first failure of the transport may be retried.
MayRetry(code) == Retryable(code) /\ skill.last # None /\ ~skill.last.retried

\* The assistant takes a failure of the call it waits for.  A conflict on a
\* decision makes it forget the list.
Failed(code) ==
    [skill EXCEPT !.call = 0,
                  !.list = IF code \in RefreshCodes THEN None ELSE @,
                  !.last = IF MayRetry(code) THEN @ ELSE None]

\* failure: an error of the coordinator, for the assistant if it still waits.
Fails(op, code) ==
    /\ ops' = ops \ {op}
    /\ skill' = IF skill.call = op.n THEN Failed(code) ELSE skill

\* success: likewise, keeping what the answer shows.
Answers(op, learned) ==
    /\ ops' = ops \ {op}
    /\ skill' = IF skill.call = op.n THEN learned ELSE skill

Heard(op) == skill.call = op.n

Done == [skill EXCEPT !.call = 0, !.last = None]

\* The operation goes on to its next await with what it has read.
GoesOn(op, value) ==
    ops' = (ops \ {op}) \cup {[op EXCEPT !.read = value]}

\* execute: the deadline wins the race.  The operation is not stopped.
DeadlineDue == skill.call # 0

Deadline ==
    /\ DeadlineDue
    /\ skill' = Failed("TASK_TIMEOUT")
    /\ UNCHANGED <<now, jobs, records, approvals, ops, seen>>

\* The connection to the server breaks before the answer arrives.
LoseAnswer ==
    /\ skill.call # 0
    /\ skill' = Failed("TRANSPORT_TIMEOUT")
    /\ UNCHANGED <<now, jobs, records, approvals, ops, seen>>

-----------------------------------------------------------------------------
(* The coordinator and the repository. *)

\* submit up to getRepositoryPolicy; the policy row is the operator's.
ReadPolicy(op) ==
    /\ op.tool = "submit_task" /\ op.read = None
    /\ \/ GoesOn(op, "allowed") /\ UNCHANGED skill
       \/ Fails(op, "REPOSITORY_NOT_ALLOWED")
    /\ UNCHANGED <<now, jobs, records, approvals, seen>>

FaultyExisting(r) == None

\* createIdempotent: the record of the request, read under the advisory lock.
Existing(r) == records[r]

\* createIdempotent and the receipt, which says "queued" whatever the job is.
CreateIdempotent(op) ==
    /\ op.tool = "submit_task" /\ op.read = "allowed"
    /\ LET r == op.args.request
           receipt(j) ==
               /\ Answers(op, Done)
               /\ seen' = IF Heard(op)
                          THEN [seen EXCEPT !.receipts = @ \cup {<<r, op.args.payload, j>>}]
                          ELSE seen
       IN  IF Existing(r) = None
           THEN /\ jobs' = Append(jobs, NewJob(r, op.args.payload))
                /\ records' = [records EXCEPT
                                  ![r] = [payload |-> op.args.payload, job |-> Len(jobs) + 1]]
                /\ receipt(Len(jobs) + 1)
           ELSE /\ IF Existing(r).payload = op.args.payload
                   THEN receipt(Existing(r).job)
                   ELSE Fails(op, "IDEMPOTENCY_CONFLICT") /\ UNCHANGED seen
                /\ UNCHANGED <<jobs, records>>
    /\ UNCHANGED <<now, approvals>>

\* get: the job the next cancellation is about, as it was when read.
ReadTask(op) ==
    /\ op.tool = "get_task"
    /\ LET j == op.args.job
       IN  Answers(op, [Done EXCEPT !.target = [job |-> j, status |-> jobs[j].status,
                                                revision |-> jobs[j].revision]])
    /\ UNCHANGED <<now, jobs, records, approvals, seen>>

\* listPendingApprovals
Pending(a) ==
    LET job == jobs[approvals[a].job]
    IN  /\ job.status = "waiting_approval"
        /\ approvals[a].revision = job.revision
        /\ approvals[a].decision = "none"
        /\ approvals[a].expires > now

\* listApprovals: by expiry, then by age, at most MaxRows.
PendingList ==
    LET all    == SortSeq(SelectSeq([a \in DOMAIN approvals |-> a], Pending),
                      LAMBDA a, b : \/ approvals[a].expires < approvals[b].expires
                                    \/ /\ approvals[a].expires = approvals[b].expires
                                       /\ a < b)
        item(a) == [approval |-> a, revision |-> approvals[a].revision,
                    expires |-> approvals[a].expires]
    IN  [i \in 1 .. IF Len(all) < MaxRows THEN Len(all) ELSE MaxRows |-> item(all[i])]

ReadApprovals(op) ==
    /\ op.tool = "list_pending_approvals"
    /\ Answers(op, [Done EXCEPT !.list = [at |-> now, items |-> PendingList]])
    /\ UNCHANGED <<now, jobs, records, approvals, seen>>

\* cancel up to its read of the job.
ReadBeforeCancel(op) ==
    /\ op.tool = "cancel_task" /\ op.read = None
    /\ LET status == jobs[op.args.job].status
       IN  CASE status \in {"cancelling", "cancelled"} ->
                  /\ Answers(op, Done)
                  /\ seen' = IF Heard(op)
                             THEN [seen EXCEPT !.cancels = @ \cup
                                       {<<op.args.job, Presented(status)>>}]
                             ELSE seen
             [] status \in Terminal \ {"cancelled"} ->
                  Fails(op, "JOB_NOT_MUTABLE") /\ UNCHANGED seen
             [] OTHER ->
                  GoesOn(op, "mutable") /\ UNCHANGED <<skill, seen>>
    /\ UNCHANGED <<now, jobs, records, approvals>>

Move(j, status) == [jobs[j] EXCEPT !.status = status, !.revision = @ + 1]

\* cancelAtomically and the answer: a job that settled in the meantime is
\* returned as it is.
CancelAtomically(op) ==
    /\ op.tool = "cancel_task" /\ op.read = "mutable"
    /\ LET j      == op.args.job
           status == jobs[j].status
           tell(s) ==
               /\ Answers(op, Done)
               /\ seen' = IF Heard(op)
                          THEN [seen EXCEPT !.cancels = @ \cup {<<j, Presented(s)>>}]
                          ELSE seen
       IN  IF status \in Terminal \cup {"cancelling"}
           THEN tell(status) /\ UNCHANGED jobs
           ELSE IF jobs[j].revision # op.args.revision
           THEN Fails(op, "REVISION_CONFLICT") /\ UNCHANGED <<jobs, seen>>
           ELSE IF status = "queued"
           THEN /\ jobs' = [jobs EXCEPT ![j] = [Move(j, "cancelled") EXCEPT !.unread = TRUE]]
                /\ tell("cancelled")
           ELSE /\ jobs' = [jobs EXCEPT ![j] = Move(j, "cancelling")]
                /\ tell("cancelling")
    /\ UNCHANGED <<now, records, approvals>>

\* recordApprovalDecision: what the locked rows make of the decision.
Outcome(a, decision, revision) ==
    LET job   == jobs[approvals[a].job]
        bound == /\ job.status = "waiting_approval"
                 /\ job.revision = approvals[a].revision
                 /\ approvals[a].revision = revision
    IN  IF approvals[a].decision # "none"
        THEN IF approvals[a].decision = decision /\ bound THEN "same" ELSE "APPROVAL_MISMATCH"
        ELSE IF ~bound THEN "APPROVAL_MISMATCH"
        ELSE IF approvals[a].expires <= now THEN "APPROVAL_EXPIRED"
        ELSE "decided"

\* An expired approval is rejected in the same transaction, and the caller
\* told that it expired.
DecideApproval(op) ==
    /\ op.tool = "decide_approval"
    /\ LET a       == op.args.approval
           outcome == Outcome(a, op.args.decision, op.args.revision)
       IN  /\ approvals' =
                 CASE outcome = "decided" ->
                        [approvals EXCEPT ![a].decision = op.args.decision]
                   [] outcome = "APPROVAL_EXPIRED" ->
                        [approvals EXCEPT ![a].decision = "reject", ![a].lapsed = TRUE]
                   [] OTHER -> approvals
           /\ IF outcome \in {"decided", "same"}
              THEN Answers(op, Done) ELSE Fails(op, outcome)
    /\ UNCHANGED <<now, jobs, records, seen>>

\* getResult up to its read of the job.
ReadBeforeResult(op) ==
    /\ op.tool = "get_task_result" /\ op.read = None
    /\ IF jobs[op.args.job].status \in Terminal
       THEN GoesOn(op, "terminal") /\ UNCHANGED skill
       ELSE Fails(op, "JOB_NOT_MUTABLE")
    /\ UNCHANGED <<now, jobs, records, approvals, seen>>

\* acknowledgeResult: a job without a summary has no result.
AcknowledgeResult(op) ==
    /\ op.tool = "get_task_result" /\ op.read = "terminal"
    /\ LET j == op.args.job
       IN  IF jobs[j].summary
           THEN /\ jobs' = [jobs EXCEPT ![j].unread = IF jobs[j].read THEN @ ELSE FALSE,
                                        ![j].read = TRUE]
                /\ Answers(op, Done)
           ELSE Fails(op, "JOB_NOT_FOUND") /\ UNCHANGED jobs
    /\ UNCHANGED <<now, records, approvals, seen>>

-----------------------------------------------------------------------------
(* The rest of the system. *)

\* The connector's work as the owner's tools can see it: a job starts, asks for
\* an approval, resumes once an approval was delivered (a rejected or lapsed one
\* can only fail), and ends with a summary, or cancelled without one. The
\* dispatch and the leases in between are module JobStore's.
Progress(j) ==
    LET settle(status, summary) ==
            jobs' = [jobs EXCEPT ![j] = [Move(j, status) EXCEPT !.summary = summary,
                                                                !.unread = TRUE]]
    IN  \/ /\ jobs[j].status = "queued"
           /\ jobs' = [jobs EXCEPT ![j] = Move(j, "running")]
           /\ UNCHANGED approvals
        \/ /\ jobs[j].status = "running"
           /\ Len(approvals) < MaxApprovals
           /\ jobs' = [jobs EXCEPT ![j] = Move(j, "waiting_approval")]
           /\ approvals' = Append(approvals,
                  [job |-> j, revision |-> jobs[j].revision + 1, decision |-> "none",
                   expires |-> now + Lifetime, lapsed |-> FALSE])
        \/ /\ jobs[j].status = "waiting_approval"
           /\ \E a \in DOMAIN approvals :
                 /\ approvals[a].job = j /\ approvals[a].revision = jobs[j].revision
                 /\ approvals[a].decision = "approve"
           /\ jobs' = [jobs EXCEPT ![j] = Move(j, "running")]
           /\ UNCHANGED approvals
        \/ /\ jobs[j].status = "waiting_approval"
           /\ settle("failed", TRUE)
           /\ UNCHANGED approvals
        \/ /\ jobs[j].status \in {"running", "cancelling"}
           /\ settle("succeeded", TRUE)
           /\ UNCHANGED approvals
        \/ /\ jobs[j].status = "cancelling"
           /\ settle("cancelled", FALSE)
           /\ UNCHANGED approvals

Works(j) ==
    /\ Progress(j)
    /\ UNCHANGED <<now, records, ops, skill, seen>>

Tick ==
    /\ now < MaxTime
    /\ now' = now + 1
    /\ UNCHANGED <<jobs, records, approvals, ops, skill, seen>>

Serve(op) ==
    \/ ReadPolicy(op) \/ CreateIdempotent(op)
    \/ ReadTask(op) \/ ReadApprovals(op)
    \/ ReadBeforeCancel(op) \/ CancelAtomically(op)
    \/ DecideApproval(op)
    \/ ReadBeforeResult(op) \/ AcknowledgeResult(op)

Next ==
    \/ \E r \in Requests, p \in Payloads : Submit(r, p)
    \/ \E j \in DOMAIN jobs : GetTask(j) \/ GetResult(j)
    \/ ListApprovals
    \/ \E ordinal \in 1 .. MaxRows + 1, d \in {"approve", "reject"} : Decide(ordinal, d)
    \/ Cancel
    \/ Retry
    \/ Deadline \/ LoseAnswer
    \/ \E op \in ops : Serve(op)
    \/ \E j \in DOMAIN jobs : Works(j)
    \/ Tick

Spec == Init /\ [][Next]_vars

-----------------------------------------------------------------------------
\* A request id stands for one job and one payload for ever: whichever of a
\* timed-out submission and its retry commits first, every receipt the owner
\* gets for the id names the same job, and that job runs what they asked for.
OneJobPerRequest ==
    /\ \A x, y \in seen.receipts : x[1] = y[1] => x = y
    /\ \A x \in seen.receipts : jobs[x[3]].payload = x[2]
    /\ \A i, j \in DOMAIN jobs : jobs[i].request # None /\ jobs[i].request = jobs[j].request => i = j

\* The connector only ever hears a decision the owner took on a row they were
\* shown, or the rejection of an approval that ran out.
DecisionsAreTheOwners ==
    \A a \in DOMAIN approvals :
        approvals[a].decision # "none" =>
            <<a, approvals[a].decision>> \in seen.said \/ approvals[a].lapsed

\* What the owner is told of a cancellation stays true: a job called
\* cancelled is, one whose cancellation "had no effect" ended otherwise, and
\* one "being cancelled" never runs on.
CancelTold ==
    \A x \in seen.cancels :
        CASE x[2] = "cancelled"  -> jobs[x[1]].status = "cancelled"
          [] x[2] = "kept"       -> jobs[x[1]].status \in Terminal \ {"cancelled"}
          [] x[2] = "cancelling" -> jobs[x[1]].status \in Terminal \cup {"cancelling"}
=============================================================================
