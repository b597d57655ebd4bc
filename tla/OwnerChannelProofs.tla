-------------------------- MODULE OwnerChannelProofs --------------------------
(***************************************************************************)
(* Proofs about OwnerChannel, for any number of requests, jobs, approvals  *)
(* and calls: a request id stands for one job, a decision is the owner's,  *)
(* and what the owner is told of a cancellation stays true.                *)
(***************************************************************************)
EXTENDS OwnerChannel, TLAPS

-----------------------------------------------------------------------------
(* The inductive invariant *)

Statuses == {"queued", "running", "waiting_approval", "cancelling"} \cup Terminal
Jobs == [request : Requests \cup {None}, payload : Payloads \cup {None},
         status : Statuses, revision : Nat, summary : BOOLEAN,
         unread : BOOLEAN, read : BOOLEAN]
Approvals == [job : Nat, revision : Nat, decision : {"none", "approve", "reject"},
              expires : Nat, lapsed : BOOLEAN]
Records == [payload : Payloads, job : Nat]

TypeOK ==
  /\ now \in Nat
  /\ jobs \in Seq(Jobs) /\ approvals \in Seq(Approvals)
  /\ records \in [Requests -> Records \cup {None}]
  /\ seen = [receipts |-> seen.receipts, said |-> seen.said,
             cancels |-> seen.cancels]

\* A call names a job there is, or a decision the owner took.
Proper(tool, args, count, said) ==
  /\ tool = "submit_task" => args.request \in Requests /\ args.payload \in Payloads
  /\ tool \in {"get_task", "get_task_result", "cancel_task"} =>
       args.job \in 1..count
  /\ tool = "decide_approval" =>
       /\ args.decision \in {"approve", "reject"}
       /\ <<args.approval, args.decision>> \in said

\* The calls at work in the server.
Asked(calls, count, said) ==
  \A op \in calls :
    /\ op = [n |-> op.n, tool |-> op.tool, args |-> op.args, read |-> op.read]
    /\ Proper(op.tool, op.args, count, said)

\* What the assistant may cancel, or repeat.
Knows(s, count, said) ==
  /\ s = [call |-> s.call, calls |-> s.calls, list |-> s.list,
          target |-> s.target, last |-> s.last]
  /\ s.target # None => s.target.job \in 1..count
  /\ s.last # None =>
       /\ s.last = [tool |-> s.last.tool, args |-> s.last.args,
                    retried |-> s.last.retried]
       /\ Proper(s.last.tool, s.last.args, count, said)

\* The idempotency records, the jobs and the owner's receipts agree.
Booked(table, book, slips) ==
  /\ \A r \in Requests : book[r] # None =>
       /\ book[r].job \in 1..Len(table)
       /\ table[book[r].job].request = r
       /\ table[book[r].job].payload = book[r].payload
  /\ \A i \in 1..Len(table) : table[i].request # None =>
       /\ table[i].request \in Requests
       /\ book[table[i].request] # None /\ book[table[i].request].job = i
  /\ \A x \in slips :
       /\ x[1] \in Requests /\ book[x[1]] # None
       /\ x = <<x[1], book[x[1]].payload, book[x[1]].job>>

\* What may be said of the cancellation of a job in a status.
Fits(word, status) ==
  \/ word = "cancelled" /\ status = "cancelled"
  \/ word = "kept" /\ status \in Terminal \ {"cancelled"}
  \/ word = "cancelling" /\ status \in Terminal \cup {"cancelling"}

Told(table, cancels) ==
  \A x \in cancels : x[1] \in 1..Len(table) /\ Fits(x[2], table[x[1]].status)

Taken(table, said) ==
  \A a \in 1..Len(table) : table[a].decision # "none" =>
    <<a, table[a].decision>> \in said \/ table[a].lapsed

Inv ==
  /\ TypeOK
  /\ Asked(ops, Len(jobs), seen.said) /\ Knows(skill, Len(jobs), seen.said)
  /\ Booked(jobs, records, seen.receipts)
  /\ Told(jobs, seen.cancels)
  /\ Taken(approvals, seen.said)

-----------------------------------------------------------------------------
(* Calls and answers *)

LEMMA ProperKept ==
  ASSUME NEW tool, NEW args, NEW count \in Nat, NEW more \in Nat, count <= more,
         NEW said, NEW added, said \subseteq added,
         Proper(tool, args, count, said)
  PROVE  Proper(tool, args, more, added)
  BY DEF Proper

LEMMA AskedKept ==
  ASSUME NEW calls, NEW count \in Nat, NEW more \in Nat, count <= more,
         NEW said, NEW added, said \subseteq added, Asked(calls, count, said)
  PROVE  Asked(calls, more, added)
  BY ProperKept, Zenon DEF Asked

LEMMA KnowsKept ==
  ASSUME NEW s, NEW count \in Nat, NEW more \in Nat, count <= more,
         NEW said, NEW added, said \subseteq added, Knows(s, count, said)
  PROVE  Knows(s, more, added)
  <1>1. 1..count \subseteq 1..more
    OBVIOUS
  <1> QED
    BY <1>1, ProperKept, Zenon DEF Knows

LEMMA DoneKnows ==
  ASSUME NEW count, NEW said, Knows(skill, count, said)
  PROVE  Knows(Done, count, said) /\ Done.list = skill.list
  <1> DEFINE d == Done
  <1>1. d = [skill EXCEPT !.call = 0, !.last = None]
    BY Zenon DEF Done
  <1> HIDE DEF d
  <1>2. /\ d = [call |-> d.call, calls |-> d.calls, list |-> d.list,
                target |-> d.target, last |-> d.last]
        /\ d.target = skill.target /\ d.last = None /\ d.list = skill.list
    BY <1>1, Zenon DEF Knows
  <1>3. Knows(d, count, said)
    BY <1>2, Zenon DEF Knows
  <1> QED
    BY <1>2, <1>3, Zenon DEF d

LEMMA FailedKnows ==
  ASSUME NEW count, NEW said, NEW code, Knows(skill, count, said)
  PROVE  Knows(Failed(code), count, said)
  <1> DEFINE f == Failed(code)
             list == IF code \in RefreshCodes THEN None ELSE skill.list
             last == IF MayRetry(code) THEN skill.last ELSE None
  <1>1. f = [skill EXCEPT !.call = 0, !.list = list, !.last = last]
    BY Zenon DEF Failed
  <1>2. last \in {skill.last, None}
    BY Zenon
  <1> HIDE DEF f, list, last
  <1>3. /\ f = [call |-> f.call, calls |-> f.calls, list |-> f.list,
                target |-> f.target, last |-> f.last]
        /\ f.target = skill.target /\ f.last = last
    BY <1>1, Zenon DEF Knows
  <1>4. Knows(f, count, said)
    BY <1>2, <1>3, Zenon DEF Knows
  <1> QED
    BY <1>4, Zenon DEF f

\* An answer takes a call away, whoever still waits for it.
LEMMA AnswersKeeps ==
  ASSUME NEW count, NEW said, NEW op, NEW learned, Answers(op, learned),
         Asked(ops, count, said), Knows(skill, count, said),
         Knows(learned, count, said)
  PROVE  Asked(ops', count, said) /\ Knows(skill', count, said)
  <1>1. ops' \subseteq ops /\ skill' \in {learned, skill}
    BY Zenon DEF Answers
  <1> QED
    BY <1>1, Zenon DEF Asked

LEMMA FailsKeeps ==
  ASSUME NEW count, NEW said, NEW op, NEW code, Fails(op, code),
         Asked(ops, count, said), Knows(skill, count, said)
  PROVE  Asked(ops', count, said) /\ Knows(skill', count, said)
  <1>1. ops' \subseteq ops /\ skill' \in {Failed(code), skill}
    BY Zenon DEF Fails
  <1> QED
    BY <1>1, FailedKnows, Zenon DEF Asked

LEMMA GoesOnKeeps ==
  ASSUME NEW count, NEW said, NEW op \in ops, NEW value, GoesOn(op, value),
         Asked(ops, count, said)
  PROVE  Asked(ops', count, said)
  <1> DEFINE new == [op EXCEPT !.read = value]
  <1>1. /\ new = [n |-> new.n, tool |-> new.tool, args |-> new.args,
                  read |-> new.read]
        /\ new.tool = op.tool /\ new.args = op.args
    BY DEF Asked
  <1>2. \A x \in ops' : x \in ops \/ x = new
    BY Zenon DEF GoesOn
  <1> HIDE DEF new
  <1> QED
    BY <1>1, <1>2, Zenon DEF Asked

LEMMA CallKeeps ==
  ASSUME NEW tool, NEW args, NEW count, NEW said, Call(tool, args),
         Asked(ops, count, said), Proper(tool, args, count, said)
  PROVE  Asked(ops', count, said)
  <1> DEFINE new == [n |-> skill.calls + 1, tool |-> tool, args |-> args,
                     read |-> None]
  <1>1. /\ new = [n |-> new.n, tool |-> new.tool, args |-> new.args,
                  read |-> new.read]
        /\ new.tool = tool /\ new.args = args
    BY Zenon
  <1>2. \A x \in ops' : x \in ops \/ x = new
    BY Zenon DEF Call
  <1> HIDE DEF new
  <1> QED
    BY <1>1, <1>2, Zenon DEF Asked

LEMMA BeginKeeps ==
  ASSUME NEW tool, NEW args, NEW count, NEW said, Begin(tool, args),
         Asked(ops, count, said), Knows(skill, count, said),
         Proper(tool, args, count, said)
  PROVE  Asked(ops', count, said) /\ Knows(skill', count, said)
  <1>1. Asked(ops', count, said)
    BY CallKeeps, Zenon DEF Begin
  <1> DEFINE new == IF tool \in Mutations
                      THEN [tool |-> tool, args |-> args, retried |-> FALSE]
                      ELSE None
  <1>2. new # None =>
          /\ new = [tool |-> new.tool, args |-> new.args, retried |-> new.retried]
          /\ new.tool = tool /\ new.args = args
    BY Zenon
  <1>3. skill' = [skill EXCEPT !.call = skill.calls + 1, !.calls = @ + 1,
                               !.last = new]
    BY Zenon DEF Begin
  <1> HIDE DEF new
  <1>4. /\ skill' = [call |-> skill'.call, calls |-> skill'.calls,
                     list |-> skill'.list, target |-> skill'.target,
                     last |-> skill'.last]
        /\ skill'.target = skill.target /\ skill'.last = new
    BY <1>3, Zenon DEF Knows
  <1>5. Knows(skill', count, said)
    BY <1>2, <1>4, Zenon DEF Knows
  <1> QED
    BY <1>1, <1>5, Zenon

-----------------------------------------------------------------------------
(* Steps that leave the rows alone *)

LEMMA QuietKeeps ==
  ASSUME Inv, UNCHANGED <<jobs, records, approvals, seen>>, now' \in Nat,
         Asked(ops', Len(jobs), seen.said), Knows(skill', Len(jobs), seen.said)
  PROVE  Inv'
  <1>1. TypeOK'
    BY Zenon DEF Inv, TypeOK
  <1> QED
    BY <1>1, Zenon DEF Inv

LEMMA SubmitKeeps ==
  ASSUME Inv, NEW r \in Requests, NEW p \in Payloads, Submit(r, p)
  PROVE  Inv'
  <1> DEFINE args == [request |-> r, payload |-> p]
  <1>1. Proper("submit_task", args, Len(jobs), seen.said)
    BY Zenon DEF Proper
  <1>2. Begin("submit_task", args)
    BY Zenon DEF Submit
  <1> HIDE DEF args
  <1>3. Asked(ops', Len(jobs), seen.said) /\ Knows(skill', Len(jobs), seen.said)
    BY <1>1, <1>2, BeginKeeps, Zenon DEF Inv
  <1> QED
    BY <1>3, QuietKeeps, Zenon DEF Submit, Inv, TypeOK

LEMMA GetKeeps ==
  ASSUME Inv, NEW j \in DOMAIN jobs, GetTask(j) \/ GetResult(j)
  PROVE  Inv'
  <1> DEFINE args == [job |-> j]
  <1>1. j \in 1..Len(jobs)
    BY DEF Inv, TypeOK
  <1>2. PICK tool \in {"get_task", "get_task_result"} : Begin(tool, args)
    BY Zenon DEF GetTask, GetResult
  <1>3. Proper(tool, args, Len(jobs), seen.said)
    BY <1>1, Zenon DEF Proper
  <1> HIDE DEF args
  <1>4. Asked(ops', Len(jobs), seen.said) /\ Knows(skill', Len(jobs), seen.said)
    BY <1>2, <1>3, BeginKeeps, Zenon DEF Inv
  <1> QED
    BY <1>4, QuietKeeps, Zenon DEF GetTask, GetResult, Inv, TypeOK

LEMMA ListApprovalsKeeps ==
  ASSUME Inv, ListApprovals
  PROVE  Inv'
  <1> DEFINE args == [all |-> TRUE]
  <1>1. Proper("list_pending_approvals", args, Len(jobs), seen.said)
    BY Zenon DEF Proper
  <1>2. Begin("list_pending_approvals", args)
    BY Zenon DEF ListApprovals
  <1> HIDE DEF args
  <1>3. Asked(ops', Len(jobs), seen.said) /\ Knows(skill', Len(jobs), seen.said)
    BY <1>1, <1>2, BeginKeeps, Zenon DEF Inv
  <1> QED
    BY <1>3, QuietKeeps, Zenon DEF ListApprovals, Inv, TypeOK

\* The owner says a decision on a row they were shown, and only adds to what
\* they said.
LEMMA DecideKeeps ==
  ASSUME Inv, NEW ordinal, NEW d \in {"approve", "reject"}, Decide(ordinal, d)
  PROVE  Inv'
  <1> DEFINE a == skill.list.items[ordinal].approval
             said == seen.said \cup {<<a, d>>}
  <1>1. PICK item \in Planned(ordinal) :
          Begin("decide_approval",
                [approval |-> item.approval, decision |-> d,
                 revision |-> item.revision])
    BY Zenon DEF Decide
  <1> DEFINE args == [approval |-> item.approval, decision |-> d,
                      revision |-> item.revision]
  <1>2. item.approval = a
    BY Zenon DEF Planned
  <1>3. /\ args.decision \in {"approve", "reject"}
        /\ <<args.approval, args.decision>> \in said
    BY <1>2, Zenon
  <1>4. UNCHANGED <<now, jobs, records, approvals>>
          /\ seen' = [seen EXCEPT !.said = said] /\ Len(jobs) \in Nat
    BY DEF Decide, Inv, TypeOK
  <1>5. seen.said \subseteq said
    BY Zenon
  <1>6. Begin("decide_approval", args)
    BY <1>1, Zenon
  <1> HIDE DEF args, said
  <1>7. Proper("decide_approval", args, Len(jobs), said)
    BY <1>3, Zenon DEF Proper
  <1>8. Asked(ops, Len(jobs), said) /\ Knows(skill, Len(jobs), said)
    BY <1>4, <1>5, AskedKept, KnowsKept DEF Inv
  <1>9. Asked(ops', Len(jobs), said) /\ Knows(skill', Len(jobs), said)
    BY <1>6, <1>7, <1>8, BeginKeeps, Zenon
  <1>10. /\ seen' = [receipts |-> seen'.receipts, said |-> seen'.said,
                     cancels |-> seen'.cancels]
         /\ seen'.receipts = seen.receipts /\ seen'.cancels = seen.cancels
         /\ seen'.said = said
    BY <1>4, Zenon DEF Inv, TypeOK
  <1>11. TypeOK'
    BY <1>4, <1>10, Zenon DEF Inv, TypeOK
  <1>12. Taken(approvals, said)
    BY <1>5, Zenon DEF Inv, Taken
  <1> QED
    BY <1>4, <1>9, <1>10, <1>11, <1>12, Zenon DEF Inv

LEMMA CancelKeeps ==
  ASSUME Inv, Cancel
  PROVE  Inv'
  <1> DEFINE args == [job |-> skill.target.job, revision |-> skill.target.revision]
  <1>1. args.job \in 1..Len(jobs)
    BY Zenon DEF Cancel, Cancellable, Inv, Knows
  <1>2. Begin("cancel_task", args)
    BY Zenon DEF Cancel
  <1> HIDE DEF args
  <1>3. Proper("cancel_task", args, Len(jobs), seen.said)
    BY <1>1, Zenon DEF Proper
  <1>4. Asked(ops', Len(jobs), seen.said) /\ Knows(skill', Len(jobs), seen.said)
    BY <1>2, <1>3, BeginKeeps, Zenon DEF Inv
  <1> QED
    BY <1>4, QuietKeeps, Zenon DEF Cancel, Inv, TypeOK

\* A retry repeats the call as it was.
LEMMA RetryKeeps ==
  ASSUME Inv, Retry
  PROVE  Inv'
  <1> DEFINE old == skill.last
             last == [old EXCEPT !.retried = TRUE]
  <1>1. /\ skill.last # None /\ Call(skill.last.tool, skill.last.args)
        /\ skill' = [skill EXCEPT !.call = skill.calls + 1, !.calls = @ + 1,
                                  !.last = last]
        /\ UNCHANGED <<now, jobs, records, approvals, seen>>
    BY Zenon DEF Retry
  <1>2. /\ Proper(skill.last.tool, skill.last.args, Len(jobs), seen.said)
        /\ skill.last = [tool |-> skill.last.tool, args |-> skill.last.args,
                         retried |-> skill.last.retried]
    BY <1>1, Zenon DEF Inv, Knows
  <1>3. Asked(ops', Len(jobs), seen.said)
    BY <1>1, <1>2, CallKeeps, Zenon DEF Inv
  <1>4. /\ last = [tool |-> last.tool, args |-> last.args, retried |-> last.retried]
        /\ last.tool = old.tool /\ last.args = old.args
    <2>1. old = [tool |-> old.tool, args |-> old.args, retried |-> old.retried]
      BY <1>2, Zenon
    <2>2. last = [old EXCEPT !.retried = TRUE]
      BY Zenon
    <2> HIDE DEF old, last
    <2> QED
      BY <2>1, <2>2, Zenon
  <1> HIDE DEF last
  <1>5. /\ skill' = [call |-> skill'.call, calls |-> skill'.calls,
                     list |-> skill'.list, target |-> skill'.target,
                     last |-> skill'.last]
        /\ skill'.target = skill.target /\ skill'.last = last
    BY <1>1, Zenon DEF Inv, Knows
  <1>6. Knows(skill', Len(jobs), seen.said)
    BY <1>2, <1>4, <1>5, Zenon DEF Inv, Knows
  <1> QED
    BY <1>1, <1>3, <1>6, QuietKeeps, Zenon DEF Inv, TypeOK

LEMMA LostKeeps ==
  ASSUME Inv, Deadline \/ LoseAnswer
  PROVE  Inv'
  <1>1. PICK code : skill' = Failed(code)
    BY Zenon DEF Deadline, LoseAnswer
  <1>2. UNCHANGED <<now, jobs, records, approvals, ops, seen>>
    BY Zenon DEF Deadline, LoseAnswer
  <1>3. Knows(skill', Len(jobs), seen.said)
    BY <1>1, FailedKnows, Zenon DEF Inv
  <1> QED
    BY <1>2, <1>3, QuietKeeps, Zenon DEF Inv, TypeOK

LEMMA TickKeeps ==
  ASSUME Inv, Tick
  PROVE  Inv'
  <1>1. now' \in Nat /\ UNCHANGED <<jobs, records, approvals, ops, skill, seen>>
    BY DEF Tick, Inv, TypeOK
  <1> QED
    BY <1>1, QuietKeeps, Zenon DEF Inv

-----------------------------------------------------------------------------
(* Reads of the server *)

LEMMA ReadPolicyKeeps ==
  ASSUME Inv, NEW op \in ops, ReadPolicy(op)
  PROVE  Inv'
  <1>1. UNCHANGED <<now, jobs, records, approvals, seen>>
    BY Zenon DEF ReadPolicy
  <1>2. Asked(ops', Len(jobs), seen.said) /\ Knows(skill', Len(jobs), seen.said)
    <2>1. CASE GoesOn(op, "allowed") /\ UNCHANGED skill
      BY <2>1, GoesOnKeeps, Zenon DEF Inv
    <2>2. CASE Fails(op, "REPOSITORY_NOT_ALLOWED")
      BY <2>2, FailsKeeps, Zenon DEF Inv
    <2> QED
      BY <2>1, <2>2, Zenon DEF ReadPolicy
  <1> QED
    BY <1>1, <1>2, QuietKeeps, Zenon DEF Inv, TypeOK

LEMMA ReadTaskKeeps ==
  ASSUME Inv, NEW op \in ops, ReadTask(op)
  PROVE  Inv'
  <1> DEFINE j == op.args.job
             target == [job |-> j, status |-> jobs[j].status,
                        revision |-> jobs[j].revision]
             new == [Done EXCEPT !.target = target]
  <1>1. /\ op.tool = "get_task" /\ Answers(op, new)
        /\ UNCHANGED <<now, jobs, records, approvals, seen>>
    BY Zenon DEF ReadTask
  <1>2. j \in 1..Len(jobs) /\ target.job = j
    BY <1>1, Zenon DEF Inv, Asked, Proper
  <1>3. Knows(Done, Len(jobs), seen.said)
    BY DoneKnows, Zenon DEF Inv
  <1> HIDE DEF target, j
  <1>4. /\ new = [call |-> new.call, calls |-> new.calls, list |-> new.list,
                  target |-> new.target, last |-> new.last]
        /\ new.target = target /\ new.last = Done.last
    BY <1>3 DEF Knows
  <1> HIDE DEF new
  <1>5. Knows(new, Len(jobs), seen.said)
    BY <1>2, <1>3, <1>4, Zenon DEF Knows
  <1>6. Asked(ops', Len(jobs), seen.said) /\ Knows(skill', Len(jobs), seen.said)
    BY <1>1, <1>5, AnswersKeeps, Zenon DEF Inv
  <1> QED
    BY <1>1, <1>6, QuietKeeps, Zenon DEF Inv, TypeOK

LEMMA ReadApprovalsKeeps ==
  ASSUME Inv, NEW op \in ops, ReadApprovals(op)
  PROVE  Inv'
  <1> DEFINE list == [at |-> now, items |-> PendingList]
             new == [Done EXCEPT !.list = list]
  <1>1. Answers(op, new) /\ UNCHANGED <<now, jobs, records, approvals, seen>>
    BY Zenon DEF ReadApprovals
  <1>2. Knows(Done, Len(jobs), seen.said)
    BY DoneKnows, Zenon DEF Inv
  <1> HIDE DEF list
  <1>3. /\ new = [call |-> new.call, calls |-> new.calls, list |-> new.list,
                  target |-> new.target, last |-> new.last]
        /\ new.target = Done.target /\ new.last = Done.last
    BY <1>2 DEF Knows
  <1> HIDE DEF new
  <1>4. Knows(new, Len(jobs), seen.said)
    BY <1>2, <1>3, Zenon DEF Knows
  <1>5. Asked(ops', Len(jobs), seen.said) /\ Knows(skill', Len(jobs), seen.said)
    BY <1>1, <1>4, AnswersKeeps, Zenon DEF Inv
  <1> QED
    BY <1>1, <1>5, QuietKeeps, Zenon DEF Inv, TypeOK

LEMMA ReadBeforeResultKeeps ==
  ASSUME Inv, NEW op \in ops, ReadBeforeResult(op)
  PROVE  Inv'
  <1>1. UNCHANGED <<now, jobs, records, approvals, seen>>
    BY Zenon DEF ReadBeforeResult
  <1>2. Asked(ops', Len(jobs), seen.said) /\ Knows(skill', Len(jobs), seen.said)
    <2>1. CASE GoesOn(op, "terminal") /\ UNCHANGED skill
      BY <2>1, GoesOnKeeps, Zenon DEF Inv
    <2>2. CASE Fails(op, "JOB_NOT_MUTABLE")
      BY <2>2, FailsKeeps, Zenon DEF Inv
    <2> QED
      BY <2>1, <2>2, Zenon DEF ReadBeforeResult
  <1> QED
    BY <1>1, <1>2, QuietKeeps, Zenon DEF Inv, TypeOK

-----------------------------------------------------------------------------
(* Steps of the rows *)

\* A job goes on: it keeps what was submitted, and what was said of its
\* cancellation stays true.
LEMMA JobSet ==
  ASSUME Inv, NEW j \in 1..Len(jobs), NEW job \in Jobs,
         jobs' = [jobs EXCEPT ![j] = job],
         job.request = jobs[j].request, job.payload = jobs[j].payload,
         \A w : Fits(w, jobs[j].status) => Fits(w, job.status)
  PROVE  /\ jobs' \in Seq(Jobs) /\ Len(jobs') = Len(jobs) /\ jobs'[j] = job
         /\ Booked(jobs', records, seen.receipts) /\ Told(jobs', seen.cancels)
  <1>1. /\ jobs' \in Seq(Jobs) /\ Len(jobs') = Len(jobs)
        /\ \A i \in 1..Len(jobs) : jobs'[i] = IF i = j THEN job ELSE jobs[i]
    BY DEF Inv, TypeOK
  <1>2. \A i \in 1..Len(jobs) : /\ jobs'[i].request = jobs[i].request
                                /\ jobs'[i].payload = jobs[i].payload
    BY <1>1, Zenon
  <1>3. \A i \in 1..Len(jobs) : \A w :
          Fits(w, jobs[i].status) => Fits(w, jobs'[i].status)
    BY <1>1, Zenon
  <1>4. Booked(jobs', records, seen.receipts)
    BY <1>1, <1>2 DEF Inv, Booked
  <1>5. Told(jobs', seen.cancels)
    BY <1>1, <1>3, Zenon DEF Inv, Told
  <1> QED
    BY <1>1, <1>4, <1>5, Zenon

LEMMA Moved ==
  ASSUME Inv, NEW j \in 1..Len(jobs), NEW status \in Statuses
  PROVE  /\ Move(j, status) \in Jobs
         /\ Move(j, status).request = jobs[j].request
         /\ Move(j, status).payload = jobs[j].payload
         /\ Move(j, status).status = status
  <1> DEFINE old == jobs[j]
             new == Move(j, status)
  <1>1. old \in Jobs
    BY DEF Inv, TypeOK
  <1> DEFINE r == old.revision + 1
  <1>2. new = [old EXCEPT !.status = status, !.revision = r]
    BY Zenon DEF Move
  <1> HIDE DEF old, new
  <1>r. r \in Nat
    BY <1>1 DEF Jobs
  <1> HIDE DEF r
  <1>3. /\ new \in Jobs /\ new.request = old.request /\ new.payload = old.payload
        /\ new.status = status
    BY <1>1, <1>2, <1>r, Zenon DEF Jobs
  <1> QED
    BY <1>3, Zenon DEF old, new

\* A settled job also has its summary and its unread mark.
LEMMA Settled ==
  ASSUME NEW job \in Jobs, NEW summary \in BOOLEAN
  PROVE  /\ [job EXCEPT !.summary = summary, !.unread = TRUE] \in Jobs
         /\ [job EXCEPT !.summary = summary, !.unread = TRUE].request = job.request
         /\ [job EXCEPT !.summary = summary, !.unread = TRUE].payload = job.payload
         /\ [job EXCEPT !.summary = summary, !.unread = TRUE].status = job.status
         /\ [job EXCEPT !.unread = TRUE] \in Jobs
         /\ [job EXCEPT !.unread = TRUE].request = job.request
         /\ [job EXCEPT !.unread = TRUE].payload = job.payload
         /\ [job EXCEPT !.unread = TRUE].status = job.status
  BY Zenon DEF Jobs

\* What the server answers, and what that tells the owner.
LEMMA ToldAdded ==
  ASSUME Inv, NEW table, NEW j \in 1..Len(table), NEW s \in Terminal \cup {"cancelling"},
         table[j].status = s, Told(table, seen.cancels)
  PROVE  Told(table, seen.cancels \cup {<<j, Presented(s)>>})
  <1>1. Fits(Presented(s), s)
    BY Zenon DEF Fits, Presented, Terminal
  <1> DEFINE w == Presented(s)
  <1>2. <<j, w>>[1] = j /\ <<j, w>>[2] = w
    BY Zenon
  <1> HIDE DEF w
  <1>3. Fits(w, s)
    BY <1>1, Zenon DEF w
  <1>4. Told(table, seen.cancels \cup {<<j, w>>})
    BY <1>2, <1>3, Zenon DEF Told
  <1> QED
    BY <1>4, Zenon DEF w

\* A step of the rows that leaves the submissions and approvals alone.
LEMMA JobsKeeps ==
  ASSUME Inv, UNCHANGED <<now, records, approvals>>,
         jobs' \in Seq(Jobs), Len(jobs') = Len(jobs),
         Booked(jobs', records, seen.receipts),
         NEW cancels, seen' = [seen EXCEPT !.cancels = cancels],
         Told(jobs', cancels),
         Asked(ops', Len(jobs), seen.said), Knows(skill', Len(jobs), seen.said)
  PROVE  Inv'
  <1>1. /\ seen' = [receipts |-> seen'.receipts, said |-> seen'.said,
                    cancels |-> seen'.cancels]
        /\ seen'.receipts = seen.receipts /\ seen'.cancels = cancels
        /\ seen'.said = seen.said
    BY Zenon DEF Inv, TypeOK
  <1>2. TypeOK'
    BY <1>1, Zenon DEF Inv, TypeOK
  <1> QED
    BY <1>1, <1>2, Zenon DEF Inv

LEMMA SeenSame ==
  ASSUME TypeOK
  PROVE  seen = [seen EXCEPT !.cancels = seen.cancels]
  BY Zenon DEF TypeOK

LEMMA ReadBeforeCancelKeeps ==
  ASSUME Inv, NEW op \in ops, ReadBeforeCancel(op)
  PROVE  Inv'
  <1> DEFINE j == op.args.job
             status == jobs[j].status
  <1>1. /\ op.tool = "cancel_task" /\ UNCHANGED <<now, jobs, records, approvals>>
        /\ jobs \in Seq(Jobs)
    BY Zenon DEF ReadBeforeCancel, Inv, TypeOK
  <1>2. j \in 1..Len(jobs)
    BY <1>1, Zenon DEF Inv, Asked, Proper
  <1>3. CASE status \in {"cancelling", "cancelled"}
    <2> DEFINE more == seen.cancels \cup {<<j, Presented(status)>>}
    <2>1. /\ Answers(op, Done)
          /\ seen' = IF Heard(op) THEN [seen EXCEPT !.cancels = more] ELSE seen
      BY <1>3, Zenon DEF ReadBeforeCancel, Terminal
    <2>2. Asked(ops', Len(jobs), seen.said) /\ Knows(skill', Len(jobs), seen.said)
      BY <2>1, AnswersKeeps, DoneKnows, Zenon DEF Inv
    <2>3. Told(jobs, more)
      BY <1>2, <1>3, ToldAdded, Zenon DEF Inv, Terminal
    <2> HIDE DEF more
    <2>4. CASE seen' = seen
      BY <1>1, <2>2, <2>4, QuietKeeps, Zenon DEF Inv, TypeOK
    <2>5. CASE seen' = [seen EXCEPT !.cancels = more]
      BY <1>1, <2>2, <2>3, <2>5, JobsKeeps, Zenon DEF Inv
    <2> QED
      BY <2>1, <2>4, <2>5, Zenon
  <1>4. CASE status \in Terminal \ {"cancelled"}
    <2>1. Fails(op, "JOB_NOT_MUTABLE") /\ UNCHANGED seen
      BY <1>4, Zenon DEF ReadBeforeCancel, Terminal
    <2>2. Asked(ops', Len(jobs), seen.said) /\ Knows(skill', Len(jobs), seen.said)
      BY <2>1, FailsKeeps, Zenon DEF Inv
    <2> QED
      BY <1>1, <2>1, <2>2, QuietKeeps, Zenon DEF Inv, TypeOK
  <1>5. CASE status \notin Terminal \cup {"cancelling"}
    <2>1. GoesOn(op, "mutable") /\ UNCHANGED <<skill, seen>>
      BY <1>5, Zenon DEF ReadBeforeCancel, Terminal
    <2>2. Asked(ops', Len(jobs), seen.said) /\ Knows(skill', Len(jobs), seen.said)
      BY <2>1, GoesOnKeeps, Zenon DEF Inv
    <2> QED
      BY <1>1, <2>1, <2>2, QuietKeeps, Zenon DEF Inv, TypeOK
  <1> QED
    BY <1>3, <1>4, <1>5, Zenon

LEMMA CancelAtomicallyKeeps ==
  ASSUME Inv, NEW op \in ops, CancelAtomically(op)
  PROVE  Inv'
  <1> DEFINE j == op.args.job
             status == jobs[j].status
             more(s) == seen.cancels \cup {<<j, Presented(s)>>}
             tell(s) == /\ Answers(op, Done)
                        /\ seen' = IF Heard(op)
                                     THEN [seen EXCEPT !.cancels = more(s)]
                                     ELSE seen
  <1>1. /\ op.tool = "cancel_task" /\ UNCHANGED <<now, records, approvals>>
        /\ jobs \in Seq(Jobs)
    BY Zenon DEF CancelAtomically, Inv, TypeOK
  <1>2. j \in 1..Len(jobs)
    BY <1>1, Zenon DEF Inv, Asked, Proper
  <1>3. status \in Statuses
    <2>1. jobs[j] \in Jobs
      BY <1>1, <1>2
    <2> QED
      BY <2>1, Zenon DEF Jobs
  <1>4. ASSUME NEW s \in Terminal \cup {"cancelling"}, tell(s),
               jobs' \in Seq(Jobs), Len(jobs') = Len(jobs), jobs'[j].status = s,
               Booked(jobs', records, seen.receipts), Told(jobs', seen.cancels)
        PROVE  Inv'
    <2>1. Asked(ops', Len(jobs), seen.said) /\ Knows(skill', Len(jobs), seen.said)
      BY <1>4, AnswersKeeps, DoneKnows, Zenon DEF Inv
    <2>2. Told(jobs', more(s))
      BY <1>2, <1>4, ToldAdded, Zenon
    <2>3. \E c \in {more(s), seen.cancels} : seen' = [seen EXCEPT !.cancels = c]
      BY <1>4, SeenSame, Zenon DEF Inv
    <2> HIDE DEF more, tell
    <2> QED
      BY <1>1, <1>4, <2>1, <2>2, <2>3, JobsKeeps, Zenon
  <1>5. CASE status \in Terminal \cup {"cancelling"}
    <2>1. tell(status) /\ UNCHANGED jobs
      BY <1>5, Zenon DEF CancelAtomically
    <2> QED
      BY <1>1, <1>4, <1>5, <2>1, Zenon DEF Inv
  <1>6. CASE /\ status \notin Terminal \cup {"cancelling"}
             /\ jobs[j].revision # op.args.revision
    <2>1. Fails(op, "REVISION_CONFLICT") /\ UNCHANGED <<jobs, seen>>
      BY <1>6, Zenon DEF CancelAtomically
    <2>2. Asked(ops', Len(jobs), seen.said) /\ Knows(skill', Len(jobs), seen.said)
      BY <2>1, FailsKeeps, Zenon DEF Inv
    <2> QED
      BY <1>1, <2>1, <2>2, QuietKeeps, Zenon DEF Inv, TypeOK
  <1>7. CASE /\ status \notin Terminal \cup {"cancelling"}
             /\ jobs[j].revision = op.args.revision /\ status = "queued"
    <2> DEFINE m == Move(j, "cancelled")
               new == [m EXCEPT !.unread = TRUE]
    <2>1. jobs' = [jobs EXCEPT ![j] = new] /\ tell("cancelled")
      BY <1>7, Zenon DEF CancelAtomically
    <2>2. /\ m \in Jobs /\ m.request = jobs[j].request
          /\ m.payload = jobs[j].payload /\ m.status = "cancelled"
      BY <1>2, Moved, Zenon DEF Statuses, Terminal
    <2> HIDE DEF m
    <2>3. /\ new \in Jobs /\ new.request = jobs[j].request
          /\ new.payload = jobs[j].payload /\ new.status = "cancelled"
      BY <2>2, Settled, Zenon
    <2>4. \A w : Fits(w, jobs[j].status) => Fits(w, new.status)
      BY <1>7, Zenon DEF Fits
    <2> HIDE DEF new
    <2>5. /\ jobs' \in Seq(Jobs) /\ Len(jobs') = Len(jobs) /\ jobs'[j] = new
          /\ Booked(jobs', records, seen.receipts) /\ Told(jobs', seen.cancels)
      BY <1>2, <2>1, <2>3, <2>4, JobSet, Zenon
    <2> QED
      BY <1>4, <2>1, <2>3, <2>5, Zenon DEF Terminal
  <1>8. CASE /\ status \notin Terminal \cup {"cancelling"}
             /\ jobs[j].revision = op.args.revision /\ status # "queued"
    <2> DEFINE new == Move(j, "cancelling")
    <2>1. jobs' = [jobs EXCEPT ![j] = new] /\ tell("cancelling")
      BY <1>8, Zenon DEF CancelAtomically
    <2>2. /\ new \in Jobs /\ new.request = jobs[j].request
          /\ new.payload = jobs[j].payload /\ new.status = "cancelling"
      BY <1>2, Moved, Zenon DEF Statuses
    <2>3. \A w : Fits(w, jobs[j].status) => Fits(w, new.status)
      BY <1>8, Zenon DEF Fits, Terminal
    <2> HIDE DEF new
    <2>4. /\ jobs' \in Seq(Jobs) /\ Len(jobs') = Len(jobs) /\ jobs'[j] = new
          /\ Booked(jobs', records, seen.receipts) /\ Told(jobs', seen.cancels)
      BY <1>2, <2>1, <2>2, <2>3, JobSet, Zenon
    <2> QED
      BY <1>4, <2>1, <2>2, <2>4, Zenon
  <1> QED
    BY <1>5, <1>6, <1>7, <1>8, Zenon

LEMMA AcknowledgeResultKeeps ==
  ASSUME Inv, NEW op \in ops, AcknowledgeResult(op)
  PROVE  Inv'
  <1> DEFINE j == op.args.job
             old == jobs[j]
             unread == IF old.read THEN old.unread ELSE FALSE
             new == [old EXCEPT !.unread = unread, !.read = TRUE]
  <1>1. /\ op.tool = "get_task_result" /\ UNCHANGED <<now, records, approvals, seen>>
        /\ jobs \in Seq(Jobs)
    BY Zenon DEF AcknowledgeResult, Inv, TypeOK
  <1>2. j \in 1..Len(jobs)
    BY <1>1, Zenon DEF Inv, Asked, Proper
  <1>3. CASE jobs[j].summary
    <2>1. jobs' = [jobs EXCEPT ![j] = new] /\ Answers(op, Done)
      BY <1>3, Zenon DEF AcknowledgeResult
    <2>2. Asked(ops', Len(jobs), seen.said) /\ Knows(skill', Len(jobs), seen.said)
      BY <2>1, AnswersKeeps, DoneKnows, Zenon DEF Inv
    <2>3. old \in Jobs
      BY <1>1, <1>2
    <2> HIDE DEF old
    <2>4. unread \in BOOLEAN
      BY <2>3, Zenon DEF Jobs
    <2> HIDE DEF unread
    <2>5. /\ new \in Jobs /\ new.request = old.request
          /\ new.payload = old.payload /\ new.status = old.status
      BY <2>3, <2>4, Zenon DEF Jobs
    <2> HIDE DEF new
    <2>6. /\ jobs' \in Seq(Jobs) /\ Len(jobs') = Len(jobs)
          /\ Booked(jobs', records, seen.receipts) /\ Told(jobs', seen.cancels)
      BY <1>2, <2>1, <2>5, JobSet, Zenon DEF old
    <2>7. seen' = [seen EXCEPT !.cancels = seen.cancels]
      BY <1>1, SeenSame, Zenon DEF Inv
    <2> QED
      BY <1>1, <2>2, <2>6, <2>7, JobsKeeps, Zenon
  <1>4. CASE ~jobs[j].summary
    <2>1. Fails(op, "JOB_NOT_FOUND") /\ UNCHANGED jobs
      BY <1>4, Zenon DEF AcknowledgeResult
    <2>2. Asked(ops', Len(jobs), seen.said) /\ Knows(skill', Len(jobs), seen.said)
      BY <2>1, FailsKeeps, Zenon DEF Inv
    <2> QED
      BY <1>1, <2>1, <2>2, QuietKeeps, Zenon DEF Inv, TypeOK
  <1> QED
    BY <1>3, <1>4, Zenon

\* createIdempotent: the record, the job and the receipt are made together, or
\* an earlier record is repeated.
LEMMA CreateIdempotentKeeps ==
  ASSUME Inv, NEW op \in ops, CreateIdempotent(op)
  PROVE  Inv'
  <1> DEFINE r == op.args.request
             p == op.args.payload
             slip(j) == <<r, p, j>>
             receipt(j) == /\ Answers(op, Done)
                           /\ seen' = IF Heard(op)
                                THEN [seen EXCEPT !.receipts = @ \cup {slip(j)}]
                                ELSE seen
  <1>1. op.tool = "submit_task" /\ UNCHANGED <<now, approvals>>
    BY Zenon DEF CreateIdempotent
  <1>2. r \in Requests /\ p \in Payloads
    BY <1>1, Zenon DEF Inv, Asked, Proper
  <1>3. /\ jobs \in Seq(Jobs) /\ records \in [Requests -> Records \cup {None}]
        /\ Len(jobs) \in Nat /\ Booked(jobs, records, seen.receipts)
        /\ seen = [receipts |-> seen.receipts, said |-> seen.said,
                   cancels |-> seen.cancels]
    BY DEF Inv, TypeOK
  <1>4. ASSUME NEW j, receipt(j), jobs' \in Seq(Jobs), Len(jobs) <= Len(jobs'),
               records' \in [Requests -> Records \cup {None}],
               Booked(jobs', records', seen.receipts), Told(jobs', seen.cancels),
               records'[r] # None, records'[r].payload = p, records'[r].job = j
        PROVE  Inv'
    <2>1. Asked(ops', Len(jobs), seen.said) /\ Knows(skill', Len(jobs), seen.said)
      BY <1>4, AnswersKeeps, DoneKnows, Zenon DEF Inv
    <2>2. Asked(ops', Len(jobs'), seen.said) /\ Knows(skill', Len(jobs'), seen.said)
      <3>1. Len(jobs') \in Nat
        BY <1>4
      <3> QED
        BY <1>3, <1>4, <2>1, <3>1, AskedKept, KnowsKept, Zenon
    <2>3. /\ seen' = [receipts |-> seen'.receipts, said |-> seen'.said,
                      cancels |-> seen'.cancels]
          /\ seen'.said = seen.said /\ seen'.cancels = seen.cancels
          /\ seen'.receipts \subseteq seen.receipts \cup {slip(j)}
      BY <1>3, <1>4, Zenon
    <2>4. slip(j)[1] = r /\ slip(j) = <<slip(j)[1], p, j>>
      BY Zenon
    <2>5. Booked(jobs', records', seen'.receipts)
      <3>1. \A x \in seen'.receipts : x \in seen.receipts \/ x = slip(j)
        BY <2>3, Zenon
      <3> HIDE DEF slip
      <3> QED
        BY <1>2, <1>4, <2>4, <3>1 DEF Booked
    <2>6. TypeOK'
      BY <1>1, <1>4, <2>3, Zenon DEF Inv, TypeOK
    <2> QED
      BY <1>1, <1>4, <2>2, <2>3, <2>5, <2>6, Zenon DEF Inv
  <1>5. CASE records[r] = None
    <2> DEFINE i == Len(jobs) + 1
               job == NewJob(r, p)
               record == [payload |-> p, job |-> i]
    <2>1. /\ jobs' = Append(jobs, job) /\ receipt(i)
          /\ records' = [records EXCEPT ![r] = record]
      BY <1>5, Zenon DEF CreateIdempotent, Existing
    <2>2. job \in Jobs /\ job.request = r /\ job.payload = p
      BY <1>2, Zenon DEF NewJob, Jobs, Statuses
    <2>3. /\ record \in Records /\ record # None
          /\ record.payload = p /\ record.job = i
      BY <1>2, <1>3, ChannelAssumption DEF Records
    <2> HIDE DEF job, record, receipt
    <2>4. /\ jobs' \in Seq(Jobs) /\ Len(jobs') = i /\ jobs'[i] = job
          /\ \A k \in 1..Len(jobs) : jobs'[k] = jobs[k]
      BY <1>3, <2>1, <2>2, SMTT(30)
    <2>5. /\ 1..Len(jobs) \subseteq 1..Len(jobs') /\ i \in 1..Len(jobs')
          /\ \A k \in 1..Len(jobs') : k \in 1..Len(jobs) \/ k = i
          /\ Len(jobs) <= Len(jobs')
      BY <1>3, <2>4, SMTT(30)
    <2>6. /\ records' \in [Requests -> Records \cup {None}]
          /\ \A q \in Requests : records'[q] = IF q = r THEN record ELSE records[q]
      BY <1>2, <1>3, <2>1, <2>3, Zenon
    <2>7. Booked(jobs', records', seen.receipts)
      <3> HIDE DEF r, p, i
      <3>1. ASSUME NEW q \in Requests, records'[q] # None
            PROVE  /\ records'[q].job \in 1..Len(jobs')
                   /\ jobs'[records'[q].job].request = q
                   /\ jobs'[records'[q].job].payload = records'[q].payload
        <4>1. CASE q = r
          BY <1>2, <2>2, <2>3, <2>4, <2>5, <2>6, <4>1, ZenonT(30)
        <4>2. CASE q # r
          <5>1. records'[q] = records[q]
            BY <2>6, <4>2, Zenon
          <5>2. records[q].job \in 1..Len(jobs)
            BY <1>3, <3>1, <5>1, Zenon DEF Booked
          <5>3. /\ jobs[records[q].job].request = q
                /\ jobs[records[q].job].payload = records[q].payload
            BY <1>3, <3>1, <5>1, Zenon DEF Booked
          <5> QED
            BY <2>4, <2>5, <5>1, <5>2, <5>3, Zenon
        <4> QED
          BY <4>1, <4>2, Zenon
      <3>2. ASSUME NEW k \in 1..Len(jobs'), jobs'[k].request # None
            PROVE  /\ jobs'[k].request \in Requests
                   /\ records'[jobs'[k].request] # None
                   /\ records'[jobs'[k].request].job = k
        <4>1. CASE k = i
          BY <1>2, <2>2, <2>3, <2>4, <2>6, <4>1, Zenon
        <4>2. CASE k \in 1..Len(jobs)
          <5>1. jobs'[k] = jobs[k]
            BY <2>4, <4>2, Zenon
          <5>2. /\ jobs[k].request \in Requests
                /\ records[jobs[k].request] # None
                /\ records[jobs[k].request].job = k
            BY <1>3, <3>2, <4>2, <5>1, Zenon DEF Booked
          <5> QED
            BY <1>5, <2>6, <5>1, <5>2, Zenon
        <4> QED
          BY <2>5, <4>1, <4>2, Zenon
      <3>3. ASSUME NEW x \in seen.receipts
            PROVE  /\ x[1] \in Requests /\ records'[x[1]] # None
                   /\ x = <<x[1], records'[x[1]].payload, records'[x[1]].job>>
        <4>1. /\ x[1] \in Requests /\ records[x[1]] # None
              /\ x = <<x[1], records[x[1]].payload, records[x[1]].job>>
          BY <1>3, Zenon DEF Booked
        <4>2. records'[x[1]] = records[x[1]]
          BY <1>5, <2>6, <4>1, Zenon
        <4> QED
          BY <4>1, <4>2, Zenon
      <3> QED
        BY <3>1, <3>2, <3>3, Zenon DEF Booked
    <2>8. Told(jobs', seen.cancels)
      BY <2>4, <2>5, Zenon DEF Inv, Told
    <2> QED
      BY <1>2, <1>4, <2>1, <2>3, <2>4, <2>5, <2>6, <2>7, <2>8, Zenon
  <1>6. CASE records[r] # None /\ records[r].payload = p
    <2>1. receipt(records[r].job) /\ UNCHANGED <<jobs, records>>
      BY <1>6, Zenon DEF CreateIdempotent, Existing
    <2> HIDE DEF receipt
    <2> QED
      BY <1>3, <1>4, <1>6, <2>1 DEF Inv
  <1>7. CASE records[r] # None /\ records[r].payload # p
    <2>1. Fails(op, "IDEMPOTENCY_CONFLICT") /\ UNCHANGED <<jobs, records, seen>>
      BY <1>7, Zenon DEF CreateIdempotent, Existing
    <2>2. Asked(ops', Len(jobs), seen.said) /\ Knows(skill', Len(jobs), seen.said)
      BY <2>1, FailsKeeps, Zenon DEF Inv
    <2> QED
      BY <1>1, <2>1, <2>2, QuietKeeps, Zenon DEF Inv, TypeOK
  <1> QED
    BY <1>5, <1>6, <1>7, Zenon

\* A step of the approvals that leaves the jobs and the owner alone.
LEMMA DecideApprovalKeeps ==
  ASSUME Inv, NEW op \in ops, DecideApproval(op)
  PROVE  Inv'
  <1> DEFINE a == op.args.approval
             d == op.args.decision
             outcome == Outcome(a, d, op.args.revision)
  <1>1. op.tool = "decide_approval" /\ UNCHANGED <<now, jobs, records, seen>>
    BY Zenon DEF DecideApproval
  <1>2. d \in {"approve", "reject"} /\ <<a, d>> \in seen.said
    BY <1>1, Zenon DEF Inv, Asked, Proper
  <1>3. approvals \in Seq(Approvals) /\ Taken(approvals, seen.said)
    BY Zenon DEF Inv, TypeOK
  <1>4. Asked(ops', Len(jobs), seen.said) /\ Knows(skill', Len(jobs), seen.said)
    <2>1. Answers(op, Done) \/ Fails(op, outcome)
      BY Zenon DEF DecideApproval
    <2> HIDE DEF outcome
    <2> QED
      BY <2>1, AnswersKeeps, FailsKeeps, DoneKnows, Zenon DEF Inv
  <1>5. approvals' \in Seq(Approvals) /\ Taken(approvals', seen.said)
    <2>1. CASE approvals' = approvals
      BY <1>3, <2>1, Zenon
    <2>2. ASSUME NEW v \in {"approve", "reject"}, NEW l \in BOOLEAN,
                 a \in 1..Len(approvals), <<a, v>> \in seen.said \/ l,
                 approvals' = [approvals EXCEPT ![a] =
                                 [approvals[a] EXCEPT !.decision = v, !.lapsed = l]]
          PROVE  approvals' \in Seq(Approvals) /\ Taken(approvals', seen.said)
      <3> DEFINE old == approvals[a]
                 new == [old EXCEPT !.decision = v, !.lapsed = l]
      <3>1. old \in Approvals /\ approvals' = [approvals EXCEPT ![a] = new]
        BY <1>3, <2>2
      <3> HIDE DEF old
      <3>2. new \in Approvals /\ new.decision = v /\ new.lapsed = l
        BY <3>1, <2>2, Zenon DEF Approvals
      <3> HIDE DEF new
      <3>3. /\ approvals' \in Seq(Approvals) /\ Len(approvals') = Len(approvals)
            /\ \A k \in 1..Len(approvals) :
                 approvals'[k] = IF k = a THEN new ELSE approvals[k]
        <4>1. a \in 1..Len(approvals)
          BY <2>2, Zenon
        <4> QED
          BY <1>3, <3>1, <3>2, <4>1
      <3> QED
        BY <1>3, <2>2, <3>2, <3>3 DEF Taken
    <2>3. CASE a \notin 1..Len(approvals)
      <3>1. approvals' = approvals
        BY <1>3, <2>3, SMTT(30) DEF DecideApproval
      <3> QED
        BY <2>1, <3>1, Zenon
    <2>4. CASE a \in 1..Len(approvals)
      <3>1. approvals[a] \in Approvals
        BY <1>3, <2>4, SMTT(30)
      <3>2. CASE approvals' = [approvals EXCEPT ![a].decision = d]
        <4> DEFINE old == approvals[a]
                   l == old.lapsed
        <4>1. l \in BOOLEAN
          BY <3>1, Zenon DEF Approvals
        <4>2. [old EXCEPT !.decision = d] =
                [old EXCEPT !.decision = d, !.lapsed = l]
          <5> HIDE DEF old
          <5>1. old \in Approvals
            BY <3>1, Zenon DEF old
          <5> QED
            BY <5>1, Zenon DEF Approvals
        <4>3. approvals' = [approvals EXCEPT ![a] =
                              [old EXCEPT !.decision = d, !.lapsed = l]]
          BY <3>2, <4>2, Zenon
        <4> QED
          BY <1>2, <2>2, <2>4, <4>1, <4>3, Zenon
      <3>3. CASE approvals' =
                   [approvals EXCEPT ![a].decision = "reject", ![a].lapsed = TRUE]
        BY <1>3, <2>2, <2>4, <3>3, Zenon
      <3>4. \/ approvals' = approvals
            \/ approvals' = [approvals EXCEPT ![a].decision = d]
            \/ approvals' =
                 [approvals EXCEPT ![a].decision = "reject", ![a].lapsed = TRUE]
        BY Zenon DEF DecideApproval
      <3> QED
        BY <2>1, <3>2, <3>3, <3>4, Zenon
    <2> QED
      BY <2>3, <2>4, Zenon
  <1>6. TypeOK'
    BY <1>1, <1>5, Zenon DEF Inv, TypeOK
  <1> QED
    BY <1>1, <1>4, <1>5, <1>6, Zenon DEF Inv

-----------------------------------------------------------------------------
(* The connector's work *)

LEMMA WorksKeeps ==
  ASSUME Inv, NEW j \in DOMAIN jobs, Works(j)
  PROVE  Inv'
  <1>1. j \in 1..Len(jobs) /\ jobs \in Seq(Jobs) /\ jobs[j] \in Jobs
    BY DEF Inv, TypeOK
  <1>2. Progress(j) /\ UNCHANGED <<now, records, ops, skill, seen>>
    BY Zenon DEF Works
  <1>3. ASSUME NEW job \in Jobs, jobs' = [jobs EXCEPT ![j] = job],
               job.request = jobs[j].request, job.payload = jobs[j].payload,
               \A w : Fits(w, jobs[j].status) => Fits(w, job.status),
               approvals' \in Seq(Approvals), Taken(approvals', seen.said)
        PROVE  Inv'
    <2>1. /\ jobs' \in Seq(Jobs) /\ Len(jobs') = Len(jobs)
          /\ Booked(jobs', records, seen.receipts) /\ Told(jobs', seen.cancels)
      BY <1>1, <1>3, JobSet, Zenon
    <2>2. TypeOK'
      BY <1>2, <1>3, <2>1, Zenon DEF Inv, TypeOK
    <2> QED
      BY <1>2, <1>3, <2>1, <2>2, Zenon DEF Inv
  <1>4. ASSUME NEW s \in Statuses, jobs' = [jobs EXCEPT ![j] = Move(j, s)],
               \A w : Fits(w, jobs[j].status) => Fits(w, s),
               approvals' \in Seq(Approvals), Taken(approvals', seen.said)
        PROVE  Inv'
    <2> DEFINE job == Move(j, s)
    <2>1. /\ job \in Jobs /\ job.status = s
          /\ job.request = jobs[j].request /\ job.payload = jobs[j].payload
      BY <1>1, Moved, Zenon
    <2> HIDE DEF job
    <2>2. jobs' = [jobs EXCEPT ![j] = job]
      BY <1>4, Zenon DEF job
    <2> QED
      BY <1>3, <1>4, <2>1, <2>2, Zenon
  <1>5. ASSUME NEW s \in Statuses, NEW summary \in BOOLEAN,
               jobs' = [jobs EXCEPT ![j] = [Move(j, s) EXCEPT !.summary = summary,
                                                              !.unread = TRUE]],
               \A w : Fits(w, jobs[j].status) => Fits(w, s), UNCHANGED approvals
        PROVE  Inv'
    <2> DEFINE old == Move(j, s)
               job == [old EXCEPT !.summary = summary, !.unread = TRUE]
    <2>1. /\ old \in Jobs /\ old.status = s
          /\ old.request = jobs[j].request /\ old.payload = jobs[j].payload
      BY <1>1, Moved, Zenon
    <2>2. jobs' = [jobs EXCEPT ![j] = job]
      BY <1>5, Zenon
    <2> HIDE DEF old
    <2>3. /\ job \in Jobs /\ job.status = old.status
          /\ job.request = old.request /\ job.payload = old.payload
      BY <2>1, Settled, Zenon
    <2> HIDE DEF job
    <2>4. approvals' \in Seq(Approvals) /\ Taken(approvals', seen.said)
      BY <1>5, Zenon DEF Inv, TypeOK
    <2>5. \A w : Fits(w, jobs[j].status) => Fits(w, job.status)
      BY <1>5, <2>1, <2>3, Zenon
    <2> QED
      BY <1>3, <2>1, <2>2, <2>3, <2>4, <2>5, Zenon
  <1>6. approvals \in Seq(Approvals) /\ Taken(approvals, seen.said)
    BY Zenon DEF Inv, TypeOK
  <1>7. CASE /\ jobs[j].status \in {"queued", "waiting_approval"}
             /\ jobs' = [jobs EXCEPT ![j] = Move(j, "running")]
             /\ UNCHANGED approvals
    <2>1. \A w : Fits(w, jobs[j].status) => Fits(w, "running")
      BY <1>7, Zenon DEF Fits, Terminal
    <2>2. "running" \in Statuses
      BY Zenon DEF Statuses
    <2> QED
      BY <1>4, <1>6, <1>7, <2>1, <2>2, Zenon
  <1>8. CASE /\ jobs[j].status = "running"
             /\ jobs' = [jobs EXCEPT ![j] = Move(j, "waiting_approval")]
             /\ approvals' = Append(approvals,
                  [job |-> j, revision |-> jobs[j].revision + 1, decision |-> "none",
                   expires |-> now + Lifetime, lapsed |-> FALSE])
    <2> DEFINE row == [job |-> j, revision |-> jobs[j].revision + 1,
                       decision |-> "none", expires |-> now + Lifetime,
                       lapsed |-> FALSE]
    <2>1. \A w : Fits(w, jobs[j].status) => Fits(w, "waiting_approval")
      BY <1>8, Zenon DEF Fits, Terminal
    <2>2. "waiting_approval" \in Statuses
      BY Zenon DEF Statuses
    <2>3. jobs[j].revision + 1 \in Nat /\ now + Lifetime \in Nat /\ j \in Nat
      BY <1>1, ChannelAssumption, SMTT(30) DEF Inv, TypeOK, Jobs
    <2>4. row \in Approvals /\ row.decision = "none"
      BY <2>3, Zenon DEF Approvals
    <2>5. approvals' = Append(approvals, row)
      BY <1>8, Zenon
    <2> HIDE DEF row
    <2>6. /\ approvals' \in Seq(Approvals) /\ Len(approvals') = Len(approvals) + 1
          /\ \A k \in 1..Len(approvals') :
               \/ k \in 1..Len(approvals) /\ approvals'[k] = approvals[k]
               \/ approvals'[k] = row
      BY <1>6, <2>4, <2>5, SMTT(30)
    <2>7. Taken(approvals', seen.said)
      BY <1>6, <2>4, <2>6, Zenon DEF Taken
    <2> QED
      BY <1>4, <1>8, <2>1, <2>2, <2>6, <2>7, Zenon
  <1>9. ASSUME NEW s \in {"failed", "succeeded", "cancelled"},
               NEW summary \in BOOLEAN,
               jobs[j].status \in {"running", "waiting_approval", "cancelling"},
               jobs' = [jobs EXCEPT ![j] = [Move(j, s) EXCEPT !.summary = summary,
                                                              !.unread = TRUE]],
               UNCHANGED approvals
        PROVE  Inv'
    <2>1. \A w : Fits(w, jobs[j].status) => Fits(w, s)
      BY <1>9, Zenon DEF Fits, Terminal
    <2>2. s \in Statuses
      BY Zenon DEF Statuses, Terminal
    <2> QED
      BY <1>5, <1>9, <2>1, <2>2, Zenon
  <1>10. CASE \E s \in {"failed", "succeeded", "cancelled"}, summary \in BOOLEAN :
                /\ jobs[j].status \in {"running", "waiting_approval", "cancelling"}
                /\ jobs' = [jobs EXCEPT ![j] = [Move(j, s) EXCEPT !.summary = summary,
                                                                  !.unread = TRUE]]
                /\ UNCHANGED approvals
    BY <1>9, <1>10, Zenon
  <1> QED
    BY <1>2, <1>7, <1>8, <1>10, Zenon DEF Progress

-----------------------------------------------------------------------------
(* The invariant holds *)

LEMMA InitInv == Init => Inv
  <1> SUFFICES ASSUME Init PROVE Inv
    BY Zenon
  <1> DEFINE fresh == NewJob(None, None)
  <1>1. PICK n \in Nat : jobs = [j \in 1..n |-> fresh]
    BY ChannelAssumption, Zenon DEF Init
  <1>2. fresh \in Jobs /\ fresh.request = None
    BY Zenon DEF NewJob, Jobs, Statuses
  <1> HIDE DEF fresh
  <1>3. /\ jobs \in Seq(Jobs) /\ Len(jobs) = n
        /\ \A j \in 1..Len(jobs) : jobs[j].request = None
    BY <1>1, <1>2, SMTT(30)
  <1>4. TypeOK
    BY <1>3, SMTT(30) DEF Init, TypeOK
  <1>5. Asked(ops, Len(jobs), seen.said) /\ Knows(skill, Len(jobs), seen.said)
    BY Zenon DEF Init, Asked, Knows
  <1>6. \A r \in Requests : records[r] = None
    BY Zenon DEF Init
  <1>7. seen.receipts = {} /\ seen.cancels = {} /\ approvals = <<>>
    BY Zenon DEF Init
  <1>8. Booked(jobs, records, seen.receipts)
    BY <1>3, <1>6, <1>7, Zenon DEF Booked
  <1>9. Told(jobs, seen.cancels) /\ Taken(approvals, seen.said)
    BY <1>7 DEF Told, Taken
  <1> QED
    BY <1>4, <1>5, <1>8, <1>9, Zenon DEF Inv

LEMMA StutterKeeps ==
  ASSUME Inv, UNCHANGED vars
  PROVE  Inv'
  BY Zenon DEF vars, Inv, TypeOK

\* Every step of the tools, of the server and of the connector keeps the
\* invariant.
LEMMA StepKeeps == Inv /\ [Next]_vars => Inv'
  <1> SUFFICES ASSUME Inv, [Next]_vars PROVE Inv'
    BY Zenon
  <1>1. ASSUME NEW op \in ops, Serve(op) PROVE Inv'
    BY <1>1, ReadPolicyKeeps, CreateIdempotentKeeps, ReadTaskKeeps,
       ReadApprovalsKeeps, ReadBeforeCancelKeeps, CancelAtomicallyKeeps,
       DecideApprovalKeeps, ReadBeforeResultKeeps, AcknowledgeResultKeeps, Zenon
       DEF Serve
  <1>2. CASE Next
    BY <1>1, <1>2, SubmitKeeps, GetKeeps, ListApprovalsKeeps, DecideKeeps,
       CancelKeeps, RetryKeeps, LostKeeps, WorksKeeps, TickKeeps, Zenon DEF Next
  <1> QED
    BY <1>2, StutterKeeps, Zenon

\* Of every behaviour of the owner's tools and the server: the records, the
\* jobs and the receipts agree, a call names a job there is, and an approval is
\* decided as the owner said or because it lapsed.
THEOREM Invariance == Spec => []Inv
  BY InitInv, StepKeeps, PTL DEF Spec

\* A request id stands for one job and one payload for ever, whichever of a
\* timed-out submission and its retry commits first (createIdempotent), for any
\* number of requests, payloads, retries and calls at work at once.
THEOREM OneJobPerRequestHolds == Spec => []OneJobPerRequest
  <1>1. Inv => OneJobPerRequest
    <2> SUFFICES ASSUME Inv PROVE OneJobPerRequest
      BY Zenon
    <2>1. Booked(jobs, records, seen.receipts) /\ DOMAIN jobs = 1..Len(jobs)
      BY DEF Inv, TypeOK
    <2>2. \A x, y \in seen.receipts : x[1] = y[1] => x = y
      BY <2>1 DEF Booked
    <2>3. ASSUME NEW x \in seen.receipts PROVE jobs[x[3]].payload = x[2]
      <3> DEFINE record == records[x[1]]
      <3>1. /\ x = <<x[1], record.payload, record.job>>
            /\ jobs[record.job].payload = record.payload
        BY <2>1, Zenon DEF Booked
      <3> HIDE DEF record
      <3>2. x[2] = record.payload /\ x[3] = record.job
        BY <3>1
      <3> QED
        BY <3>1, <3>2, Zenon
    <2>4. \A i, j \in DOMAIN jobs :
            jobs[i].request # None /\ jobs[i].request = jobs[j].request => i = j
      BY <2>1, SMTT(30) DEF Booked
    <2> QED
      BY <2>2, <2>3, <2>4, Zenon DEF OneJobPerRequest
  <1> QED
    BY <1>1, Invariance, PTL

\* The connector only ever hears a decision the owner took on a row they were
\* shown, or the rejection of an approval that ran out (decideApproval).
THEOREM DecisionsAreTheOwnersHolds == Spec => []DecisionsAreTheOwners
  <1>1. Inv => DecisionsAreTheOwners
    BY SMTT(30) DEF Inv, TypeOK, Taken, DecisionsAreTheOwners
  <1> QED
    BY <1>1, Invariance, PTL

\* What the owner is told of a cancellation (presentCancellationResult) stays
\* true, whatever the connector does with the job afterwards.
THEOREM CancelToldHolds == Spec => []CancelTold
  <1>1. Inv => CancelTold
    <2> SUFFICES ASSUME Inv, NEW x \in seen.cancels
                 PROVE  Fits(x[2], jobs[x[1]].status)
      BY Zenon DEF Fits, CancelTold
    <2> QED
      BY Zenon DEF Inv, Told
  <1> QED
    BY <1>1, Invariance, PTL
=============================================================================
