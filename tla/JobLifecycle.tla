---------------------------- MODULE JobLifecycle ----------------------------
(***************************************************************************)
(* What the control plane promises about the status of a job: a job is     *)
(* created queued, and from then on changes status only along the edges of *)
(* the transition table of domain/job-state.ts.  Handlers of the job store *)
(* that write a status without calling assertTransition (dispatch, claim,  *)
(* approval, cancellation, resume) are held to it by refinement.           *)
(***************************************************************************)
EXTENDS JobState

CONSTANT Jobs

VARIABLE status

Init == status = [j \in Jobs |-> "absent"]

\* Job creation: the status column defaults to queued.
Create(j) ==
  /\ status[j] = "absent"
  /\ status' = [status EXCEPT ![j] = "queued"]

\* One job moves along one edge of the table.
Transition(j, to) ==
  /\ canTransition(status[j], to)
  /\ status' = [status EXCEPT ![j] = to]

Next ==
  \E j \in Jobs : Create(j) \/ \E to \in JobStatus : Transition(j, to)

Spec == Init /\ [][Next]_status
=============================================================================
