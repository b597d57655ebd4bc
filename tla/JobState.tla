------------------------------ MODULE JobState ------------------------------
(***************************************************************************)
(* The job state machine of apps/control-plane/src/domain/job-state.ts:    *)
(* the transition table, the terminal states and the check every handler   *)
(* of the control plane is meant to obey.                                  *)
(***************************************************************************)

JobStatus == {"queued", "dispatched", "running", "waiting_approval",
              "cancelling", "succeeded", "failed", "cancelled", "expired"}

\* TERMINAL_JOB_STATES
TerminalStates == {"succeeded", "failed", "cancelled", "expired"}

\* CLAIMED_JOB_STATES of the outbox: an attempt of the job has been claimed
\* and has not ended.
ClaimedStates == {"running", "waiting_approval", "cancelling"}

\* canTransition: the table, one edge set per source state.
canTransition(from, to) ==
  \/ from = "queued" /\ to \in {"dispatched", "cancelled", "expired"}
  \/ from = "dispatched" /\ to \in {"running", "cancelled", "expired"}
  \/ from = "running"
     /\ to \in {"waiting_approval", "cancelling", "succeeded", "failed",
                "expired"}
  \/ from = "waiting_approval"
     /\ to \in {"running", "cancelling", "failed", "expired"}
  \/ from = "cancelling"
     /\ to \in {"cancelled", "succeeded", "failed", "expired"}
=============================================================================
