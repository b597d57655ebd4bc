--------------------------- MODULE MCIssueLifecycle ---------------------------
EXTENDS IssueLifecycle

\* A state that lost events, a killed run and a reopening lead to: a claim whose
\* pull request was merged before it was admitted to review, the admission cut
\* short after its receipt, and the Issue open again.  Nobody edits any more.
Claimant == CHOOSE u \in Eligible : TRUE

Made(kind, act, ev, from, to, claim, lease, pull) ==
  [kind |-> kind, at |-> IF kind = "receipt" /\ act = "claim" THEN 1 ELSE 0,
   r |-> [act |-> act, ev |-> ev, ok |-> TRUE, from |-> from, to |-> to,
          actor |-> IF act = "initialize" THEN Bot ELSE Claimant,
          claim |-> claim, lease |-> lease, pull |-> pull]]

Steps(kind) ==
  <<Made(kind, "initialize", <<"issue", 0>>, "unmanaged", "ready", 0, 0, 0),
    Made(kind, "claim", <<"comment", 3>>, "ready", "in-progress", 4,
         1 + LeaseLength, 0),
    Made(kind, "pr-open", <<"pull", 1, "edited", "merged", 1>>, "in-progress",
         "review", 4, 0, 1)>>

InterruptedMerge ==
  /\ issue = [NoIssue EXCEPT !.status = "in-progress", !.assignee = Claimant]
  /\ log = <<Steps("intent")[1], Steps("receipt")[1],
             [kind |-> "command", act |-> "claim", claim |-> 0,
              actor |-> Claimant, at |-> 1],
             Steps("intent")[2], Steps("receipt")[2],
             Steps("intent")[3], Steps("receipt")[3]>>
  /\ notes = {} /\ ready = TRUE /\ now = 1 /\ run = Idle
  /\ pulls = [p \in Pulls |->
       [NoPull EXCEPT !.state = "merged", !.author = Claimant, !.receipt = 5,
                      !.created = 1, !.updated = 1, !.merged = 1]]
  /\ spent = [commands |-> 1, edits |-> MaxEdits, faults |-> MaxFaults]

MCSpec == (Init \/ InterruptedMerge) /\ [][Next]_vars /\ Fairness

\* Of the edits only the first may fall inside a run; a run reads the Issue before it
\* and decides after it.
PullSpec ==
  /\ Init
  /\ [][Next /\ (spent'.edits > spent.edits /\ spent'.edits > 1 => run.pc = "idle")]_vars
  /\ Fairness
=============================================================================
