----------------------------- MODULE MCJobStore -----------------------------
EXTENDS JobStore, TLC

CONSTANT Single \* the job of the repository with two slots

MCRepositoryOf == [j \in Jobs |-> IF j = Single THEN "wide" ELSE "narrow"]
MCConcurrency == [r \in Repositories |-> IF r = "wide" THEN 2 ELSE 1]
MCSymmetry == Permutations(ApprovalIds) \cup Permutations(Connectors)
                \cup Permutations(Jobs \ {Single})

\* One job goes through every operation, with both Connectors, all approvals and
\* a slot to spare, so that nothing but its own state keeps it from a second
\* dispatch; the other two share one slot at one Connector, unapproved, for
\* fewer revisions and a shorter time.
MCBound ==
  (\E j \in Jobs \ {Single} : Exists(j)) =>
    /\ ~Exists(Single)
    /\ Cardinality({c \in Connectors : outbox[c] # <<>>}) <= 1
    /\ \A a \in ApprovalIds : approvals[a] = NoApproval
    /\ \A j \in Jobs : jobs[j].revision <= 3
    /\ clock <= 2

MCSpec == Init /\ [][Next /\ MCBound']_vars
=============================================================================
