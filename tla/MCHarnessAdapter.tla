--------------------------- MODULE MCHarnessAdapter ---------------------------
(* HarnessAdapter for TLC: the tables an earlier adapter may have left and the *)
(* mappings its caller may know of.                                            *)
EXTENDS HarnessAdapter

CONSTANTS AJob, ASession

NoMapping == [k \in Keys |-> None]

\* No mapping; an attempt under way; an attempt that ended, listed or not.
Tables ==
    {NoMapping} \cup
    {[NoMapping EXCEPT ![<<AJob, 1>>] = [session |-> ASession, status |-> status]] :
        status \in {"running", "failed", "lost"}}

\* The attempt of the table, written there or not.
Supplied == {[key |-> <<AJob, 1>>, session |-> ASession, status |-> "running"]}
=============================================================================
