----------------------------- MODULE MCRtcOutput -----------------------------
EXTENDS RtcOutput, FiniteSets

MCSpeeches ==
  {[fragments |-> 2, highlight |-> FALSE, urgent |-> FALSE],
   [fragments |-> 1, highlight |-> TRUE, urgent |-> TRUE]}

Other == {"speak", "highlight", "plain", "stop"}

\* Jobs are touched before anything else happens; a session that touched them
\* says little else.  Time matters once an event has come, and only one thing
\* ends.
MCBound ==
  /\ subscribed # {} =>
       Len(SelectSeq(queue \o wire, LAMBDA f : f.kind \in Other)) <= 1
  /\ calls + now > 0 => subscribed \in {{}, Jobs}
  /\ (subscribed = {} /\ ~done) \/ calls = 0 => now = 0
  /\ Cardinality({e \in 1..3 : <<closed, aborted, done>>[e]}) <= 1

MCSpec == Init /\ [][Next /\ MCBound']_vars /\ Fairness
=============================================================================
