--------------------------- MODULE MCConnectorLink ---------------------------
EXTENDS ConnectorLink

\* The Connector's own messages and the accepted_state answers are explored
\* with lost connections and expiries; crashes, stalled sends and late frames
\* with the hello, one command and its acks, at most one
\* overrun and two faults in a run.
MCBound ==
  /\ spent.stall + spent.late <= 1
  /\ spent.drop + spent.crash + spent.stall + spent.late <= 2
  /\ spent.crash + spent.stall + spent.late > 0 =>
       /\ spent.event = 0
       /\ \A n \in DOMAIN rows : rows[n].kind # "state"

MCSpec == Init /\ [][Next /\ MCBound']_vars /\ Fairness
=============================================================================
