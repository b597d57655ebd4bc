-------------------------- MODULE OwnedAttemptProofs --------------------------
(***************************************************************************)
(* Proofs about OwnedAttempt, for every bound on offers, cancellations,    *)
(* drops, crashes, timeouts and failures: an attempt is given to an agent  *)
(* at most once and only after its claim, and it has one outcome, which    *)
(* the control plane adopts.                                               *)
(***************************************************************************)
EXTENDS OwnedAttempt, FiniteSetTheorems, TLAPS

-----------------------------------------------------------------------------
(* The inductive invariant *)

Statuses == {"dispatched", "running", "cancelling"} \cup Final
Phases == {"none", "prepared", "creating", "submitting", "started", "terminal"}
Steps == {"idle", "claim", "admit", "create", "prove", "confirm", "quiesce"}
Owners == {"none", "start", "cancel", "native"}

Rows == [type : {"offer", "cancel", "state"}, lease : Nat, status : Statuses,
         ref : Nat]
Messages == [type : {"claim", "sync", "outcome"}, lease : Nat,
             outcome : {"none"} \cup Final]

\* Types, and the pointers into the two queues.
TypeOK ==
  /\ status \in Statuses /\ lease \in Nat /\ rows \in Seq(Rows)
  /\ out \in Seq(Messages) /\ consumed \in Nat /\ consumed <= Len(out)
  /\ conn \in {"down", "offline", "open", "ready"} /\ epoch \in Nat
  /\ arrived \in Nat /\ arrived <= Len(rows)
  /\ cursor \in Nat /\ cursor <= Len(rows)
  /\ intent \in Phases /\ terminal \in {"none"} \cup Final
  /\ handler \in [row : Nat, epoch : Nat] /\ step \in Steps
  /\ waiter \in [owner : Owners, request : Nat, scope : BOOLEAN]
  /\ native \in {"none"} \cup Outcomes
  /\ live \in BOOLEAN /\ cancellation \in Nat /\ runs \in Nat

\* Where a handler waits fixes the phase of the intent, who owns the exchange
\* and whether the driver has the attempt; an agent has its input from the
\* submitting phase on.
Phased ==
  /\ step \in {"claim", "admit"} => intent = "prepared"
  /\ step = "create" => intent = "creating"
  /\ step = "prove" => intent = "submitting"
  /\ step \in {"confirm", "quiesce"} => live
  /\ native # "none" => live
  /\ live => intent \in {"started", "terminal"}
  /\ waiter.owner = "start" <=> step = "admit"
  /\ waiter.owner = "cancel" <=> step = "confirm"
  /\ waiter.owner = "native" <=> native # "none"
  /\ intent \in {"none", "prepared", "creating"} => runs = 0
  /\ runs <= 1
  /\ step # "idle" => handler.row \in 1..Len(rows)
  /\ conn = "ready" => epoch # 0

\* The control plane accepted a claim of the job.
Claimed ==
  \/ status \in {"running", "cancelling"} \cup Outcomes
  \/ \E n \in 1..Len(rows) : rows[n].type = "cancel"

\* Whoever acts for the attempt has seen it claimed.
ClaimSeen ==
  /\ runs = 1 => Claimed
  /\ step = "create" => Claimed
  /\ \A n \in 1..Len(rows) :
       rows[n].type = "state" /\ rows[n].status = "running" => Claimed
  /\ status = "cancelling" => \E n \in 1..Len(rows) : rows[n].type = "cancel"

\* The control plane has consumed the outcome.
Settled == \E m \in 1..consumed : out[m].type = "outcome"

\* The outcome's message is unique and carries the record; what a state row, a
\* cancellation authority or the record says of the job is true of it until
\* the outcome is consumed.
Adopted ==
  /\ \A m \in 1..Len(out) : out[m].type = "outcome" =>
       terminal # "none" /\ out[m].outcome = terminal
  /\ \A m, n \in 1..Len(out) :
       out[m].type = "outcome" /\ out[n].type = "outcome" => m = n
  /\ terminal # "none" => \E m \in 1..Len(out) : out[m].type = "outcome"
  /\ \A n \in 1..Len(rows) : rows[n].type = "state" /\ ~Settled =>
       /\ rows[n].status = "running" => status \in {"running", "cancelling"}
       /\ rows[n].status = "cancelling" => status = "cancelling"
  /\ cancellation # 0 /\ ~Settled => status = "cancelling"
  /\ terminal \in Outcomes /\ ~Settled => status \in {"running", "cancelling"}
  /\ terminal = "cancelled" /\ ~Settled => status = "cancelling"
  /\ Settled => status = terminal

Inv == TypeOK /\ Phased /\ ClaimSeen /\ Adopted

-----------------------------------------------------------------------------
(* Facts the steps share *)

\* What the step leaves alone when only the plugin acts.
PluginStep == UNCHANGED <<status, lease, rows, consumed>>

\* The step queues nothing but claims and syncs.
QueuesQuietly ==
  /\ out' \in Seq(Messages) /\ Len(out) <= Len(out')
  /\ \A m \in 1..Len(out) : out'[m] = out[m]
  /\ \A m \in 1..Len(out') : m > Len(out) => out'[m].type # "outcome"

LEMMA QueuedOne ==
  ASSUME out \in Seq(Messages), NEW m \in Messages, m.type # "outcome",
         out' = Append(out, m)
  PROVE  QueuesQuietly
  BY DEF QueuesQuietly

LEMMA QueuedNone ==
  ASSUME out \in Seq(Messages), out' = out
  PROVE  QueuesQuietly
  BY DEF QueuesQuietly

\* A prefix of the queue that is left alone settles what it settled.
LEMMA SettledKept ==
  ASSUME TypeOK, QueuesQuietly, consumed' = consumed
  PROVE  Settled' <=> Settled
  <1>1. \A m \in 1..consumed : out'[m] = out[m]
    BY DEF TypeOK, QueuesQuietly
  <1> QED
    BY <1>1, Zenon DEF Settled

\* A step of the plugin that records no outcome, and takes an authority only
\* where the job is being cancelled.
LEMMA AdoptedKept ==
  ASSUME TypeOK, Adopted, PluginStep, QueuesQuietly, terminal' = terminal,
         cancellation' # 0 /\ ~Settled => status = "cancelling"
  PROVE  Adopted'
  <1>1. Settled' <=> Settled
    BY SettledKept, Zenon DEF PluginStep
  <1>2. /\ \A m \in 1..Len(out') : out'[m].type = "outcome" =>
             m \in 1..Len(out) /\ out[m].type = "outcome" /\ out'[m] = out[m]
        /\ \A m \in 1..Len(out) : m \in 1..Len(out') /\ out'[m] = out[m]
    BY SMTT(30) DEF QueuesQuietly, TypeOK
  <1>3. /\ \A m \in 1..Len(out') : out'[m].type = "outcome" =>
             terminal' # "none" /\ out'[m].outcome = terminal'
        /\ \A m, n \in 1..Len(out') :
             out'[m].type = "outcome" /\ out'[n].type = "outcome" => m = n
        /\ terminal' # "none" => \E m \in 1..Len(out') : out'[m].type = "outcome"
    BY <1>2 DEF Adopted
  <1> QED
    BY <1>1, <1>3, Zenon DEF Adopted, PluginStep

\* A step of the plugin that gives no agent its input and creates none.
LEMMA ClaimSeenKept ==
  ASSUME ClaimSeen, PluginStep, runs' = runs,
         step' = "create" => step = "create" \/ Claimed
  PROVE  ClaimSeen'
  BY Zenon DEF ClaimSeen, PluginStep, Claimed

\* commitTerminal with an outcome that is true of the job.
LEMMA CommitKeeps ==
  ASSUME TypeOK, Adopted, PluginStep, cancellation' = cancellation,
         NEW outcome \in Final, CommitTerminal(outcome),
         outcome \in Outcomes /\ ~Settled => status \in {"running", "cancelling"},
         outcome = "cancelled" /\ ~Settled => status = "cancelling"
  PROVE  /\ Adopted'
         /\ out' \in Seq(Messages) /\ Len(out) <= Len(out')
         /\ terminal' \in {"none"} \cup Final
         /\ intent' \in {intent, "terminal"}
  <1>1. CASE terminal # "none"
    <2>1. UNCHANGED <<terminal, intent, out>>
      BY <1>1, Zenon DEF CommitTerminal, owned
    <2>2. QueuesQuietly
      BY <2>1, QueuedNone, Zenon DEF TypeOK
    <2>3. Adopted'
      BY <2>1, <2>2, AdoptedKept, Zenon DEF Adopted
    <2> QED
      BY <2>1, <2>3 DEF TypeOK
  <1>2. CASE terminal = "none"
    <2> DEFINE m == Message("outcome", 0, outcome)
    <2>1. /\ terminal' = outcome /\ intent' = "terminal"
          /\ out' = Append(out, m)
      BY <1>2, Zenon DEF CommitTerminal
    <2>2. m \in Messages /\ m.type = "outcome" /\ m.outcome = outcome
      BY Zenon DEF Message, Messages, Final
    <2> HIDE DEF m
    <2>3. \A n \in 1..Len(out) : out[n].type # "outcome"
      BY <1>2, Zenon DEF Adopted
    <2>4. /\ out' \in Seq(Messages) /\ Len(out') = Len(out) + 1
          /\ out'[Len(out) + 1] = m
          /\ \A n \in 1..Len(out) : out'[n] = out[n]
      BY <2>1, <2>2, SMTT(30) DEF TypeOK
    <2>5. \A n \in 1..Len(out') :
            out'[n].type = "outcome" <=> n = Len(out) + 1
      BY <2>2, <2>3, <2>4, SMTT(30) DEF TypeOK
    <2>6. ~Settled /\ ~Settled'
      <3>1. \A n \in 1..consumed : out[n].type # "outcome" /\ out'[n] = out[n]
        BY <2>3, <2>4, SMTT(30) DEF TypeOK
      <3> QED
        BY <3>1, Zenon DEF Settled, PluginStep
    <2>7. Len(out) \in Nat /\ outcome # "none"
      BY SMTT(30) DEF TypeOK, Final
    <2>8. Adopted'
      BY <2>1, <2>2, <2>4, <2>5, <2>6, <2>7, SMTT(30) DEF Adopted, PluginStep
    <2> QED
      BY <2>1, <2>4, <2>7, <2>8, SMTT(30)
  <1> QED
    BY <1>1, <1>2, Zenon

-----------------------------------------------------------------------------
(* Steps of the control plane *)

\* What the step leaves alone when only the control plane acts.
ServerStep ==
  UNCHANGED <<socket, journal, out, owned, task, exchange, attempt, harness>>

LEMMA ServerTyped ==
  ASSUME TypeOK, Phased, ServerStep, status' \in Statuses, lease' \in Nat,
         consumed' \in Nat, consumed' <= Len(out),
         rows' = rows \/ \E r \in Rows : rows' = Append(rows, r)
  PROVE  TypeOK' /\ Phased'
  <1>1. rows' \in Seq(Rows) /\ Len(rows) \in Nat /\ Len(rows') \in Nat
          /\ Len(rows) <= Len(rows')
    <2>1. CASE rows' = rows
      BY <2>1 DEF TypeOK
    <2>2. ASSUME NEW r \in Rows, rows' = Append(rows, r)
          PROVE  rows' \in Seq(Rows) /\ Len(rows') = Len(rows) + 1
      BY <2>2 DEF TypeOK
    <2> QED
      BY <2>1, <2>2, SMTT(30) DEF TypeOK
  <1>2. TypeOK'
    BY <1>1, SMTT(30) DEF TypeOK, ServerStep, socket, journal, owned, task, exchange,
                attempt, harness
  <1>3. step # "idle" => handler.row \in 1..Len(rows')
    BY <1>1, SMTT(30) DEF Phased, TypeOK
  <1>4. Phased'
    BY <1>3, Zenon DEF Phased, ServerStep, socket, journal, owned, task, exchange,
                attempt, harness
  <1> QED
    BY <1>2, <1>4, Zenon

\* A row is appended and the job moves along the transition table.
LEMMA Appended ==
  ASSUME TypeOK, NEW r \in Rows, rows' = Append(rows, r)
  PROVE  /\ \A n \in 1..Len(rows') :
              \/ n \in 1..Len(rows) /\ rows'[n] = rows[n]
              \/ n = Len(rows) + 1 /\ rows'[n] = r
         /\ \A n \in 1..Len(rows) : n \in 1..Len(rows') /\ rows'[n] = rows[n]
         /\ Len(rows) + 1 \in 1..Len(rows') /\ rows'[Len(rows) + 1] = r
  BY SMTT(30) DEF TypeOK

LEMMA OfferAgainKeeps ==
  ASSUME Inv, OfferAgain
  PROVE  Inv'
  <1> DEFINE r == Row("offer", lease + 1, "dispatched", 0)
  <1>1. /\ rows' = Append(rows, r) /\ ServerStep /\ lease' \in Nat
        /\ status' = status /\ consumed' = consumed
    BY SMTT(30) DEF OfferAgain, ServerStep, Inv, TypeOK
  <1>2. r \in Rows /\ r.type = "offer"
    BY SMTT(30) DEF Inv, TypeOK, Row, Rows, Statuses
  <1> HIDE DEF r
  <1>3. TypeOK' /\ Phased'
    BY <1>1, <1>2, ServerTyped, Zenon DEF Inv, TypeOK
  <1>4. /\ \A n \in 1..Len(rows') :
             \/ n \in 1..Len(rows) /\ rows'[n] = rows[n]
             \/ rows'[n].type = "offer"
        /\ \A n \in 1..Len(rows) : n \in 1..Len(rows') /\ rows'[n] = rows[n]
    BY <1>1, <1>2, Appended, Zenon DEF Inv
  <1>5. UNCHANGED <<runs, step, out, terminal, cancellation>>
    BY <1>1, Zenon DEF ServerStep, harness, task, owned, attempt
  <1>6. Claimed <=> Claimed'
    BY <1>1, <1>4, Zenon DEF Claimed
  <1>7. ClaimSeen'
    BY <1>1, <1>4, <1>5, <1>6, SMTT(30) DEF Inv, ClaimSeen
  <1>8. Settled' <=> Settled
    BY <1>1, <1>5, Zenon DEF Settled
  <1>9. Adopted'
    BY <1>1, <1>4, <1>5, <1>8, SMTT(30) DEF Inv, Adopted
  <1> QED
    BY <1>3, <1>7, <1>9, Zenon DEF Inv

LEMMA OwnerCancelsKeeps ==
  ASSUME Inv, OwnerCancels
  PROVE  Inv'
  <1> DEFINE r == Row("cancel", lease, "cancelling", 0)
  <1>1. ServerStep /\ UNCHANGED <<lease, consumed>>
    BY Zenon DEF OwnerCancels, ServerStep
  <1>2. r \in Rows /\ r.type = "cancel"
    BY Zenon DEF Inv, TypeOK, Row, Rows, Statuses
  <1> HIDE DEF r
  <1>3. \/ status = "dispatched" /\ status' = "cancelled" /\ rows' = rows
        \/ status = "running" /\ status' = "cancelling"
             /\ rows' = Append(rows, r)
    BY Zenon DEF OwnerCancels, r
  <1>4. UNCHANGED <<runs, step, out, terminal, cancellation>>
    BY <1>1, Zenon DEF ServerStep, harness, task, owned, attempt
  <1>5. TypeOK' /\ Phased'
    <2>1. status' \in Statuses
      BY <1>3, Zenon DEF Statuses, Final
    <2> QED
      BY <1>1, <1>2, <1>3, <2>1, ServerTyped, Zenon DEF Inv, TypeOK
  <1>6. Settled' <=> Settled
    BY <1>1, <1>4, Zenon DEF Settled
  <1>7. ~Settled
    BY <1>3, Zenon DEF Inv, Adopted, TypeOK, Final
  <1>8. CASE status = "dispatched" /\ status' = "cancelled" /\ rows' = rows
    <2>1. ClaimSeen'
      BY <1>8, <1>4, Zenon DEF Inv, ClaimSeen, Claimed, Outcomes
    <2>2. Adopted'
      BY <1>8, <1>4, <1>6, <1>7, Zenon DEF Inv, Adopted
    <2> QED
      BY <1>5, <2>1, <2>2, Zenon DEF Inv
  <1>9. CASE status = "running" /\ status' = "cancelling"
               /\ rows' = Append(rows, r)
    <2>1. /\ \A n \in 1..Len(rows') :
               \/ n \in 1..Len(rows) /\ rows'[n] = rows[n]
               \/ rows'[n].type = "cancel"
          /\ \E n \in 1..Len(rows') : rows'[n].type = "cancel"
      BY <1>9, <1>2, Appended, Zenon DEF Inv
    <2>2. Claimed'
      BY <1>9, Zenon DEF Claimed
    <2>3. ClaimSeen'
      BY <2>1, <2>2, Zenon DEF ClaimSeen
    <2>4. Adopted'
      BY <1>9, <1>4, <1>6, <1>7, <2>1, SMTT(30) DEF Inv, Adopted
    <2> QED
      BY <1>5, <2>3, <2>4, Zenon DEF Inv
  <1> QED
    BY <1>3, <1>8, <1>9, Zenon

\* A claim, a sync or the outcome is consumed.  The outcome finds the job in
\* the status its record was written for.
LEMMA ConsumeKeeps ==
  ASSUME Inv, Consume
  PROVE  Inv'
  <1> DEFINE m == out[consumed + 1]
             r == Row("state", lease, status, consumed + 1)
  <1>1. /\ consumed + 1 \in 1..Len(out) /\ consumed' = consumed + 1
        /\ consumed \in Nat /\ consumed' \in Nat /\ consumed' <= Len(out)
        /\ m \in Messages
    BY SMTT(30) DEF Inv, TypeOK, Consume
  <1>2. ServerStep /\ lease' = lease
    BY Zenon DEF Consume, ServerStep
  <1>3. r \in Rows /\ r.type = "state" /\ r.status = status
    BY <1>1, Zenon DEF Inv, TypeOK, Row, Rows
  <1>4. UNCHANGED <<runs, step, out, terminal, cancellation>>
    BY <1>2, Zenon DEF ServerStep, harness, task, owned, attempt
  <1>5. Settled' <=> Settled \/ m.type = "outcome"
    <2>1. \A n \in 1..consumed' : n \in 1..consumed \/ n = consumed + 1
      BY <1>1
    <2>2. \A n \in 1..consumed : n \in 1..consumed'
      BY <1>1, SMTT(30)
    <2>3. consumed + 1 \in 1..consumed'
      BY <1>1, SMTT(30)
    <2> QED
      BY <1>4, <2>1, <2>2, <2>3, Zenon DEF Settled
  <1>6. \/ /\ m.type = "claim" /\ rows' = rows
           /\ status' = IF ClaimAccepted(m) THEN "running" ELSE status
        \/ /\ m.type = "sync" /\ status' = status
           /\ rows' = Append(rows, r)
        \/ /\ m.type = "outcome" /\ rows' = rows
           /\ status' = IF OutcomeAccepted(m) THEN m.outcome ELSE status
    BY Zenon DEF Consume
  <1> HIDE DEF r
  <1>7. TypeOK' /\ Phased'
    <2>1. status' \in Statuses
      <3>1. OutcomeAccepted(m) => m.outcome \in Statuses
        BY Zenon DEF OutcomeAccepted, Outcomes, Statuses, Final
      <3>2. "running" \in Statuses /\ status \in Statuses
        BY Zenon DEF Inv, TypeOK, Statuses
      <3> QED
        BY <1>6, <3>1, <3>2, Zenon
    <2> QED
      BY <1>1, <1>2, <1>3, <1>6, <2>1, ServerTyped, Zenon DEF Inv, TypeOK
  <1>8. CASE status' = status /\ rows' = rows /\ m.type # "outcome"
    <2>1. ClaimSeen'
      BY <1>8, <1>4, Zenon DEF Inv, ClaimSeen, Claimed
    <2>2. Adopted'
      BY <1>8, <1>4, <1>5, Zenon DEF Inv, Adopted
    <2> QED
      BY <1>7, <2>1, <2>2, Zenon DEF Inv
  <1>9. CASE /\ m.type = "claim" /\ rows' = rows
             /\ status = "dispatched" /\ status' = "running"
    <2>1. ~Settled /\ ~Settled'
      BY <1>9, <1>5, Zenon DEF Inv, Adopted, TypeOK, Final
    <2>2. Claimed'
      BY <1>9, Zenon DEF Claimed
    <2>3. ClaimSeen'
      BY <1>9, <2>2, Zenon DEF ClaimSeen
    <2>4. Adopted'
      BY <1>9, <1>4, <2>1, Zenon DEF Inv, Adopted
    <2> QED
      BY <1>7, <2>3, <2>4, Zenon DEF Inv
  <1>10. CASE m.type = "sync" /\ status' = status /\ rows' = Append(rows, r)
    <2>1. /\ \A n \in 1..Len(rows') :
               \/ n \in 1..Len(rows) /\ rows'[n] = rows[n]
               \/ rows'[n] = r
          /\ \A n \in 1..Len(rows) : n \in 1..Len(rows') /\ rows'[n] = rows[n]
      BY <1>10, <1>3, Appended, Zenon DEF Inv
    <2>2. Claimed => Claimed'
      BY <1>10, <2>1, Zenon DEF Claimed
    <2>3. status = "running" => Claimed'
      BY <1>10, Zenon DEF Claimed
    <2>4. ClaimSeen'
      BY <1>10, <1>3, <1>4, <2>1, <2>2, <2>3, SMTT(30) DEF Inv, ClaimSeen
    <2>5. Adopted'
      BY <1>10, <1>3, <1>4, <1>5, <2>1, SMTT(30) DEF Inv, Adopted
    <2> QED
      BY <1>7, <2>4, <2>5, Zenon DEF Inv
  <1>11. CASE /\ m.type = "outcome" /\ rows' = rows
              /\ status' = IF OutcomeAccepted(m) THEN m.outcome ELSE status
    <2>1. ~Settled
      <3>1. \A n \in 1..consumed : n \in 1..Len(out) /\ n # consumed + 1
        BY <1>1, SMTT(30) DEF Inv, TypeOK
      <3> QED
        BY <1>1, <1>11, <3>1, Zenon DEF Inv, Adopted, Settled
    <2>2. m.outcome = terminal /\ terminal \in Final
      BY <1>1, <1>11, Zenon DEF Inv, Adopted, TypeOK
    <2>3. OutcomeAccepted(m) /\ status \in {"running", "cancelling"}
      BY <2>1, <2>2, Zenon DEF Inv, Adopted, OutcomeAccepted, Final, Outcomes
    <2>4. status' = terminal
      BY <1>11, <2>2, <2>3, Zenon
    <2>5. Claimed'
      BY <1>11, <2>1, <2>2, <2>4, Zenon
         DEF Inv, Adopted, ClaimSeen, Claimed, Final, Outcomes
    <2>6. ClaimSeen'
      BY <2>2, <2>4, <2>5, Zenon DEF ClaimSeen, Final
    <2>7. Adopted'
      BY <1>4, <1>5, <1>11, <2>4, Zenon DEF Inv, Adopted
    <2> QED
      BY <1>7, <2>6, <2>7, Zenon DEF Inv
  <1> QED
    BY <1>6, <1>8, <1>9, <1>10, <1>11, Zenon DEF ClaimAccepted

-----------------------------------------------------------------------------
(* Steps of the receive pump *)

\* The pump moves its pointers, inside what the control plane has sent.
PumpStep ==
  /\ PluginStep /\ UNCHANGED <<conn, epoch>>
  /\ arrived' \in Nat /\ arrived' <= Len(rows)
  /\ cursor' \in Nat /\ cursor' <= Len(rows)

LEMMA NotAnsweredKeeps ==
  ASSUME Inv, PumpStep, NotAnswered
  PROVE  Inv'
  <1>1. UNCHANGED <<out, intent, terminal, handler, step, waiter, native, live,
                    cancellation, runs>>
    BY Zenon DEF NotAnswered, owned, task, exchange, attempt, harness
  <1>2. TypeOK'
    BY <1>1, Zenon DEF Inv, TypeOK, PumpStep, PluginStep
  <1>3. Phased'
    BY <1>1, Zenon DEF Inv, Phased, PumpStep, PluginStep
  <1>4. ClaimSeen'
    BY <1>1, ClaimSeenKept, Zenon DEF Inv, PumpStep
  <1>5. Adopted'
    BY <1>1, QueuedNone, AdoptedKept, Zenon DEF Inv, TypeOK, Adopted, PumpStep
  <1> QED
    BY <1>2, <1>3, <1>4, <1>5, Zenon DEF Inv

LEMMA HandleOfferKeeps ==
  ASSUME Inv, PumpStep, NEW n \in 1..Len(rows), step = "idle", HandleOffer(n)
  PROVE  Inv'
  <1>1. UNCHANGED <<out, terminal, waiter, native, live, cancellation, runs>>
    BY Zenon DEF HandleOffer, exchange, attempt, harness
  <1>2. \/ UNCHANGED <<intent, handler, step>>
        \/ /\ intent = "none" /\ intent' = "prepared"
           /\ step' = "claim" /\ handler' = [row |-> n, epoch |-> epoch]
    BY Zenon DEF HandleOffer, Startable, task
  <1>3. n \in Nat /\ epoch \in Nat
    BY SMTT(30) DEF Inv, TypeOK
  <1>4. handler' \in [row : Nat, epoch : Nat] /\ step' \in Steps
          /\ intent' \in Phases
    BY <1>2, <1>3, SMTT(30) DEF Inv, TypeOK, Steps, Phases
  <1>5. TypeOK'
    BY <1>1, <1>4, Zenon DEF Inv, TypeOK, PumpStep, PluginStep
  <1>6. Phased'
    BY <1>1, <1>2, SMTT(30) DEF Inv, TypeOK, Phased, PumpStep, PluginStep
  <1>7. ClaimSeen'
    BY <1>1, <1>2, ClaimSeenKept, Zenon DEF Inv, PumpStep
  <1>8. Adopted'
    BY <1>1, QueuedNone, AdoptedKept, Zenon DEF Inv, TypeOK, Adopted, PumpStep
  <1> QED
    BY <1>5, <1>6, <1>7, <1>8, Zenon DEF Inv

\* A sync is queued, and its exchange waits.
LEMMA Observed ==
  ASSUME TypeOK, NEW owner \in Owners, NEW scope \in BOOLEAN,
         Observe(owner, scope, out)
  PROVE  /\ QueuesQuietly /\ out' \in Seq(Messages) /\ consumed <= Len(out')
         /\ waiter' \in [owner : Owners, request : Nat, scope : BOOLEAN]
         /\ waiter'.owner = owner
  <1> DEFINE m == Message("sync", 0, "none")
  <1>1. m \in Messages /\ m.type # "outcome"
    BY Zenon DEF Message, Messages
  <1>2. out' = out \o <<m>>
    BY Zenon DEF Observe
  <1> HIDE DEF m
  <1>3. out' = Append(out, m)
    BY <1>1, <1>2, SMTT(30) DEF TypeOK
  <1>4. QueuesQuietly
    BY <1>1, <1>3, QueuedOne, Zenon DEF TypeOK
  <1>5. Len(out) + 1 \in Nat
    BY DEF TypeOK
  <1>6. out' \in Seq(Messages) /\ consumed <= Len(out')
    BY <1>1, <1>3, SMTT(30) DEF TypeOK
  <1> QED
    BY <1>4, <1>5, <1>6, Zenon DEF Observe

\* A cancellation authority is true of the job when it is given to the agent.
LEMMA CancelAgentKeeps ==
  ASSUME Inv, PumpStep, NEW n \in 1..Len(rows), NEW authority \in Nat, live,
         CancelAgent(n, authority), QueuesQuietly,
         out' \in Seq(Messages), consumed <= Len(out'),
         ~Settled => status = "cancelling",
         waiter' \in [owner : Owners, request : Nat, scope : BOOLEAN],
         waiter'.owner \notin {"start", "cancel"},
         waiter'.owner = "native" <=> waiter.owner = "native",
         UNCHANGED <<intent, terminal, native, live, runs>>
  PROVE  Inv'
  <1>1. /\ cancellation' = authority
        /\ \/ step' = "quiesce" /\ handler' = [row |-> n, epoch |-> epoch]
           \/ step' = "idle" /\ handler' = NoHandler
    BY Zenon DEF CancelAgent
  <1>2. handler' \in [row : Nat, epoch : Nat] /\ step' \in Steps
    BY <1>1, SMTT(30) DEF Inv, TypeOK, NoHandler, Steps
  <1>3. TypeOK'
    BY <1>1, <1>2, Zenon DEF Inv, TypeOK, PumpStep, PluginStep
  <1>4. Phased'
    BY <1>1, SMTT(30) DEF Inv, TypeOK, Phased, PumpStep, PluginStep
  <1>5. ClaimSeen'
    BY <1>1, ClaimSeenKept, Zenon DEF Inv, PumpStep
  <1>6. Adopted'
    BY AdoptedKept, Zenon DEF Inv, PumpStep
  <1> QED
    BY <1>3, <1>4, <1>5, <1>6, Zenon DEF Inv

LEMMA HandleCancelKeeps ==
  ASSUME Inv, PumpStep, NEW n \in 1..Len(rows), step = "idle", HandleCancel(n)
  PROVE  Inv'
  <1>1. UNCHANGED <<intent, terminal, native, live, runs>>
    BY Zenon DEF HandleCancel, owned
  <1>2. CASE live /\ cancellation # 0
    <2>1. CancelAgent(n, cancellation) /\ UNCHANGED <<out, waiter>>
      BY <1>2, Zenon DEF HandleCancel
    <2>2. /\ QueuesQuietly /\ out' \in Seq(Messages) /\ consumed <= Len(out')
          /\ cancellation \in Nat
          /\ waiter' \in [owner : Owners, request : Nat, scope : BOOLEAN]
      BY <2>1, QueuedNone, Zenon DEF Inv, TypeOK
    <2>3. /\ waiter'.owner \notin {"start", "cancel"}
          /\ waiter'.owner = "native" <=> waiter.owner = "native"
          /\ ~Settled => status = "cancelling"
      BY <1>2, <2>1, Zenon DEF Inv, Phased, Adopted
    <2> QED
      BY <1>1, <1>2, <2>1, <2>2, <2>3, CancelAgentKeeps, Zenon
  <1>3. CASE ~(live /\ cancellation # 0) /\ live /\ intent = "started" /\ CanObserve
    <2>1. /\ Observe("cancel", TRUE, out)
          /\ step' = "confirm" /\ handler' = [row |-> n, epoch |-> epoch]
          /\ cancellation' = cancellation
      BY <1>3, Zenon DEF HandleCancel
    <2>2. /\ QueuesQuietly /\ out' \in Seq(Messages) /\ consumed <= Len(out')
          /\ waiter' \in [owner : Owners, request : Nat, scope : BOOLEAN]
          /\ waiter'.owner = "cancel"
      BY <2>1, Observed, Zenon DEF Inv, Owners
    <2>3. handler' \in [row : Nat, epoch : Nat] /\ step' \in Steps
      BY <2>1, SMTT(30) DEF Inv, TypeOK, Steps
    <2>4. TypeOK'
      BY <1>1, <2>1, <2>2, <2>3, Zenon DEF Inv, TypeOK, PumpStep, PluginStep
    <2>5. Phased'
      BY <1>1, <1>3, <2>1, <2>2, Zenon
         DEF Inv, TypeOK, Phased, PumpStep, PluginStep, CanObserve
    <2>6. ClaimSeen'
      BY <1>1, <2>1, ClaimSeenKept, Zenon DEF Inv, PumpStep
    <2>7. Adopted'
      BY <1>1, <2>1, <2>2, AdoptedKept, Zenon DEF Inv, Adopted, PumpStep
    <2> QED
      BY <2>4, <2>5, <2>6, <2>7, Zenon DEF Inv
  <1>4. CASE ~(live /\ cancellation # 0) /\ ~(live /\ intent = "started" /\ CanObserve)
    <2>1. UNCHANGED <<step, handler, cancellation, out, waiter>>
      BY <1>4, Zenon DEF HandleCancel, task
    <2>2. TypeOK'
      BY <1>1, <2>1, Zenon DEF Inv, TypeOK, PumpStep, PluginStep
    <2>3. Phased'
      BY <1>1, <2>1, Zenon DEF Inv, Phased, PumpStep, PluginStep
    <2>4. ClaimSeen'
      BY <1>1, <2>1, ClaimSeenKept, Zenon DEF Inv, PumpStep
    <2>5. Adopted'
      BY <1>1, <2>1, QueuedNone, AdoptedKept, Zenon DEF Inv, TypeOK, Adopted, PumpStep
    <2> QED
      BY <2>2, <2>3, <2>4, <2>5, Zenon DEF Inv
  <1> QED
    BY <1>2, <1>3, <1>4, Zenon

\* The answer a start waits for: the agent may be created once the job is seen
\* to run.
LEMMA StartAnswered ==
  ASSUME Inv, PumpStep, NEW n \in 1..Len(rows), Answers(n), Answered(n),
         waiter.owner = "start"
  PROVE  Inv'
  <1>1. /\ waiter' = NoWaiter
        /\ IF Admitted(rows[n])
             THEN /\ intent' = "creating" /\ step' = "create"
                  /\ UNCHANGED <<handler, delivered>>
             ELSE Return(TRUE) /\ intent' = intent
        /\ UNCHANGED <<out, terminal, native, live, cancellation, runs>>
    BY Zenon DEF Answered, attempt, harness
  <1>2. step = "admit" /\ intent = "prepared"
    BY Zenon DEF Inv, Phased
  <1>3. \/ /\ rows[n].status = "running" /\ rows[n].type = "state"
           /\ intent' = "creating" /\ step' = "create" /\ handler' = handler
        \/ intent' = intent /\ step' = "idle" /\ handler' = NoHandler
    BY <1>1, Zenon DEF Admitted, Return, Answers
  <1>4. /\ handler' \in [row : Nat, epoch : Nat] /\ step' \in Steps
        /\ intent' \in Phases
        /\ waiter' \in [owner : Owners, request : Nat, scope : BOOLEAN]
    BY <1>1, <1>3, SMTT(30) DEF Inv, TypeOK, NoHandler, Steps, Phases, NoWaiter, Owners
  <1>5. waiter'.owner = "none"
    BY <1>1, Zenon DEF NoWaiter
  <1>6. TypeOK'
    BY <1>1, <1>4, Zenon DEF Inv, TypeOK, PumpStep, PluginStep
  <1>7. Phased'
    BY <1>1, <1>2, <1>3, <1>5, Zenon DEF Inv, TypeOK, Phased, PumpStep, PluginStep
  <1>8. ClaimSeen'
    <2>1. step' = "create" => Claimed
      BY <1>3, Zenon DEF Inv, ClaimSeen
    <2> QED
      BY <1>1, <2>1, ClaimSeenKept, Zenon DEF Inv, PumpStep
  <1>9. Adopted'
    BY <1>1, QueuedNone, AdoptedKept, Zenon DEF Inv, TypeOK, Adopted, PumpStep
  <1> QED
    BY <1>6, <1>7, <1>8, <1>9, Zenon DEF Inv

\* The answer a cancellation waits for: it issues an authority if the job is
\* being cancelled.
LEMMA CancelAnswered ==
  ASSUME Inv, PumpStep, NEW n \in 1..Len(rows), Answers(n), Answered(n),
         waiter.owner = "cancel"
  PROVE  Inv'
  <1>1. /\ waiter' = NoWaiter
        /\ IF StateEligible("cancel", rows[n].status)
             THEN CancelAgent(handler.row, epoch)
             ELSE Return(TRUE) /\ cancellation' = cancellation
        /\ UNCHANGED <<out, intent, terminal, native, live, runs>>
    BY Zenon DEF Answered, owned
  <1>2. /\ step = "confirm" /\ live /\ native = "none"
        /\ handler.row \in 1..Len(rows)
    BY Zenon DEF Inv, Phased
  <1>3. /\ waiter' \in [owner : Owners, request : Nat, scope : BOOLEAN]
        /\ waiter'.owner = "none"
    BY <1>1, Zenon DEF NoWaiter, Owners
  <1>4. QueuesQuietly /\ out' \in Seq(Messages) /\ consumed <= Len(out')
    BY <1>1, QueuedNone, Zenon DEF Inv, TypeOK
  <1>5. CASE StateEligible("cancel", rows[n].status)
    <2>1. ~Settled => status = "cancelling"
      BY <1>5, Zenon DEF StateEligible, Answers, Inv, Adopted
    <2>2. epoch \in Nat
      BY Zenon DEF Inv, TypeOK
    <2> QED
      BY <1>1, <1>2, <1>3, <1>4, <1>5, <2>1, <2>2, CancelAgentKeeps, Zenon
  <1>6. CASE ~StateEligible("cancel", rows[n].status)
    <2>1. /\ step' = "idle" /\ handler' = NoHandler
          /\ cancellation' = cancellation
      BY <1>1, <1>6, Zenon DEF Return
    <2>2. handler' \in [row : Nat, epoch : Nat] /\ step' \in Steps
      BY <2>1, Zenon DEF NoHandler, Steps
    <2>3. TypeOK'
      BY <1>1, <1>3, <2>1, <2>2, Zenon DEF Inv, TypeOK, PumpStep, PluginStep
    <2>4. Phased'
      BY <1>1, <1>2, <1>3, <2>1, Zenon DEF Inv, Phased, PumpStep, PluginStep
    <2>5. ClaimSeen'
      BY <1>1, <2>1, ClaimSeenKept, Zenon DEF Inv, PumpStep
    <2>6. Adopted'
      BY <1>1, <1>4, <2>1, AdoptedKept, Zenon DEF Inv, Adopted, PumpStep
    <2> QED
      BY <2>3, <2>4, <2>5, <2>6, Zenon DEF Inv
  <1> QED
    BY <1>5, <1>6, Zenon

\* The answer the turn's end waits for: its outcome is recorded if the job is
\* still seen to run.
LEMMA NativeAnswered ==
  ASSUME Inv, PumpStep, NEW n \in 1..Len(rows), Answers(n), Answered(n),
         waiter.owner = "native"
  PROVE  Inv'
  <1>1. /\ waiter' = NoWaiter /\ native' = "none"
        /\ IF StateEligible(native, rows[n].status)
             THEN CommitTerminal(native) ELSE UNCHANGED <<out, intent, terminal>>
        /\ UNCHANGED <<handler, step, live, cancellation, runs>>
    BY Zenon DEF Answered, task, attempt, harness, owned
  <1>2. native \in Outcomes /\ native # "cancel" /\ native # "cancelled" /\ live
    BY Zenon DEF Inv, Phased, TypeOK, Outcomes
  <1>3. step \notin {"claim", "admit", "create", "prove", "confirm"}
          /\ intent \in {"started", "terminal"}
    BY <1>2, Zenon DEF Inv, Phased
  <1>4. /\ waiter' \in [owner : Owners, request : Nat, scope : BOOLEAN]
        /\ waiter'.owner = "none"
    BY <1>1, Zenon DEF NoWaiter, Owners
  <1>5. /\ Adopted' /\ out' \in Seq(Messages) /\ consumed <= Len(out')
        /\ terminal' \in {"none"} \cup Final
        /\ intent' \in {intent, "terminal"}
    <2>1. CASE StateEligible(native, rows[n].status)
      <3>1. native \in Final /\ CommitTerminal(native)
        BY <1>1, <1>2, <2>1, Zenon DEF Final, Outcomes
      <3>2. ~Settled => status \in {"running", "cancelling"}
        BY <1>2, <2>1, Zenon DEF StateEligible, Answers, Inv, Adopted
      <3>3. /\ Adopted' /\ out' \in Seq(Messages) /\ Len(out) <= Len(out')
            /\ terminal' \in {"none"} \cup Final
            /\ intent' \in {intent, "terminal"}
        BY <1>1, <1>2, <3>1, <3>2, CommitKeeps, Zenon DEF Inv, PumpStep
      <3>4. Len(out') \in Nat /\ Len(out) \in Nat
        BY <3>3, SMTT(30) DEF Inv, TypeOK
      <3> QED
        BY <3>3, <3>4, SMTT(30) DEF Inv, TypeOK
    <2>2. CASE ~StateEligible(native, rows[n].status)
      <3>1. UNCHANGED <<out, intent, terminal>>
        BY <1>1, <2>2, Zenon
      <3> QED
        BY <1>1, <3>1, QueuedNone, AdoptedKept, Zenon
           DEF Inv, TypeOK, Adopted, PumpStep
    <2> QED
      BY <2>1, <2>2, Zenon
  <1>6. TypeOK'
    <2>1. intent' \in Phases /\ native' \in {"none"} \cup Outcomes
      BY <1>1, <1>5, Zenon DEF Inv, TypeOK, Phases
    <2> QED
      BY <1>1, <1>4, <1>5, <2>1, Zenon DEF Inv, TypeOK, PumpStep, PluginStep
  <1>7. Phased'
    BY <1>1, <1>2, <1>3, <1>4, <1>5, Zenon DEF Inv, Phased, PumpStep, PluginStep
  <1>8. ClaimSeen'
    BY <1>1, ClaimSeenKept, Zenon DEF Inv, PumpStep
  <1> QED
    BY <1>5, <1>6, <1>7, <1>8, Zenon DEF Inv

LEMMA AnsweredKeeps ==
  ASSUME Inv, PumpStep, NEW n \in 1..Len(rows), Answers(n), Answered(n)
  PROVE  Inv'
  <1>1. waiter.owner \in {"start", "cancel", "native"}
    BY Zenon DEF Answers, Inv, TypeOK, Owners
  <1> QED
    BY <1>1, StartAnswered, CancelAnswered, NativeAnswered, Zenon

LEMMA ArriveKeeps ==
  ASSUME Inv, Arrive
  PROVE  Inv'
  <1>1. PumpStep /\ arrived + 1 \in 1..Len(rows)
    BY SMTT(30) DEF Arrive, Inv, TypeOK, PumpStep, PluginStep, server
  <1> QED
    BY <1>1, AnsweredKeeps, NotAnsweredKeeps, Zenon DEF Arrive

LEMMA PumpKeeps ==
  ASSUME Inv, Pump
  PROVE  Inv'
  <1>1. PumpStep /\ cursor + 1 \in 1..Len(rows) /\ step = "idle"
    BY SMTT(30) DEF Pump, Inv, TypeOK, PumpStep, PluginStep, server, socket
  <1> DEFINE n == cursor + 1
  <1>2. \/ HandleOffer(n) \/ HandleCancel(n)
        \/ Answers(n) /\ Answered(n)
        \/ NotAnswered
    BY Zenon DEF Pump
  <1> HIDE DEF n
  <1>3. PumpStep /\ n \in 1..Len(rows) /\ step = "idle"
    BY <1>1, Zenon DEF n
  <1> QED
    BY <1>2, <1>3, HandleOfferKeeps, HandleCancelKeeps, AnsweredKeeps,
       NotAnsweredKeeps, ZenonT(30)

LEMMA RecoverKeeps ==
  ASSUME Inv, Recover
  PROVE  Inv'
  <1>1. PumpStep /\ step = "idle"
    BY Zenon DEF Recover, Inv, TypeOK, PumpStep, PluginStep, server
  <1>2. CASE Undelivered = {}
    BY <1>1, <1>2, NotAnsweredKeeps, Zenon DEF Recover
  <1>3. CASE Undelivered # {}
    <2>1. PICK n \in Undelivered : HandleOffer(n) \/ HandleCancel(n)
      BY <1>3, Zenon DEF Recover
    <2>2. n \in 1..Len(rows)
      BY DEF Undelivered, Inv, TypeOK
    <2> QED
      BY <1>1, <2>1, <2>2, HandleOfferKeeps, HandleCancelKeeps, Zenon
  <1> QED
    BY <1>2, <1>3, Zenon

-----------------------------------------------------------------------------
(* Steps of the driver, of the exchange and of the connection *)

\* A step that leaves the record, the authority and the outcome alone.
LEMMA PluginKeeps ==
  ASSUME Inv, PluginStep, TypeOK', Phased', QueuesQuietly, runs' = runs,
         UNCHANGED <<terminal, cancellation>>, step' # "create"
  PROVE  Inv'
  <1>1. ClaimSeen'
    BY ClaimSeenKept, Zenon DEF Inv
  <1>2. Adopted'
    BY AdoptedKept, Zenon DEF Inv, Adopted
  <1> QED
    BY <1>1, <1>2, Zenon DEF Inv

LEMMA Returned ==
  ASSUME NEW complete, Return(complete)
  PROVE  /\ step' = "idle" /\ step' \in Steps
         /\ handler' \in [row : Nat, epoch : Nat]
  BY Zenon DEF Return, NoHandler, Steps

LEMMA PublishClaimKeeps ==
  ASSUME Inv, PublishClaim
  PROVE  Inv'
  <1> DEFINE c == Message("claim", rows[handler.row].lease, "none")
             s == Message("sync", 0, "none")
             claim == Append(out, c)
  <1>1. /\ PluginStep
        /\ UNCHANGED <<conn, epoch, arrived, cursor, intent, terminal, native,
                       live, cancellation, runs>>
    BY Zenon DEF PublishClaim, PluginStep, server, socket, owned, attempt, harness
  <1>2. step = "claim" /\ handler.row \in 1..Len(rows) /\ intent = "prepared"
          /\ ~live /\ waiter.owner \in {"none", "native"}
    BY Zenon DEF PublishClaim, Inv, Phased, TypeOK, Owners
  <1>3. c \in Messages /\ c.type # "outcome" /\ s \in Messages /\ s.type # "outcome"
    <2>1. rows[handler.row].lease \in Nat
      <3>1. rows[handler.row] \in Rows
        BY <1>2 DEF Inv, TypeOK
      <3> QED
        BY <3>1, Zenon DEF Rows
    <2> QED
      BY <2>1, Zenon DEF Message, Messages
  <1>4. \/ /\ CanObserve /\ Observe("start", TRUE, claim) /\ step' = "admit"
           /\ handler' = handler
        \/ out' = claim /\ Return(SameSocket) /\ waiter' = waiter
    BY Zenon DEF PublishClaim
  <1>5. CASE /\ CanObserve /\ Observe("start", TRUE, claim) /\ step' = "admit"
             /\ handler' = handler
    <2>1. out' = Append(out, c) \o <<s>>
      BY <1>5, Zenon DEF Observe
    <2> HIDE DEF c, s
    <2>2. /\ out' \in Seq(Messages) /\ Len(out') = Len(out) + 2
          /\ \A m \in 1..Len(out) : out'[m] = out[m]
          /\ out'[Len(out) + 1] = c /\ out'[Len(out) + 2] = s
      BY <1>3, <2>1, SMTT(30) DEF Inv, TypeOK
    <2>3. QueuesQuietly /\ consumed <= Len(out')
      <3>1. \A m \in 1..Len(out') :
              m > Len(out) => m = Len(out) + 1 \/ m = Len(out) + 2
        BY <2>2, SMTT(30) DEF Inv, TypeOK
      <3>2. \A m \in 1..Len(out') : m > Len(out) => out'[m].type # "outcome"
        BY <1>3, <2>2, <3>1, Zenon
      <3>3. Len(out) \in Nat /\ consumed \in Nat /\ consumed <= Len(out)
        BY DEF Inv, TypeOK
      <3> QED
        BY <2>2, <3>2, <3>3 DEF QueuesQuietly
    <2>4. /\ waiter' \in [owner : Owners, request : Nat, scope : BOOLEAN]
          /\ waiter'.owner = "start"
      <3>1. Len(claim) + 1 \in Nat
        BY <1>3, SMTT(30) DEF Inv, TypeOK
      <3> HIDE DEF claim
      <3>2. waiter' = [owner |-> "start", request |-> Len(claim) + 1, scope |-> TRUE]
        BY <1>5, Zenon DEF Observe
      <3> QED
        BY <3>1, <3>2, Zenon DEF Owners
    <2>5. step' \in Steps
      BY <1>5, Zenon DEF Steps
    <2>6. TypeOK'
      BY <1>1, <1>5, <2>2, <2>3, <2>4, <2>5, Zenon DEF Inv, TypeOK, PluginStep
    <2>7. Phased'
      BY <1>1, <1>2, <1>5, <2>4, Zenon DEF Inv, Phased, PluginStep, CanObserve
    <2> QED
      BY <1>1, <1>5, <2>3, <2>6, <2>7, PluginKeeps, Zenon
  <1>6. CASE out' = claim /\ Return(SameSocket) /\ waiter' = waiter
    <2>1. QueuesQuietly
      BY <1>3, <1>6, QueuedOne, Zenon DEF Inv, TypeOK
    <2> HIDE DEF c
    <2>2. out' \in Seq(Messages) /\ consumed <= Len(out')
      BY <1>3, <1>6, SMTT(30) DEF Inv, TypeOK
    <2>3. /\ step' = "idle" /\ step' \in Steps
          /\ handler' \in [row : Nat, epoch : Nat]
      BY <1>6, Returned, Zenon
    <2>4. TypeOK'
      BY <1>1, <1>6, <2>2, <2>3, Zenon DEF Inv, TypeOK, PluginStep
    <2>5. Phased'
      BY <1>1, <1>2, <1>6, <2>3, Zenon DEF Inv, Phased, PluginStep
    <2> QED
      BY <1>1, <2>1, <2>3, <2>4, <2>5, PluginKeeps, Zenon
  <1> QED
    BY <1>4, <1>5, <1>6, Zenon

\* The one initial input, in the phase that was never left before.
LEMMA CreateAgentKeeps ==
  ASSUME Inv, CreateAgent
  PROVE  Inv'
  <1>1. /\ PluginStep /\ step = "create" /\ step' = "prove"
        /\ intent' = "submitting" /\ runs' = runs + 1
        /\ UNCHANGED <<conn, epoch, arrived, cursor, out, terminal, handler,
                       waiter, native, live, cancellation>>
    BY Zenon DEF CreateAgent, PluginStep, server, socket, journal, exchange, attempt
  <1>2. runs = 0 /\ ~live /\ handler.row \in 1..Len(rows) /\ native = "none"
          /\ waiter.owner = "none"
    BY <1>1, Zenon DEF Inv, Phased, TypeOK, Owners
  <1>3. runs' = 1 /\ intent' \in Phases /\ step' \in Steps
    BY <1>1, <1>2, SMTT(30) DEF Phases, Steps
  <1>4. TypeOK'
    BY <1>1, <1>3, SMTT(30) DEF Inv, TypeOK, PluginStep
  <1>5. Phased'
    BY <1>1, <1>2, <1>3, SMTT(30) DEF Inv, Phased, PluginStep
  <1>6. ClaimSeen'
    BY <1>1, Zenon DEF Inv, ClaimSeen, Claimed, PluginStep
  <1>7. Adopted'
    BY <1>1, QueuedNone, AdoptedKept, ZenonT(30) DEF Inv, TypeOK, Adopted
  <1> QED
    BY <1>4, <1>5, <1>6, <1>7, Zenon DEF Inv

LEMMA ProveStartedKeeps ==
  ASSUME Inv, ProveStarted
  PROVE  Inv'
  <1>1. /\ PluginStep /\ step = "prove" /\ Return(SameSocket)
        /\ intent' = "started" /\ live' = TRUE
        /\ UNCHANGED <<conn, epoch, arrived, cursor, out, terminal, waiter,
                       native, cancellation, runs>>
    BY Zenon DEF ProveStarted, PluginStep, server, socket, exchange, harness
  <1>2. /\ step' = "idle" /\ step' \in Steps
        /\ handler' \in [row : Nat, epoch : Nat]
    BY <1>1, Returned, Zenon
  <1>3. intent' \in Phases
    BY <1>1, Zenon DEF Phases
  <1>4. TypeOK'
    BY <1>1, <1>2, <1>3, Zenon DEF Inv, TypeOK, PluginStep
  <1>5. Phased'
    BY <1>1, <1>2, Zenon DEF Inv, Phased, PluginStep
  <1> QED
    BY <1>1, <1>2, <1>4, <1>5, QueuedNone, PluginKeeps, Zenon DEF Inv, TypeOK

LEMMA StartFailsKeeps ==
  ASSUME Inv, StartFails
  PROVE  Inv'
  <1>1. /\ PluginStep /\ step \in {"create", "prove"} /\ Return(SameSocket)
        /\ UNCHANGED <<conn, epoch, arrived, cursor, out, intent, terminal,
                       waiter, native, live, cancellation, runs>>
    BY Zenon DEF StartFails, PluginStep, server, socket, owned, exchange, attempt
  <1>2. /\ step' = "idle" /\ step' \in Steps
        /\ handler' \in [row : Nat, epoch : Nat]
    BY <1>1, Returned, Zenon
  <1>3. TypeOK'
    BY <1>1, <1>2, Zenon DEF Inv, TypeOK, PluginStep
  <1>4. Phased'
    BY <1>1, <1>2, Zenon DEF Inv, Phased, PluginStep
  <1> QED
    BY <1>1, <1>2, <1>3, <1>4, QueuedNone, PluginKeeps, Zenon DEF Inv, TypeOK

LEMMA TurnEndsKeeps ==
  ASSUME Inv, NEW outcome \in Outcomes, TurnEnds(outcome)
  PROVE  Inv'
  <1>1. /\ PluginStep
        /\ UNCHANGED <<conn, epoch, arrived, cursor, intent, terminal, handler,
                       step, live, cancellation, runs>>
    BY Zenon DEF TurnEnds, PluginStep, server, socket, journal, owned, task, attempt
  <1>2. CASE live /\ intent = "started" /\ CanObserve
    <2>1. PICK scope \in BOOLEAN : Observe("native", scope, out)
      BY <1>2, Zenon DEF TurnEnds
    <2>2. native' = outcome /\ outcome # "none"
      BY <1>2, Zenon DEF TurnEnds, Outcomes
    <2>3. /\ QueuesQuietly /\ out' \in Seq(Messages) /\ consumed <= Len(out')
          /\ waiter' \in [owner : Owners, request : Nat, scope : BOOLEAN]
          /\ waiter'.owner = "native"
      BY <2>1, Observed, Zenon DEF Inv, Owners
    <2>4. TypeOK'
      BY <1>1, <2>2, <2>3, Zenon DEF Inv, TypeOK, PluginStep
    <2>5. Phased'
      BY <1>1, <1>2, <2>2, <2>3, Zenon DEF Inv, Phased, PluginStep, CanObserve
    <2>6. step' # "create"
      BY <1>1, <1>2, Zenon DEF Inv, Phased
    <2> QED
      BY <1>1, <2>3, <2>4, <2>5, <2>6, PluginKeeps, Zenon
  <1>3. CASE ~(live /\ intent = "started" /\ CanObserve)
    <2>1. UNCHANGED <<waiter, native, out>>
      BY <1>3, Zenon DEF TurnEnds, exchange
    <2>2. TypeOK'
      BY <1>1, <2>1, Zenon DEF Inv, TypeOK, PluginStep
    <2>3. Phased'
      BY <1>1, <2>1, Zenon DEF Inv, Phased, PluginStep
    <2>4. ClaimSeen'
      BY <1>1, ClaimSeenKept, Zenon DEF Inv
    <2>5. Adopted'
      BY <1>1, <2>1, QueuedNone, AdoptedKept, Zenon DEF Inv, TypeOK, Adopted
    <2> QED
      BY <2>2, <2>3, <2>4, <2>5, Zenon DEF Inv
  <1> QED
    BY <1>2, <1>3, Zenon

\* commitCancelled under an authority that is still current.
LEMMA CommitCancelledKeeps ==
  ASSUME Inv, CommitCancelled
  PROVE  Inv'
  <1>1. /\ PluginStep /\ step = "quiesce" /\ Return(SameSocket)
        /\ UNCHANGED <<conn, epoch, arrived, cursor, waiter, native, live,
                       cancellation, runs>>
    BY Zenon DEF CommitCancelled, PluginStep, server, socket, exchange, attempt, harness
  <1>2. /\ step' = "idle" /\ step' \in Steps
        /\ handler' \in [row : Nat, epoch : Nat]
    BY <1>1, Returned, Zenon
  <1>3. live /\ intent \in {"started", "terminal"}
    BY <1>1, Zenon DEF Inv, Phased
  <1>4. /\ Adopted' /\ out' \in Seq(Messages) /\ consumed <= Len(out')
        /\ terminal' \in {"none"} \cup Final
        /\ intent' \in {intent, "terminal"}
    <2>1. CASE AuthorityCurrent(cancellation)
      <3>1. CommitTerminal("cancelled")
        BY <2>1, Zenon DEF CommitCancelled
      <3>2. ~Settled => status = "cancelling"
        BY <2>1, Zenon DEF AuthorityCurrent, Inv, Phased, Adopted
      <3>3. "cancelled" \in Final /\ "cancelled" \notin Outcomes
        BY Zenon DEF Final, Outcomes
      <3>4. /\ Adopted' /\ out' \in Seq(Messages) /\ Len(out) <= Len(out')
            /\ terminal' \in {"none"} \cup Final
            /\ intent' \in {intent, "terminal"}
        BY <1>1, <3>1, <3>2, <3>3, CommitKeeps, Zenon DEF Inv
      <3>5. Len(out') \in Nat /\ Len(out) \in Nat
        BY <3>4, SMTT(30) DEF Inv, TypeOK
      <3> QED
        BY <3>4, <3>5, SMTT(30) DEF Inv, TypeOK
    <2>2. CASE ~AuthorityCurrent(cancellation)
      <3>1. UNCHANGED <<out, intent, terminal>>
        BY <2>2, Zenon DEF CommitCancelled, owned
      <3> QED
        BY <1>1, <3>1, QueuedNone, AdoptedKept, Zenon DEF Inv, TypeOK, Adopted
    <2> QED
      BY <2>1, <2>2, Zenon
  <1>5. TypeOK'
    <2>1. intent' \in Phases
      BY <1>4, Zenon DEF Inv, TypeOK, Phases
    <2> QED
      BY <1>1, <1>2, <1>4, <2>1, Zenon DEF Inv, TypeOK, PluginStep
  <1>6. Phased'
    BY <1>1, <1>2, <1>3, <1>4, Zenon DEF Inv, Phased, PluginStep
  <1>7. ClaimSeen'
    BY <1>1, <1>2, ClaimSeenKept, Zenon DEF Inv
  <1> QED
    BY <1>4, <1>5, <1>6, <1>7, Zenon DEF Inv

LEMMA CancelLapsesKeeps ==
  ASSUME Inv, CancelLapses
  PROVE  Inv'
  <1>1. /\ PluginStep /\ step = "quiesce" /\ Return(SameSocket)
        /\ UNCHANGED <<conn, epoch, arrived, cursor, out, intent, terminal,
                       waiter, native, live, cancellation, runs>>
    BY Zenon DEF CancelLapses, PluginStep, server, socket, owned, exchange, attempt,
           harness
  <1>2. /\ step' = "idle" /\ step' \in Steps
        /\ handler' \in [row : Nat, epoch : Nat]
    BY <1>1, Returned, Zenon
  <1>3. TypeOK'
    BY <1>1, <1>2, Zenon DEF Inv, TypeOK, PluginStep
  <1>4. Phased'
    BY <1>1, <1>2, Zenon DEF Inv, Phased, PluginStep
  <1> QED
    BY <1>1, <1>2, <1>3, <1>4, QueuedNone, PluginKeeps, Zenon DEF Inv, TypeOK

\* An exchange ends without its answer, by its deadline or with its socket.
LEMMA ExchangeFailsKeeps ==
  ASSUME Inv, PluginStep, waiter.owner # "none", NEW complete,
         ExchangeFails(complete), conn' \in {conn, "offline"},
         UNCHANGED <<epoch, arrived, cursor, out, intent, terminal, live,
                     cancellation, runs>>
  PROVE  Inv'
  <1>1. /\ waiter' \in [owner : Owners, request : Nat, scope : BOOLEAN]
        /\ waiter'.owner = "none"
    BY Zenon DEF ExchangeFails, NoWaiter, Owners
  <1>2. CASE waiter.owner \in {"start", "cancel"}
    <2>1. Return(complete) /\ native' = native
      BY <1>2, Zenon DEF ExchangeFails
    <2>2. /\ step' = "idle" /\ step' \in Steps
          /\ handler' \in [row : Nat, epoch : Nat]
      BY <2>1, Returned, Zenon
    <2>3. TypeOK'
      BY <1>1, <2>1, <2>2, Zenon DEF Inv, TypeOK, PluginStep
    <2>4. Phased'
      BY <1>1, <1>2, <2>1, <2>2, Zenon DEF Inv, Phased, PluginStep
    <2> QED
      BY <2>2, <2>3, <2>4, QueuedNone, PluginKeeps, Zenon DEF Inv, TypeOK
  <1>3. CASE waiter.owner \notin {"start", "cancel"}
    <2>1. native' = "none" /\ UNCHANGED <<handler, step>>
      BY <1>3, Zenon DEF ExchangeFails, task
    <2>2. TypeOK'
      BY <1>1, <2>1, Zenon DEF Inv, TypeOK, PluginStep
    <2>3. waiter.owner = "native"
      BY <1>3, Zenon DEF Inv, TypeOK, Owners
    <2>4. Phased'
      BY <1>1, <2>1, <2>3, Zenon DEF Inv, Phased, PluginStep
    <2>5. step' # "create"
      BY <2>1, <2>3, Zenon DEF Inv, Phased
    <2> QED
      BY <2>2, <2>4, <2>5, QueuedNone, PluginKeeps, Zenon DEF Inv, TypeOK
  <1> QED
    BY <1>2, <1>3, Zenon

LEMMA TimeoutKeeps ==
  ASSUME Inv, waiter.owner # "none", ExchangeTimesOut
  PROVE  Inv'
  <1>1. /\ PluginStep /\ ExchangeFails(SameSocket)
        /\ conn' = conn
        /\ UNCHANGED <<epoch, arrived, cursor, out, intent, terminal, live,
                       cancellation, runs>>
    BY Zenon DEF ExchangeTimesOut, PluginStep, server, socket, owned, attempt, harness
  <1> QED
    BY <1>1, ExchangeFailsKeeps, Zenon

\* A step that only moves the connection.
LEMMA LinkKeeps ==
  ASSUME Inv, PluginStep,
         conn' \in {"down", "offline", "open", "ready"}, epoch' \in Nat,
         arrived' \in {arrived, cursor}, conn' = "ready" => epoch' # 0,
         UNCHANGED <<cursor, out, intent, terminal, handler, step, waiter,
                     native, live, cancellation, runs>>
  PROVE  Inv'
  <1>1. TypeOK'
    BY Zenon DEF Inv, TypeOK, PluginStep
  <1>2. Phased'
    BY Zenon DEF Inv, Phased, PluginStep
  <1>3. ClaimSeen'
    BY ClaimSeenKept, Zenon DEF Inv
  <1>4. Adopted'
    BY QueuedNone, AdoptedKept, Zenon DEF Inv, TypeOK, Adopted
  <1> QED
    BY <1>1, <1>2, <1>3, <1>4, Zenon DEF Inv

LEMMA ConnectionKeeps ==
  ASSUME Inv, Connect \/ Welcome \/ Restart
  PROVE  Inv'
  <1>1. /\ PluginStep
        /\ UNCHANGED <<cursor, out, intent, terminal, handler, step, waiter,
                       native, live, cancellation, runs>>
    BY Zenon DEF Connect, Welcome, Restart, PluginStep, server, journal, owned, task,
           exchange, attempt, harness
  <1>2. /\ conn' \in {"down", "offline", "open", "ready"} /\ epoch' \in Nat
        /\ arrived' \in {arrived, cursor}
        /\ conn' = "ready" => epoch' # 0
    BY SMTT(30) DEF Connect, Welcome, Restart, Inv, TypeOK
  <1> QED
    BY <1>1, <1>2, LinkKeeps, Zenon

LEMMA DropKeeps ==
  ASSUME Inv, Drop
  PROVE  Inv'
  <1>1. /\ PluginStep /\ conn' = "offline"
        /\ UNCHANGED <<epoch, arrived, cursor, out, intent, terminal, live,
                       cancellation, runs>>
    BY Zenon DEF Drop, PluginStep, server, owned, attempt, harness
  <1>2. CASE waiter.owner = "none"
    <2>1. UNCHANGED <<handler, step, waiter, native>>
      BY <1>2, Zenon DEF Drop, exchange, task
    <2> QED
      BY <1>1, <2>1, LinkKeeps, Zenon DEF Inv, TypeOK
  <1>3. CASE waiter.owner # "none"
    BY <1>1, <1>3, ExchangeFailsKeeps, Zenon DEF Drop
  <1> QED
    BY <1>2, <1>3, Zenon

\* What a crash leaves is what the store holds.
LEMMA CrashKeeps ==
  ASSUME Inv, Crash
  PROVE  Inv'
  <1>1. /\ PluginStep /\ conn' = "down" /\ handler' = NoHandler
        /\ step' = "idle" /\ waiter' = NoWaiter /\ native' = "none"
        /\ live' = FALSE /\ cancellation' = 0
        /\ UNCHANGED <<epoch, arrived, cursor, out, intent, terminal, runs>>
    BY Zenon DEF Crash, PluginStep, server, journal, owned
  <1>2. /\ handler' \in [row : Nat, epoch : Nat] /\ step' \in Steps
        /\ waiter' \in [owner : Owners, request : Nat, scope : BOOLEAN]
        /\ waiter'.owner = "none"
    BY <1>1, Zenon DEF NoHandler, NoWaiter, Owners, Steps
  <1>3. TypeOK'
    BY <1>1, <1>2, Zenon DEF Inv, TypeOK, PluginStep
  <1>4. Phased'
    BY <1>1, <1>2, Zenon DEF Inv, Phased, PluginStep
  <1>5. ClaimSeen'
    BY <1>1, ClaimSeenKept, Zenon DEF Inv
  <1>6. Adopted'
    BY <1>1, QueuedNone, AdoptedKept, Zenon DEF Inv, TypeOK
  <1> QED
    BY <1>3, <1>4, <1>5, <1>6, Zenon DEF Inv

-----------------------------------------------------------------------------
(* The theorems *)

LEMMA InitInv == Init => Inv
  <1> SUFFICES ASSUME Init PROVE Inv
    BY Zenon
  <1> DEFINE r == Row("offer", 1, "dispatched", 0)
  <1>1. r \in Rows /\ r.type = "offer"
    BY Zenon DEF Row, Rows, Statuses
  <1>2. rows = <<r>>
    BY Zenon DEF Init
  <1> HIDE DEF r
  <1>3. /\ rows \in Seq(Rows) /\ Len(rows) = 1
        /\ \A n \in 1..Len(rows) : rows[n].type = "offer"
    BY <1>1, <1>2, SMTT(30)
  <1>4. out \in Seq(Messages) /\ Len(out) = 0 /\ consumed = 0
    BY SMTT(30) DEF Init
  <1>5. /\ handler \in [row : Nat, epoch : Nat] /\ step \in Steps
        /\ waiter \in [owner : Owners, request : Nat, scope : BOOLEAN]
        /\ waiter.owner = "none" /\ status \in Statuses /\ intent \in Phases
    BY Zenon DEF Init, NoHandler, NoWaiter, Owners, Steps, Statuses, Phases
  <1>6. TypeOK
    <2>1. /\ lease = 1 /\ conn = "offline" /\ epoch = 0 /\ arrived = 0
          /\ cursor = 0 /\ terminal = "none" /\ native = "none"
          /\ live = FALSE /\ cancellation = 0 /\ runs = 0
      BY Zenon DEF Init
    <2>2. live \in BOOLEAN /\ 0 \in Nat /\ 1 \in Nat
      BY <2>1, Zenon
    <2>3. /\ lease \in Nat /\ epoch \in Nat /\ arrived \in Nat /\ cursor \in Nat
          /\ consumed \in Nat /\ cancellation \in Nat /\ runs \in Nat
          /\ consumed <= Len(out) /\ arrived <= Len(rows) /\ cursor <= Len(rows)
      BY <1>3, <1>4, <2>1, <2>2, SMTT(30)
    <2>4. /\ conn \in {"down", "offline", "open", "ready"}
          /\ terminal \in {"none"} \cup Final
          /\ native \in {"none"} \cup Outcomes
      BY <2>1, Zenon
    <2> QED
      BY <1>3, <1>4, <1>5, <2>2, <2>3, <2>4, Zenon DEF TypeOK
  <1>7. Phased
    BY <1>5, SMTT(30) DEF Init, Phased
  <1>8. ClaimSeen
    BY <1>3, SMTT(30) DEF Init, ClaimSeen
  <1>9. Adopted
    BY <1>3, <1>4, SMTT(30) DEF Init, Adopted, Settled, Outcomes
  <1> QED
    BY <1>6, <1>7, <1>8, <1>9, Zenon DEF Inv

LEMMA StutterKeeps ==
  ASSUME Inv, UNCHANGED vars
  PROVE  Inv'
  <1>1. /\ PluginStep
        /\ UNCHANGED <<conn, epoch, arrived, cursor, out, intent, terminal,
                       handler, step, waiter, native, live, cancellation, runs>>
    BY Zenon DEF vars, server, socket, journal, owned, task, exchange, attempt,
           harness, PluginStep
  <1> QED
    BY <1>1, LinkKeeps, Zenon DEF Inv, TypeOK, Phased

\* Every step of the control plane, the pump, the driver, the connection and
\* the environment keeps the invariant.
THEOREM Invariance == Spec => []Inv
  <1>1. Inv /\ [Next]_vars => Inv'
    <2> SUFFICES ASSUME Inv, [Next]_vars PROVE Inv'
      BY Zenon
    <2>1. CASE Progress
      <3>1. CASE Consume \/ Arrive \/ Pump \/ Recover
        BY <3>1, ConsumeKeeps, ArriveKeeps, PumpKeeps, RecoverKeeps, Zenon
      <3>2. CASE Connect \/ Welcome \/ Restart
        BY <3>2, ConnectionKeeps, Zenon
      <3>3. CASE PublishClaim \/ CreateAgent \/ ProveStarted \/ CommitCancelled
        BY <3>3, PublishClaimKeeps, CreateAgentKeeps, ProveStartedKeeps,
           CommitCancelledKeeps, Zenon
      <3>4. CASE AbortedTurnEnds
        BY <3>4, TurnEndsKeeps, Zenon DEF AbortedTurnEnds
      <3>5. CASE BlockedTimesOut
        BY <3>5, TimeoutKeeps, Zenon DEF BlockedTimesOut, Blocked
      <3> QED
        BY <2>1, <3>1, <3>2, <3>3, <3>4, <3>5, Zenon DEF Progress
    <2>2. CASE Environment
      <3>1. CASE OfferAgain \/ OwnerCancels \/ StartFails \/ CancelLapses
        BY <3>1, OfferAgainKeeps, OwnerCancelsKeeps, StartFailsKeeps,
           CancelLapsesKeeps, Zenon
      <3>2. CASE RunningTurnEnds
        BY <3>2, TurnEndsKeeps, Zenon DEF RunningTurnEnds
      <3>3. CASE SlowTimesOut
        BY <3>3, TimeoutKeeps, Zenon DEF SlowTimesOut
      <3>4. CASE Drop \/ Crash
        BY <3>4, DropKeeps, CrashKeeps, Zenon
      <3> QED
        BY <2>2, <3>1, <3>2, <3>3, <3>4, Zenon DEF Environment
    <2>3. CASE UNCHANGED vars
      BY <2>3, StutterKeeps, Zenon
    <2> QED
      BY <2>1, <2>2, <2>3, Zenon DEF Next
  <1> QED
    BY <1>1, InitInv, PTL DEF Spec

\* An attempt is given to an agent at most once, and only after the control
\* plane accepted its claim, for any number of offers, cancellations, lost
\* connections, crashes, timeouts and failures (start, admit,
\* prepareOwnedIntent).
THEOREM RunsOnceClaimedHolds == Spec => []RunsOnceClaimed
  <1>1. Inv => RunsOnceClaimed
    BY Zenon DEF Inv, Phased, ClaimSeen, Claimed, RunsOnceClaimed
  <1> QED
    BY <1>1, Invariance, PTL

\* The turn's end and the cancellation leave one outcome: one message carries
\* the record, and once it is consumed the job has that status (commitTerminal,
\* stateEligible, ingestJobEvent, ingestJobCancelled).
THEOREM OneOutcomeHolds == Spec => []OneOutcome
  <1>1. Inv => OneOutcome
    <2> SUFFICES ASSUME Inv PROVE OneOutcome
      BY Zenon
    <2>1. Len(out) \in Nat /\ consumed \in Nat /\ consumed <= Len(out)
      BY DEF Inv, TypeOK
    <2>2. \A m : m \in OutcomesIn(Len(out)) <=>
                   m \in 1..Len(out) /\ out[m].type = "outcome"
      BY Zenon DEF OutcomesIn
    <2>3. Cardinality(OutcomesIn(Len(out))) = (IF terminal = "none" THEN 0 ELSE 1)
      <3>1. CASE terminal = "none"
        <4>1. OutcomesIn(Len(out)) = {}
          BY <2>2, <3>1, Zenon DEF Inv, Adopted
        <4> QED
          BY <3>1, <4>1, FS_EmptySet, Zenon
      <3>2. CASE terminal # "none"
        <4>1. PICK m \in 1..Len(out) : out[m].type = "outcome"
          BY <3>2, Zenon DEF Inv, Adopted
        <4>2. OutcomesIn(Len(out)) = {m}
          BY <2>2, <4>1, Zenon DEF Inv, Adopted
        <4> QED
          BY <3>2, <4>2, FS_Singleton, ZenonT(30)
      <3> QED
        BY <3>1, <3>2, Zenon
    <2>4. \A m \in OutcomesIn(Len(out)) : out[m].outcome = terminal
      BY <2>2, Zenon DEF Inv, Adopted
    <2>5. OutcomesIn(consumed) # {} => status = terminal
      BY Zenon DEF OutcomesIn, Inv, Adopted, Settled
    <2> QED
      BY <2>3, <2>4, <2>5, Zenon DEF OneOutcome
  <1> QED
    BY <1>1, Invariance, PTL
===============================================================================
