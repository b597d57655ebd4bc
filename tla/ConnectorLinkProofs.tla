-------------------------- MODULE ConnectorLinkProofs -------------------------
(***************************************************************************)
(* Proofs about ConnectorLink, for every window, every set of dispositions *)
(* and every bound: what the Connector retires was consumed, what it       *)
(* acknowledges is settled, and a delivered decision takes effect.  The    *)
(* inductive invariant comes first, then the steps of the control plane    *)
(* and of its rows, then the steps of the Connector.                       *)
(***************************************************************************)
EXTENDS ConnectorLink, TLAPS

-----------------------------------------------------------------------------
(* The inductive invariant *)

Kinds == {"welcome", "ack", "reject", "state", "command", "tomb"}
Rows == [ver : Nat, kind : Kinds, ref : Nat]
Frames == [seq : Nat, ver : Nat, kind : Kinds, ref : Nat]
Messages == [kind : {"hello", "event", "ack"}, ref : Nat, last : Nat]
Packets == [seq : Nat, msg : Messages]
Entries == [ver : Nat, kind : Kinds, ref : Nat, delivered : BOOLEAN]
Receipts == [msg : Messages, disposition : {"ack", "reject", "state"},
             answer : Seq(Nat)]
Gates == [init : BOOLEAN, replaying : BOOLEAN, scan : Nat, resend : Seq(Frames)]
Bounds == {"event", "command", "drop", "crash", "expire", "stall", "late"}
Clients == [state : {"down", "offline", "open"}, welcomed : BOOLEAN,
            recover : Nat \cup {-1}, sent : Nat, busy : Nat, live : BOOLEAN]

TypeOK ==
  /\ rows \in Seq(Rows) /\ receipts \in Seq(Receipts)
  /\ gate \in Gates /\ upward \in Seq(Packets) /\ downward \in Seq(Frames)
  /\ out \in Seq(Messages) /\ proven \in Nat /\ hello \in Nat
  /\ journal \in Seq(Entries) /\ client \in Clients
  /\ spent \in [Bounds -> Nat]

\* A receipt names one of the first count client messages.
Backed(x, count) == x.kind \in {"ack", "welcome"} => x.ref \in 1..count

\* Row n was queued as a command, and is one until its deadline passes.
Commanded(n, table, past) ==
  /\ n \in 1..Len(table)
  /\ table[n].kind = "command" \/ \E e \in past : e[1] = n

\* A frame to the Connector, wherever it is.
Genuine(f, table, count, past) ==
  /\ Backed(f, count)
  /\ f.kind = "command" => Commanded(f.seq, table, past)

\* The command of a journal was handled, or its deadline has passed.
Closed(n, log, done, past) == n \in done \/ <<n, log[n].ver>> \in past

\* What the control plane holds: receipts of what it consumed, and responses
\* that are never commands.
Tables ==
  /\ \A n \in 1..Len(rows) : Backed(rows[n], Len(receipts))
  /\ \A i \in 1..Len(receipts) : \A k \in 1..Len(receipts[i].answer) :
       /\ receipts[i].answer[k] \in 1..Len(rows)
       /\ rows[receipts[i].answer[k]].kind # "command"

\* What is in flight: genuine frames one way, queued messages the other.
Wire ==
  /\ \A k \in 1..Len(downward) :
       Genuine(downward[k], rows, Len(receipts), expired)
  /\ \A k \in 1..Len(gate.resend) :
       Genuine(gate.resend[k], rows, Len(receipts), expired)
  /\ \A k \in 1..Len(upward) :
       upward[k].seq \in 1..Len(out) /\ upward[k].msg = out[upward[k].seq]

\* What the Connector's queue says of the control plane.
Queue ==
  /\ hello <= Len(out)
  /\ proven <= Len(receipts) /\ Len(receipts) <= Len(out)
  /\ \A i \in 1..Len(receipts) : receipts[i].msg = out[i]

\* What a journal says of the commands: it records genuine messages, and a
\* command that is marked delivered, or was acknowledged, is closed.
Kept(log, queue, done, table, count, past) ==
  /\ \A n \in 1..Len(log) :
       /\ Backed(log[n], count)
       /\ log[n].kind = "command" => Commanded(n, table, past)
       /\ log[n].kind = "command" /\ log[n].delivered =>
            Closed(n, log, done, past)
  /\ \A s \in 1..Len(queue) : queue[s].kind = "ack" =>
       /\ queue[s].ref \in 1..Len(log)
       /\ log[queue[s].ref].kind = "command" =>
            Closed(queue[s].ref, log, done, past)

\* What the Connector has recorded, and is at.
Ledger ==
  /\ Kept(journal, out, handled, rows, Len(receipts), expired)
  /\ client.busy # 0 =>
       client.busy \in 1..Len(journal) /\ journal[client.busy].kind = "command"
  /\ client.recover > 0 =>
       client.recover \in 1..Len(journal) /\ journal[client.recover].delivered

\* The ack of a handled command that was consumed found the command, or its
\* deadline had passed.
Heard ==
  \A i \in 1..Len(receipts) :
    receipts[i].msg.kind = "ack" /\ receipts[i].msg.ref \in handled
      => \/ receipts[i].msg.ref \in resumed
         \/ \E e \in expired : e[1] = receipts[i].msg.ref

\* What was handled was a command.
Decided == Heard /\ \A n \in handled : Commanded(n, rows, expired)

Inv == TypeOK /\ Tables /\ Wire /\ Queue /\ Ledger /\ Decided

-----------------------------------------------------------------------------
(* Facts the steps share *)

LEMMA MaxOfTwo ==
  ASSUME NEW a \in Nat, NEW b \in Nat
  PROVE  Max({a, b}) \in {a, b}
  <1>1. \E x \in {a, b} : \A y \in {a, b} : x >= y
    <2>1. CASE a >= b
      BY <2>1
    <2>2. CASE b >= a
      BY <2>2
    <2> QED
      BY <2>1, <2>2
  <1> QED
    BY <1>1, Zenon DEF Max

LEMMA Spent ==
  ASSUME spent \in [Bounds -> Nat], NEW what \in Bounds, Spend(what)
  PROVE  spent' \in [Bounds -> Nat]
  BY DEF Spend

\* A step of the control plane: its tables grow, its commands stay commands
\* until they expire, and what it sends is genuine.
LEMMA ServerKeeps ==
  ASSUME Inv, UNCHANGED <<out, proven, hello, journal, handled, client>>,
         rows' \in Seq(Rows), receipts' \in Seq(Receipts), gate' \in Gates,
         upward' \in Seq(Packets), downward' \in Seq(Frames),
         spent' \in [Bounds -> Nat], expired \subseteq expired',
         Len(rows) <= Len(rows'), Len(receipts) <= Len(receipts'),
         Len(receipts') <= Len(out), Tables', Wire', Heard',
         \A n \in 1..Len(rows) : Commanded(n, rows, expired) =>
           Commanded(n, rows', expired'),
         \A i \in 1..Len(receipts') : receipts'[i].msg = out[i]
  PROVE  Inv'
  <1>1. TypeOK'
    BY Zenon DEF Inv, TypeOK
  <1>2. Queue'
    <2>1. Len(receipts) \in Nat /\ Len(receipts') \in Nat /\ proven \in Nat
      BY DEF Inv, TypeOK
    <2> QED
      BY <2>1 DEF Inv, Queue
  <1>3. \A n : Commanded(n, rows, expired) => Commanded(n, rows', expired')
    BY Zenon DEF Commanded
  <1>4. \A x : Backed(x, Len(receipts)) => Backed(x, Len(receipts'))
    BY SMTT(30) DEF Backed, Inv, TypeOK
  <1>5. \A n : Closed(n, journal, handled, expired) =>
                 Closed(n, journal', handled', expired')
    BY Zenon DEF Closed
  <1>6. Ledger'
    <2>1. Kept(journal, out, handled, rows, Len(receipts), expired)
      BY Zenon DEF Inv, Ledger
    <2>2. Kept(journal', out', handled', rows', Len(receipts'), expired')
      BY <1>3, <1>4, <1>5, <2>1, Zenon DEF Kept
    <2> QED
      BY <2>2, Zenon DEF Inv, Ledger
  <1>7. Decided'
    BY <1>3, Zenon DEF Inv, Decided
  <1> QED
    BY <1>1, <1>2, <1>6, <1>7, Zenon DEF Inv

\* What was genuine stays so.
LEMMA GenuineKept ==
  ASSUME TypeOK, receipts' \in Seq(Receipts), Len(receipts) <= Len(receipts'),
         \A n \in 1..Len(rows) : Commanded(n, rows, expired) =>
           Commanded(n, rows', expired')
  PROVE  \A f : Genuine(f, rows, Len(receipts), expired) =>
                  Genuine(f, rows', Len(receipts'), expired')
  <1>1. \A n : Commanded(n, rows, expired) => Commanded(n, rows', expired')
    BY Zenon DEF Commanded
  <1>2. \A x : Backed(x, Len(receipts)) => Backed(x, Len(receipts'))
    BY DEF Backed, TypeOK
  <1> QED
    BY <1>1, <1>2, Zenon DEF Genuine

-----------------------------------------------------------------------------
(* Steps of the control plane *)

\* A function on 1..n is a sequence.
LEMMA Sequenced ==
  ASSUME NEW S, NEW n \in Nat, NEW r, r = [k \in 1..n |-> r[k]],
         \A k \in 1..n : r[k] \in S
  PROVE  r \in Seq(S) /\ Len(r) = n
  <1>1. r \in [1..n -> S]
    BY Zenon
  <1> QED
    BY <1>1

LEMMA Appended ==
  ASSUME NEW S, NEW q \in Seq(S), NEW x \in S
  PROVE  /\ Append(q, x) \in Seq(S) /\ Len(Append(q, x)) = Len(q) + 1
         /\ \A k \in 1..Len(q) : Append(q, x)[k] = q[k]
         /\ Append(q, x)[Len(q) + 1] = x
         /\ \A k \in 1..Len(Append(q, x)) :
              \/ k \in 1..Len(q) /\ Append(q, x)[k] = q[k]
              \/ k = Len(q) + 1 /\ Append(q, x)[k] = x
  OBVIOUS

\* tombstoneReplayBatch only takes rows whose deadline has passed.
LEMMA TombstonedRows ==
  ASSUME TypeOK, NEW m \in Nat
  PROVE  /\ Tombstoned(m) \in Seq(Rows) /\ Len(Tombstoned(m)) = Len(rows)
         /\ \A n \in 1..Len(rows) :
              \/ Tombstoned(m)[n] = rows[n]
              \/ Tombstoned(m)[n].kind = "tomb" /\ <<n, rows[n].ver>> \in expired
  <1> DEFINE r == Tombstoned(m)
  <1>1. DOMAIN rows = 1..Len(rows) /\ \A n \in 1..Len(rows) : rows[n] \in Rows
    BY DEF TypeOK
  <1>2. /\ r = [n \in 1..Len(rows) |-> r[n]]
        /\ \A n \in 1..Len(rows) :
             r[n] = IF n > m /\ Late(n, rows[n].ver)
                      THEN [ver |-> rows[n].ver + 1, kind |-> "tomb",
                            ref |-> rows[n].ref]
                      ELSE rows[n]
    BY <1>1, Zenon DEF Tombstoned
  <1> HIDE DEF r
  <1>3. \A n \in 1..Len(rows) : r[n] \in Rows
    BY <1>1, <1>2 DEF Rows, Kinds
  <1>4. r \in Seq(Rows) /\ Len(r) = Len(rows)
    BY <1>2, <1>3, Sequenced DEF TypeOK
  <1>5. \A n \in 1..Len(rows) :
          \/ r[n] = rows[n]
          \/ r[n].kind = "tomb" /\ <<n, rows[n].ver>> \in expired
    BY <1>2 DEF Late
  <1> QED
    BY <1>4, <1>5, Zenon DEF r

LEMMA OriginalKinds ==
  ASSUME TypeOK, NEW i \in 1..Len(receipts), NEW k
  PROVE  OriginalKind(i, k) \in Kinds \ {"command"}
  <1>1. receipts[i] \in Receipts
    BY DEF TypeOK
  <1>2. receipts[i].disposition \in {"ack", "reject", "state"}
    BY <1>1, Zenon DEF Receipts
  <1> QED
    BY <1>2, Zenon DEF OriginalKind, Kinds

\* refreshServerMessage only takes rows of the response, and names what it
\* answers.
LEMMA RefreshedRows ==
  ASSUME Inv, NEW i \in 1..Len(receipts)
  PROVE  /\ Refreshed(i) \in Seq(Rows) /\ Len(Refreshed(i)) = Len(rows)
         /\ \A n \in 1..Len(rows) :
              \/ Refreshed(i)[n] = rows[n]
              \/ /\ rows[n].kind # "command"
                 /\ Refreshed(i)[n].kind # "command" /\ Refreshed(i)[n].ref = i
  <1> DEFINE r == Refreshed(i)
  <1>1. DOMAIN rows = 1..Len(rows) /\ \A n \in 1..Len(rows) : rows[n] \in Rows
    BY DEF Inv, TypeOK
  <1>2. DOMAIN receipts[i].answer = 1..Len(receipts[i].answer)
    <2>1. receipts[i] \in Receipts
      BY DEF Inv, TypeOK
    <2>2. receipts[i].answer \in Seq(Nat)
      BY <2>1, Zenon DEF Receipts
    <2> QED
      BY <2>2
  <1>3. \A x \in Restorable(i) :
          /\ x[2] \in Kinds \ {"command"}
          /\ x[1] \in 1..Len(rows) /\ rows[x[1]].kind # "command"
    <2> SUFFICES ASSUME NEW x \in Restorable(i)
                 PROVE  /\ x[2] \in Kinds \ {"command"}
                        /\ x[1] \in 1..Len(rows) /\ rows[x[1]].kind # "command"
      BY Zenon
    <2>1. PICK k \in 1..Len(receipts[i].answer) :
            x = <<receipts[i].answer[k], OriginalKind(i, k)>>
      BY <1>2, Zenon DEF Restorable
    <2>2. OriginalKind(i, k) \in Kinds \ {"command"}
      BY OriginalKinds, Zenon DEF Inv
    <2> QED
      BY <2>1, <2>2, Zenon DEF Inv, Tables
  <1>4. /\ r = [n \in 1..Len(rows) |-> r[n]]
        /\ \A n \in 1..Len(rows) :
             r[n] = IF \E x \in Restorable(i) : x[1] = n
                      THEN [ver |-> rows[n].ver + 1,
                            kind |-> (CHOOSE x \in Restorable(i) : x[1] = n)[2],
                            ref |-> i]
                      ELSE rows[n]
    BY <1>1, Zenon DEF Refreshed
  <1> HIDE DEF r
  <1>5. \A n \in 1..Len(rows) :
          /\ r[n] \in Rows
          /\ \/ r[n] = rows[n]
             \/ rows[n].kind # "command" /\ r[n].kind # "command" /\ r[n].ref = i
    <2> SUFFICES ASSUME NEW n \in 1..Len(rows)
                 PROVE  /\ r[n] \in Rows
                        /\ \/ r[n] = rows[n]
                           \/ /\ rows[n].kind # "command"
                              /\ r[n].kind # "command" /\ r[n].ref = i
      BY Zenon
    <2>1. CASE \E x \in Restorable(i) : x[1] = n
      <3> DEFINE x == CHOOSE y \in Restorable(i) : y[1] = n
      <3>1. x \in Restorable(i) /\ x[1] = n
        BY <2>1, Zenon
      <3>2. r[n] = [ver |-> rows[n].ver + 1, kind |-> x[2], ref |-> i]
        BY <1>4, <2>1, Zenon
      <3> HIDE DEF x
      <3>3. x[2] \in Kinds /\ x[2] # "command" /\ rows[n].kind # "command"
        BY <1>3, <3>1, Zenon
      <3>4. i \in Nat /\ rows[n].ver + 1 \in Nat
        BY <1>1 DEF Rows
      <3> QED
        BY <3>2, <3>3, <3>4 DEF Rows
    <2>2. CASE ~\E x \in Restorable(i) : x[1] = n
      BY <1>1, <1>4, <2>2, Zenon
    <2> QED
      BY <2>1, <2>2, Zenon
  <1>6. r \in Seq(Rows) /\ Len(r) = Len(rows)
    BY <1>4, <1>5, Sequenced DEF Inv, TypeOK
  <1> QED
    BY <1>5, <1>6, Zenon DEF r

LEMMA FrameGenuine ==
  ASSUME NEW table \in Seq(Rows), NEW n \in 1..Len(table), NEW count, NEW past,
         Backed(table[n], count)
  PROVE  /\ Frame(table, n) \in Frames
         /\ Genuine(Frame(table, n), table, count, past)
  <1>1. table[n] \in Rows /\ n \in Nat
    OBVIOUS
  <1>2. Frame(table, n) \in Frames
    BY <1>1, Zenon DEF Frame, Frames, Rows
  <1>3. /\ Frame(table, n).kind = table[n].kind
        /\ Frame(table, n).ref = table[n].ref /\ Frame(table, n).seq = n
    BY Zenon DEF Frame
  <1>4. Backed(Frame(table, n), count)
    BY <1>3, Zenon DEF Backed
  <1> QED
    BY <1>2, <1>3, <1>4, Zenon DEF Genuine, Commanded

LEMMA UpwardHead ==
  ASSUME Inv, upward # <<>>
  PROVE  /\ Head(upward) \in Packets /\ Tail(upward) \in Seq(Packets)
         /\ Head(upward).seq \in 1..Len(out)
         /\ Head(upward).msg = out[Head(upward).seq]
         /\ \A k \in 1..Len(Tail(upward)) :
              /\ Tail(upward)[k].seq \in 1..Len(out)
              /\ Tail(upward)[k].msg = out[Tail(upward)[k].seq]
  <1>1. /\ Len(upward) \in Nat \ {0} /\ Head(upward) = upward[1]
        /\ Tail(upward) \in Seq(Packets) /\ Head(upward) \in Packets
        /\ Len(Tail(upward)) = Len(upward) - 1
        /\ \A k \in 1..Len(Tail(upward)) : Tail(upward)[k] = upward[k + 1]
    BY DEF Inv, TypeOK
  <1>2. 1 \in 1..Len(upward)
          /\ \A k \in 1..Len(Tail(upward)) : k + 1 \in 1..Len(upward)
    BY <1>1, SMTT(30)
  <1> QED
    BY <1>1, <1>2, ZenonT(30) DEF Inv, Wire

\* A duplicate restores what became of its response.
LEMMA AcceptDuplicateKeeps ==
  ASSUME Inv, upward # <<>>, AcceptDuplicate(Head(upward)),
         upward' = Tail(upward),
         UNCHANGED <<downward, out, proven, hello, journal, handled, client,
                     expired, spent>>
  PROVE  Inv'
  <1> DEFINE i == Head(upward).seq
             answer == receipts[i].answer
             resend == [k \in DOMAIN answer |-> Frame(Refreshed(i), answer[k])]
  <1>1. i \in 1..Len(receipts) /\ rows' = Refreshed(i)
          /\ UNCHANGED <<receipts, resumed>>
    BY SMTT(30) DEF AcceptDuplicate, Inv, TypeOK
  <1>2. /\ rows' \in Seq(Rows) /\ Len(rows') = Len(rows)
        /\ \A n \in 1..Len(rows) :
             \/ rows'[n] = rows[n]
             \/ /\ rows[n].kind # "command"
                /\ rows'[n].kind # "command" /\ rows'[n].ref = i
    BY <1>1, RefreshedRows, Zenon
  <1>3. \A n \in 1..Len(rows) : Commanded(n, rows, expired) =>
          Commanded(n, rows', expired')
    BY <1>2, Zenon DEF Commanded
  <1>4. Tables'
    <2>1. \A n \in 1..Len(rows') : Backed(rows'[n], Len(receipts'))
      BY <1>1, <1>2, Zenon DEF Inv, Tables, Backed
    <2>2. \A j \in 1..Len(receipts') : \A k \in 1..Len(receipts'[j].answer) :
            /\ receipts'[j].answer[k] \in 1..Len(rows')
            /\ rows'[receipts'[j].answer[k]].kind # "command"
      BY <1>1, <1>2, SMTT(30) DEF Inv, Tables
    <2> QED
      BY <2>1, <2>2, Zenon DEF Tables
  <1>5. answer \in Seq(Nat) /\ DOMAIN answer = 1..Len(answer)
    <2>1. receipts[i] \in Receipts
      BY <1>1 DEF Inv, TypeOK
    <2>2. answer \in Seq(Nat)
      BY <2>1, Zenon DEF Receipts
    <2> QED
      BY <2>2
  <1>6. \A k \in 1..Len(answer) :
          /\ Frame(rows', answer[k]) \in Frames
          /\ Genuine(Frame(rows', answer[k]), rows', Len(receipts'), expired')
    <2>1. \A k \in 1..Len(answer) : answer[k] \in 1..Len(rows')
      BY <1>1, <1>2, Zenon DEF Inv, Tables
    <2>2. \A k \in 1..Len(answer) : Backed(rows'[answer[k]], Len(receipts'))
      BY <1>4, <2>1, Zenon DEF Tables
    <2> QED
      BY <1>2, <2>1, <2>2, FrameGenuine, Zenon
  <1>7. /\ resend \in Seq(Frames) /\ Len(resend) = Len(answer)
        /\ \A k \in 1..Len(resend) :
             Genuine(resend[k], rows', Len(receipts'), expired')
    <2>1. /\ resend = [k \in 1..Len(answer) |-> resend[k]]
          /\ \A k \in 1..Len(answer) : resend[k] = Frame(rows', answer[k])
      <3>1. /\ DOMAIN resend = DOMAIN answer
            /\ resend = [k \in DOMAIN resend |-> resend[k]]
        BY Zenon
      <3>2. \A k \in DOMAIN answer : resend[k] = Frame(Refreshed(i), answer[k])
        BY Zenon
      <3> HIDE DEF resend
      <3> QED
        BY <1>1, <1>5, <3>1, <3>2, Zenon
    <2>2. \A k \in 1..Len(answer) : resend[k] \in Frames
      BY <1>6, <2>1, Zenon
    <2> HIDE DEF resend
    <2>3. Len(answer) \in Nat
      BY <1>5
    <2>4. resend \in Seq(Frames) /\ Len(resend) = Len(answer)
      <3> DEFINE n == Len(answer)
      <3>1. n \in Nat /\ resend = [k \in 1..n |-> resend[k]]
              /\ \A k \in 1..n : resend[k] \in Frames
        BY <2>1, <2>2, <2>3, Zenon
      <3> HIDE DEF n
      <3>2. resend \in Seq(Frames) /\ Len(resend) = n
        BY <3>1, Sequenced, Zenon
      <3> QED
        BY <3>2, Zenon DEF n
    <2> QED
      BY <1>6, <2>1, <2>4, ZenonT(30)
  <1>8. gate' \in Gates /\ gate'.resend = resend
    <2> DEFINE scan == IF Head(upward).msg.kind = "hello"
                         THEN Head(upward).msg.ref ELSE gate.scan
               replaying == Head(upward).msg.kind = "hello"
    <2>1. gate' = [gate EXCEPT !.init = TRUE, !.scan = scan,
                               !.replaying = replaying, !.resend = resend]
      BY Zenon DEF AcceptDuplicate
    <2>2. scan \in Nat /\ replaying \in BOOLEAN
      <3>1. Head(upward).msg \in Messages
        BY UpwardHead, Zenon DEF Packets
      <3>2. Head(upward).msg.ref \in Nat
        BY <3>1, Zenon DEF Messages
      <3>3. gate.scan \in Nat
        BY Zenon DEF Inv, TypeOK, Gates
      <3> QED
        BY <3>2, <3>3, Zenon
    <2> HIDE DEF scan, replaying, resend
    <2> QED
      BY <1>7, <2>1, <2>2, Zenon DEF Inv, TypeOK, Gates
  <1>9. Wire'
    <2>1. \A f : Genuine(f, rows, Len(receipts), expired) =>
                   Genuine(f, rows', Len(receipts'), expired')
      BY <1>1, <1>3, GenuineKept DEF Inv, TypeOK
    <2> HIDE DEF resend
    <2> QED
      BY <1>7, <1>8, <2>1, UpwardHead, Zenon DEF Inv, Wire
  <1>10. Heard'
    BY <1>1, Zenon DEF Inv, Decided, Heard
  <1>11. /\ receipts' \in Seq(Receipts) /\ upward' \in Seq(Packets)
         /\ downward' \in Seq(Frames) /\ spent' \in [Bounds -> Nat]
         /\ Len(rows) <= Len(rows') /\ Len(receipts) <= Len(receipts')
         /\ Len(receipts') <= Len(out)
         /\ \A j \in 1..Len(receipts') : receipts'[j].msg = out[j]
    BY <1>1, <1>2, UpwardHead, SMTT(30) DEF Inv, TypeOK, Queue
  <1> QED
    BY <1>2, <1>3, <1>4, <1>8, <1>9, <1>10, <1>11, ServerKeeps, Zenon

\* One or two rows and a receipt are appended to tables that changed in place
\* only where a deadline had passed.
LEMMA AcceptedKeeps ==
  ASSUME Inv, upward # <<>>, upward' = Tail(upward),
         UNCHANGED <<downward, out, proven, hello, journal, handled, client,
                     expired, spent>>,
         Head(upward).seq = Len(receipts) + 1,
         NEW table \in Seq(Rows), Len(table) = Len(rows),
         \A n \in 1..Len(rows) :
           \/ table[n] = rows[n]
           \/ table[n].kind = "tomb" /\ <<n, rows[n].ver>> \in expired,
         NEW added \in Seq(Rows), rows' = table \o added,
         \A k \in 1..Len(added) :
           added[k].kind # "command" /\ added[k].ref = Head(upward).seq,
         NEW receipt \in Receipts, receipts' = Append(receipts, receipt),
         receipt.msg = Head(upward).msg,
         \A k \in 1..Len(receipt.answer) :
           receipt.answer[k] \in (Len(rows) + 1)..(Len(rows) + Len(added)),
         gate' \in Gates, gate'.resend = gate.resend, Heard'
  PROVE  Inv'
  <1> DEFINE i == Len(receipts) + 1
  <1>0. Len(rows) \in Nat /\ Len(added) \in Nat /\ Len(receipts) \in Nat
    BY SMTT(30) DEF Inv, TypeOK
  <1>1. /\ rows' \in Seq(Rows) /\ Len(rows') = Len(rows) + Len(added)
        /\ \A n \in 1..Len(rows) : n \in 1..Len(rows') /\ rows'[n] = table[n]
        /\ \A n \in (Len(rows) + 1)..(Len(rows) + Len(added)) :
             n \in 1..Len(rows') /\ rows'[n] = added[n - Len(rows)]
    <2>1. /\ rows' \in Seq(Rows) /\ Len(rows') = Len(rows) + Len(added)
          /\ \A n \in 1..(Len(rows) + Len(added)) :
               rows'[n] = IF n <= Len(rows) THEN table[n] ELSE added[n - Len(rows)]
      BY SMTT(30)
    <2>2. /\ \A n \in 1..Len(rows) :
               n \in 1..(Len(rows) + Len(added)) /\ n <= Len(rows)
          /\ \A n \in (Len(rows) + 1)..(Len(rows) + Len(added)) :
               n \in 1..(Len(rows) + Len(added)) /\ ~(n <= Len(rows))
      BY <1>0, SMTT(30)
    <2> QED
      BY <2>1, <2>2, Zenon
  <1>2. /\ receipts' \in Seq(Receipts) /\ Len(receipts') = i
        /\ receipts'[i] = receipt
        /\ \A j \in 1..Len(receipts) : receipts'[j] = receipts[j]
    BY DEF Inv, TypeOK
  <1>3. \A n \in 1..Len(rows) : Commanded(n, rows, expired) =>
          Commanded(n, rows', expired')
    <2> SUFFICES ASSUME NEW n \in 1..Len(rows), Commanded(n, rows, expired)
                 PROVE  Commanded(n, rows', expired')
      BY Zenon
    <2>1. n \in 1..Len(rows') /\ rows'[n] = table[n]
      BY <1>1, Zenon
    <2>2. CASE table[n] = rows[n]
      BY <2>1, <2>2, Zenon DEF Commanded
    <2>3. CASE <<n, rows[n].ver>> \in expired
      <3>1. <<n, rows[n].ver>>[1] = n
        BY Zenon
      <3> QED
        BY <2>1, <2>3, <3>1, Zenon DEF Commanded
    <2> QED
      BY <2>2, <2>3, Zenon
  <1>4. Tables'
    <2>1. \A n \in 1..Len(rows') : Backed(rows'[n], Len(receipts'))
      <3> SUFFICES ASSUME NEW n \in 1..Len(rows')
                   PROVE  Backed(rows'[n], Len(receipts'))
        BY Zenon
      <3>1. CASE n \in 1..Len(rows)
        <4>1. Backed(rows[n], Len(receipts))
          BY <3>1, Zenon DEF Inv, Tables
        <4>2. rows'[n] = rows[n] \/ rows'[n].kind = "tomb"
          BY <1>1, <3>1, ZenonT(30)
        <4> QED
          BY <1>0, <1>2, <4>1, <4>2, SMTT(30) DEF Backed
      <3>2. CASE n \in (Len(rows) + 1)..(Len(rows) + Len(added))
        <4>1. n - Len(rows) \in 1..Len(added)
          BY <1>0, <3>2, SMTT(30)
        <4>2. rows'[n].ref = i
          BY <1>1, <3>2, <4>1, Zenon
        <4> QED
          BY <1>0, <1>2, <4>2, SMTT(30) DEF Backed
      <3> QED
        BY <1>0, <1>1, <3>1, <3>2, SMTT(30)
    <2>2. \A j \in 1..Len(receipts') : \A k \in 1..Len(receipts'[j].answer) :
            /\ receipts'[j].answer[k] \in 1..Len(rows')
            /\ rows'[receipts'[j].answer[k]].kind # "command"
      <3> SUFFICES ASSUME NEW j \in 1..Len(receipts'),
                          NEW k \in 1..Len(receipts'[j].answer)
                   PROVE  /\ receipts'[j].answer[k] \in 1..Len(rows')
                          /\ rows'[receipts'[j].answer[k]].kind # "command"
        BY Zenon
      <3>1. CASE j \in 1..Len(receipts)
        <4> DEFINE n == receipts[j].answer[k]
        <4>1. n \in 1..Len(rows) /\ rows[n].kind # "command"
                /\ receipts'[j].answer[k] = n
          BY <1>2, <3>1, Zenon DEF Inv, Tables
        <4> HIDE DEF n
        <4>2. rows'[n] = rows[n] \/ rows'[n].kind = "tomb"
          BY <1>1, <4>1, Zenon
        <4> QED
          BY <1>1, <4>1, <4>2, Zenon
      <3>2. CASE j = i
        <4> DEFINE n == receipt.answer[k]
        <4>1. receipts'[j].answer[k] = n
                /\ n \in (Len(rows) + 1)..(Len(rows) + Len(added))
          BY <1>2, <3>2, Zenon
        <4> HIDE DEF n
        <4>2. n - Len(rows) \in 1..Len(added)
          BY <1>0, <4>1, SMTT(30)
        <4>3. n \in 1..Len(rows') /\ rows'[n] = added[n - Len(rows)]
          BY <1>1, <4>1, Zenon
        <4>4. added[n - Len(rows)].kind # "command"
          BY <4>2, Zenon
        <4> QED
          BY <4>1, <4>3, <4>4, Zenon
      <3>3. j \in 1..Len(receipts) \/ j = i
        BY <1>0, <1>2, SMTT(30)
      <3> QED
        BY <3>1, <3>2, <3>3, Zenon
    <2> QED
      BY <2>1, <2>2, Zenon DEF Tables
  <1>5. Wire'
    <2>1. \A f : Genuine(f, rows, Len(receipts), expired) =>
                   Genuine(f, rows', Len(receipts'), expired')
      <3>1. Len(receipts) <= Len(receipts') /\ TypeOK
        BY <1>0, <1>2 DEF Inv
      <3> QED
        BY <1>2, <1>3, <3>1, GenuineKept, Zenon
    <2> QED
      BY <2>1, UpwardHead, Zenon DEF Inv, Wire
  <1>6. \A j \in 1..Len(receipts') : receipts'[j].msg = out[j]
    <2>1. \A j \in 1..Len(receipts) : receipts[j].msg = out[j]
      BY Zenon DEF Inv, Queue
    <2>2. receipt.msg = out[i]
      BY UpwardHead, Zenon
    <2>3. \A j \in 1..Len(receipts') : j \in 1..Len(receipts) \/ j = i
      BY <1>0, <1>2, SMTT(30)
    <2> QED
      BY <1>2, <2>1, <2>2, <2>3, Zenon
  <1>7. /\ upward' \in Seq(Packets) /\ downward' \in Seq(Frames)
        /\ spent' \in [Bounds -> Nat]
        /\ Len(rows) <= Len(rows') /\ Len(receipts) <= Len(receipts')
        /\ Len(receipts') <= Len(out)
    BY <1>0, <1>1, <1>2, UpwardHead, SMTT(30) DEF Inv, TypeOK
  <1> QED
    BY <1>1, <1>2, <1>3, <1>4, <1>5, <1>6, <1>7, ServerKeeps, Zenon

LEMMA AcceptHelloKeeps ==
  ASSUME Inv, upward # <<>>, AcceptHello(Head(upward)), upward' = Tail(upward),
         UNCHANGED <<downward, out, proven, hello, journal, handled, client,
                     expired, spent>>
  PROVE  Inv'
  <1> DEFINE f == Head(upward)
             table == Tombstoned(f.msg.ref)
             added == <<Row("welcome", f.seq)>>
             receipt == [msg |-> f.msg, disposition |-> "ack",
                         answer |-> <<Len(rows) + 1>>]
  <1>1. f.msg \in Messages /\ f.msg.ref \in Nat /\ f.seq \in Nat
    <2>1. f \in Packets
      BY UpwardHead, Zenon
    <2>2. f.msg \in Messages /\ f.seq \in Nat
      BY <2>1, Zenon DEF Packets
    <2> QED
      BY <2>2, Zenon DEF Messages
  <1>2. /\ f.seq = Len(receipts) + 1 /\ f.msg.kind = "hello"
        /\ rows' = Append(table, Row("welcome", f.seq))
        /\ receipts' = Append(receipts, receipt) /\ resumed' = resumed
        /\ gate' = [gate EXCEPT !.init = TRUE, !.scan = f.msg.ref,
                                !.replaying = TRUE]
    BY Zenon DEF AcceptHello
  <1>3. /\ table \in Seq(Rows) /\ Len(table) = Len(rows)
        /\ \A n \in 1..Len(rows) :
             \/ table[n] = rows[n]
             \/ table[n].kind = "tomb" /\ <<n, rows[n].ver>> \in expired
    BY <1>1, TombstonedRows, Zenon DEF Inv
  <1> HIDE DEF table
  <1>4. /\ Row("welcome", f.seq) \in Rows
        /\ Row("welcome", f.seq).kind # "command"
        /\ Row("welcome", f.seq).ref = f.seq
    BY <1>1, Zenon DEF Row, Rows, Kinds
  <1>5. /\ added \in Seq(Rows) /\ rows' = table \o added /\ Len(added) = 1
        /\ \A k \in 1..Len(added) :
             added[k].kind # "command" /\ added[k].ref = f.seq
    BY <1>2, <1>3, <1>4
  <1>6. Len(rows) + 1 \in Nat
    BY SMTT(30) DEF Inv, TypeOK
  <1>7. /\ receipt \in Receipts /\ receipt.msg = f.msg
        /\ receipt.answer = <<Len(rows) + 1>>
    BY <1>1, <1>6, SMTT(30) DEF Receipts
  <1>8. \A k \in 1..Len(receipt.answer) :
          receipt.answer[k] \in (Len(rows) + 1)..(Len(rows) + Len(added))
    BY <1>5, <1>6, <1>7
  <1>9. gate' \in Gates /\ gate'.resend = gate.resend
    BY <1>1, <1>2, Zenon DEF Inv, TypeOK, Gates
  <1>10. Heard'
    <2>1. \A i \in 1..Len(receipts') : receipts'[i].msg.kind = "ack" =>
            i \in 1..Len(receipts) /\ receipts'[i] = receipts[i]
      <3> HIDE DEF receipt
      <3> QED
        BY <1>2, <1>7, SMTT(30) DEF Inv, TypeOK
    <2> QED
      BY <1>2, <2>1 DEF Inv, Decided, Heard
  <1> HIDE DEF added, receipt, f
  <1> QED
    BY <1>2, <1>3, <1>5, <1>7, <1>8, <1>9, <1>10, AcceptedKeeps, Zenon DEF f

\* The ack of a handled command resumes its job, or comes too late.
LEMMA AcceptNewKeeps ==
  ASSUME Inv, upward # <<>>, NEW disposition \in Dispositions,
         AcceptNew(Head(upward), disposition), upward' = Tail(upward),
         UNCHANGED <<downward, out, proven, hello, journal, handled, client,
                     expired, spent>>
  PROVE  Inv'
  <1> DEFINE f == Head(upward)
             n == Len(rows) + 1
             ack == Row("ack", f.seq)
             first == Row(disposition, f.seq)
             added == IF disposition = "ack" THEN <<ack>> ELSE <<first, ack>>
             answer == IF disposition = "ack" THEN <<n>> ELSE <<n, n + 1>>
             receipt == [msg |-> f.msg, disposition |-> disposition,
                         answer |-> answer]
  <1>1. f.msg \in Messages /\ f.seq \in Nat
    <2>1. f \in Packets
      BY UpwardHead, Zenon
    <2> QED
      BY <2>1, Zenon DEF Packets
  <1>2. disposition \in {"ack", "reject", "state"}
    BY LinkAssumption, Zenon
  <1>3. /\ ack \in Rows /\ ack.kind # "command" /\ ack.ref = f.seq
        /\ first \in Rows /\ first.kind # "command" /\ first.ref = f.seq
    BY <1>1, <1>2, Zenon DEF Row, Rows, Kinds
  <1>4. rows \in Seq(Rows) /\ n \in Nat /\ receipts \in Seq(Receipts)
    BY SMTT(30) DEF Inv, TypeOK
  <1>5. /\ f.seq = Len(receipts) + 1
        /\ IF disposition = "ack"
             THEN /\ rows' = Append(rows, ack)
                  /\ receipts' = Append(receipts,
                       [msg |-> f.msg, disposition |-> "ack", answer |-> <<n>>])
             ELSE /\ rows' = rows \o <<first, ack>>
                  /\ receipts' = Append(receipts,
                       [msg |-> f.msg, disposition |-> disposition,
                        answer |-> <<n, n + 1>>])
        /\ resumed' = resumed \cup Resumes(f.msg) /\ gate' = gate
    BY Zenon DEF AcceptNew
  <1> HIDE DEF ack, first
  <1>6. /\ added \in Seq(Rows) /\ rows' = rows \o added
        /\ Len(added) = IF disposition = "ack" THEN 1 ELSE 2
        /\ \A k \in 1..Len(added) :
             added[k].kind # "command" /\ added[k].ref = f.seq
    <2>1. CASE disposition = "ack"
      <3>1. added = <<ack>> /\ rows' = Append(rows, ack)
        BY <1>5, <2>1, Zenon
      <3> QED
        BY <1>3, <1>4, <2>1, <3>1, SMTT(30)
    <2>2. CASE disposition # "ack"
      <3>1. added = <<first, ack>> /\ rows' = rows \o <<first, ack>>
        BY <1>5, <2>2, Zenon
      <3> HIDE DEF added
      <3>2. added \in Seq(Rows) /\ Len(added) = 2
              /\ added[1] = first /\ added[2] = ack
        BY <1>3, <3>1
      <3>3. \A k \in 1..2 : k = 1 \/ k = 2
        OBVIOUS
      <3> QED
        BY <1>3, <2>2, <3>1, <3>2, <3>3, Zenon
    <2> QED
      BY <2>1, <2>2, Zenon
  <1>7. /\ answer \in Seq(Nat)
        /\ Len(answer) = IF disposition = "ack" THEN 1 ELSE 2
        /\ \A k \in 1..Len(answer) : answer[k] = Len(rows) + k
    BY <1>4, SMTT(30)
  <1>8. receipts' = Append(receipts, receipt)
    BY <1>5, Zenon
  <1> HIDE DEF added, answer
  <1>9. receipt \in Receipts /\ receipt.msg = f.msg /\ receipt.answer = answer
    BY <1>1, <1>2, <1>7, Zenon DEF Receipts
  <1>10. \A k \in 1..Len(answer) :
           answer[k] \in (Len(rows) + 1)..(Len(rows) + Len(added))
    <2> DEFINE a == Len(rows)
               b == Len(answer)
    <2>1. a \in Nat /\ b \in Nat /\ Len(added) = b
      BY <1>4, <1>6, <1>7, SMTT(30)
    <2>2. \A k \in 1..b : answer[k] = a + k
      BY <1>7, Zenon
    <2> HIDE DEF a, b
    <2>3. \A k \in 1..b : answer[k] \in (a + 1)..(a + b)
      BY <2>1, <2>2, SMTT(30)
    <2> QED
      BY <2>1, <2>3, Zenon DEF a, b
  <1>11. gate' \in Gates /\ gate'.resend = gate.resend
    BY <1>5, Zenon DEF Inv, TypeOK
  <1> HIDE DEF receipt
  <1>12. Heard'
    <2> SUFFICES ASSUME NEW i \in 1..Len(receipts'),
                        receipts'[i].msg.kind = "ack",
                        receipts'[i].msg.ref \in handled
                 PROVE  \/ receipts'[i].msg.ref \in resumed'
                        \/ \E e \in expired : e[1] = receipts'[i].msg.ref
      BY Zenon DEF Heard
    <2>1. CASE i \in 1..Len(receipts)
      <3>1. receipts'[i] = receipts[i]
        BY <1>4, <1>8, <1>9, <2>1, SMTT(30)
      <3> QED
        BY <1>5, <2>1, <3>1, Zenon DEF Inv, Decided, Heard
    <2>2. CASE i = Len(receipts) + 1
      <3>1. receipts'[i].msg = f.msg
        BY <1>4, <1>8, <1>9, <2>2, SMTT(30)
      <3>2. Commanded(f.msg.ref, rows, expired)
        BY <3>1, Zenon DEF Inv, Decided
      <3>3. CASE rows[f.msg.ref].kind = "command"
        <4>1. f.msg.ref \in DOMAIN rows
          BY <1>4, <3>2, SMTT(30) DEF Commanded
        <4>2. f.msg.ref \in Resumes(f.msg)
          BY <3>1, <3>3, <4>1, Zenon DEF Resumes
        <4> QED
          BY <1>5, <3>1, <4>2, Zenon
      <3>4. CASE \E e \in expired : e[1] = f.msg.ref
        BY <3>1, <3>4, Zenon
      <3> QED
        BY <3>2, <3>3, <3>4, Zenon DEF Commanded
    <2>3. i \in 1..Len(receipts) \/ i = Len(receipts) + 1
      BY <1>4, <1>8, <1>9, SMTT(30)
    <2> QED
      BY <2>1, <2>2, <2>3, Zenon
  <1> HIDE DEF f
  <1>13. \A k \in 1..Len(rows) :
           \/ rows[k] = rows[k]
           \/ rows[k].kind = "tomb" /\ <<k, rows[k].ver>> \in expired
    BY Zenon
  <1> QED
    BY <1>4, <1>5, <1>6, <1>8, <1>9, <1>10, <1>11, <1>12, <1>13, AcceptedKeeps, Zenon
       DEF f

LEMMA AcceptKeeps ==
  ASSUME Inv, Accept
  PROVE  Inv'
  <1>1. /\ upward # <<>> /\ upward' = Tail(upward)
        /\ UNCHANGED <<downward, out, proven, hello, journal, handled, client,
                       expired, spent>>
    BY Zenon DEF Accept, store
  <1> QED
    BY <1>1, AcceptDuplicateKeeps, AcceptHelloKeeps, AcceptNewKeeps, Zenon DEF Accept

LEMMA PumpKeeps ==
  ASSUME Inv, Pump
  PROVE  Inv'
  <1> DEFINE n == gate.scan + 1
             table == Tombstoned(gate.scan)
  <1>1. /\ gate.scan \in Nat /\ n \in Nat /\ n \in 1..Len(rows)
        /\ Len(rows) \in Nat
    BY SMTT(30) DEF Pump, Inv, TypeOK, Gates
  <1>2. /\ rows' = table /\ downward' = Append(downward, Frame(table, n))
        /\ gate' = [gate EXCEPT !.scan = n, !.replaying = @ /\ n < Len(rows)]
        /\ UNCHANGED <<receipts, resumed, upward, out, proven, hello, journal,
                       handled, client, expired, spent>>
    BY Zenon DEF Pump, store
  <1>3. /\ table \in Seq(Rows) /\ Len(table) = Len(rows)
        /\ \A k \in 1..Len(rows) :
             \/ table[k] = rows[k]
             \/ table[k].kind = "tomb" /\ <<k, rows[k].ver>> \in expired
    BY <1>1, TombstonedRows, Zenon DEF Inv
  <1> HIDE DEF table
  <1>4. \A k \in 1..Len(rows) : Commanded(k, rows, expired) =>
          Commanded(k, rows', expired')
    <2> SUFFICES ASSUME NEW k \in 1..Len(rows), Commanded(k, rows, expired)
                 PROVE  Commanded(k, rows', expired')
      BY Zenon
    <2>1. CASE table[k] = rows[k]
      BY <1>2, <1>3, <2>1, Zenon DEF Commanded
    <2>2. CASE <<k, rows[k].ver>> \in expired
      <3>1. <<k, rows[k].ver>>[1] = k
        BY Zenon
      <3> QED
        BY <1>2, <1>3, <2>2, <3>1, Zenon DEF Commanded
    <2> QED
      BY <1>3, <2>1, <2>2, Zenon
  <1>5. Tables'
    <2>1. \A k \in 1..Len(rows') : Backed(rows'[k], Len(receipts'))
      BY <1>2, <1>3, Zenon DEF Inv, Tables, Backed
    <2>2. \A j \in 1..Len(receipts') : \A k \in 1..Len(receipts'[j].answer) :
            /\ receipts'[j].answer[k] \in 1..Len(rows')
            /\ rows'[receipts'[j].answer[k]].kind # "command"
      <3> SUFFICES ASSUME NEW j \in 1..Len(receipts),
                          NEW k \in 1..Len(receipts[j].answer)
                   PROVE  /\ receipts[j].answer[k] \in 1..Len(rows')
                          /\ rows'[receipts[j].answer[k]].kind # "command"
        BY <1>2, Zenon
      <3> DEFINE m == receipts[j].answer[k]
      <3>1. m \in 1..Len(rows) /\ rows[m].kind # "command"
        BY Zenon DEF Inv, Tables
      <3> HIDE DEF m
      <3>2. m \in 1..Len(rows') /\ rows'[m].kind # "command"
        BY <1>2, <1>3, <3>1, Zenon
      <3> QED
        BY <3>2, Zenon DEF m
    <2> QED
      BY <2>1, <2>2, Zenon DEF Tables
  <1>6. /\ Frame(table, n) \in Frames
        /\ Genuine(Frame(table, n), rows', Len(receipts'), expired')
    <2>1. Backed(table[n], Len(receipts')) /\ n \in 1..Len(table)
      BY <1>1, <1>2, <1>3, <1>5, Zenon DEF Tables
    <2> QED
      BY <1>2, <1>3, <2>1, FrameGenuine, Zenon
  <1>7. gate' \in Gates /\ gate'.resend = gate.resend
    <2> DEFINE replaying == gate.replaying /\ n < Len(rows)
    <2>1. replaying \in BOOLEAN
      BY Zenon
    <2>2. gate' = [gate EXCEPT !.scan = n, !.replaying = replaying]
      BY <1>2, Zenon
    <2> HIDE DEF replaying
    <2> QED
      BY <1>1, <2>1, <2>2, Zenon DEF Inv, TypeOK, Gates
  <1>8. Wire'
    <2>1. \A f : Genuine(f, rows, Len(receipts), expired) =>
                   Genuine(f, rows', Len(receipts'), expired')
      BY <1>2, <1>4, GenuineKept, SMTT(30) DEF Inv, TypeOK
    <2>2. \A k \in 1..Len(downward') :
            Genuine(downward'[k], rows', Len(receipts'), expired')
      <3>1. \A k \in 1..Len(downward') :
              \/ k \in 1..Len(downward) /\ downward'[k] = downward[k]
              \/ downward'[k] = Frame(table, n)
        BY <1>2, <1>6, SMTT(30) DEF Inv, TypeOK
      <3> QED
        BY <1>6, <2>1, <3>1, Zenon DEF Inv, Wire
    <2> QED
      BY <1>2, <1>7, <2>1, <2>2, Zenon DEF Inv, Wire
  <1>9. Heard'
    BY <1>2, Zenon DEF Inv, Decided, Heard
  <1>10. /\ downward' \in Seq(Frames)
         /\ rows' \in Seq(Rows) /\ receipts' \in Seq(Receipts)
         /\ upward' \in Seq(Packets) /\ spent' \in [Bounds -> Nat]
         /\ Len(rows) <= Len(rows') /\ Len(receipts) <= Len(receipts')
         /\ Len(receipts') <= Len(out)
         /\ \A j \in 1..Len(receipts') : receipts'[j].msg = out[j]
    BY <1>1, <1>2, <1>3, <1>6, SMTT(30) DEF Inv, TypeOK, Queue
  <1> QED
    BY <1>2, <1>4, <1>5, <1>7, <1>8, <1>9, <1>10, ServerKeeps, Zenon

\* A step of the gateway on its own state: what it sends was to be sent.
LEMMA GateKeeps ==
  ASSUME Inv, UNCHANGED <<rows, receipts, resumed, upward, out, proven, hello,
                          journal, handled, client, expired>>,
         gate' \in Gates, downward' \in Seq(Frames), spent' \in [Bounds -> Nat],
         \A k \in 1..Len(downward') :
           Genuine(downward'[k], rows, Len(receipts), expired),
         \A k \in 1..Len(gate'.resend) :
           Genuine(gate'.resend[k], rows, Len(receipts), expired)
  PROVE  Inv'
  <1>1. Tables' /\ Wire' /\ Heard'
    BY ZenonT(30) DEF Inv, Tables, Wire, Decided, Heard
  <1>2. /\ rows' \in Seq(Rows) /\ receipts' \in Seq(Receipts)
        /\ upward' \in Seq(Packets) /\ expired \subseteq expired'
        /\ Len(rows) <= Len(rows') /\ Len(receipts) <= Len(receipts')
        /\ Len(receipts') <= Len(out)
        /\ \A j \in 1..Len(receipts') : receipts'[j].msg = out[j]
        /\ \A n \in 1..Len(rows) : Commanded(n, rows, expired) =>
             Commanded(n, rows', expired')
    <2>1. TypeOK /\ Queue
      BY Zenon DEF Inv
    <2>2. Len(rows) \in Nat /\ Len(receipts) \in Nat
      BY <2>1 DEF TypeOK
    <2> QED
      BY <2>1, <2>2, SMTT(30) DEF TypeOK, Queue
  <1> QED
    BY <1>1, <1>2, ServerKeeps, Zenon

LEMMA ResendKeeps ==
  ASSUME Inv, Resend
  PROVE  Inv'
  <1> DEFINE f == Head(gate.resend)
  <1>1. gate.resend \in Seq(Frames) /\ gate.resend # <<>>
    BY Zenon DEF Resend, Inv, TypeOK, Gates
  <1>2. /\ f = gate.resend[1] /\ f \in Frames /\ 1 \in 1..Len(gate.resend)
        /\ Tail(gate.resend) \in Seq(Frames)
        /\ \A k \in 1..Len(Tail(gate.resend)) :
             k + 1 \in 1..Len(gate.resend)
               /\ Tail(gate.resend)[k] = gate.resend[k + 1]
    BY <1>1
  <1>3. UNCHANGED <<rows, receipts, resumed, upward, out, proven, hello, journal,
                    handled, client, expired, spent>>
    BY Zenon DEF Resend, server, store
  <1> HIDE DEF f
  <1>4. \/ gate' = [gate EXCEPT !.resend = <<>>] /\ downward' = downward
        \/ /\ gate' = [gate EXCEPT !.resend = Tail(gate.resend)]
           /\ downward' = Append(downward, f)
    BY Zenon DEF Resend, f
  <1>5. CASE gate' = [gate EXCEPT !.resend = <<>>] /\ downward' = downward
    <2>1. gate' \in Gates /\ gate'.resend = <<>>
      <3> DEFINE e == <<>>
      <3>1. e \in Seq(Frames) /\ gate' = [gate EXCEPT !.resend = e]
        BY <1>5
      <3> HIDE DEF e
      <3>2. gate' \in Gates /\ gate'.resend = e
        BY <3>1, Zenon DEF Inv, TypeOK, Gates
      <3> QED
        BY <3>2, Zenon DEF e
    <2>2. /\ downward' \in Seq(Frames) /\ spent' \in [Bounds -> Nat]
          /\ \A k \in 1..Len(downward') :
               Genuine(downward'[k], rows, Len(receipts), expired)
          /\ \A k \in 1..Len(gate'.resend) :
               Genuine(gate'.resend[k], rows, Len(receipts), expired)
      BY <1>3, <1>5, <2>1, SMTT(30) DEF Inv, TypeOK, Wire
    <2> QED
      BY <1>3, <2>1, <2>2, GateKeeps, Zenon
  <1>6. CASE /\ gate' = [gate EXCEPT !.resend = Tail(gate.resend)]
             /\ downward' = Append(downward, f)
    <2>1. gate' \in Gates /\ gate'.resend = Tail(gate.resend)
      BY <1>2, <1>6, Zenon DEF Inv, TypeOK, Gates
    <2>2. \A k \in 1..Len(gate'.resend) :
            Genuine(gate'.resend[k], rows, Len(receipts), expired)
      BY <1>2, <2>1, Zenon DEF Inv, Wire
    <2>3. /\ downward' \in Seq(Frames)
          /\ \A k \in 1..Len(downward') :
               \/ k \in 1..Len(downward) /\ downward'[k] = downward[k]
               \/ downward'[k] = f
      BY <1>2, <1>6, Appended, SMTT(30) DEF Inv, TypeOK
    <2>4. \A k \in 1..Len(downward') :
            Genuine(downward'[k], rows, Len(receipts), expired)
      BY <1>2, <2>3, Zenon DEF Inv, Wire
    <2>5. spent' \in [Bounds -> Nat]
      BY <1>3, Zenon DEF Inv, TypeOK
    <2> QED
      BY <1>3, <2>1, <2>2, <2>3, <2>4, <2>5, GateKeeps, Zenon
  <1> QED
    BY <1>4, <1>5, <1>6, Zenon

LEMMA StallKeeps ==
  ASSUME Inv, Stall
  PROVE  Inv'
  <1>1. /\ gate' = [gate EXCEPT !.replaying = FALSE, !.resend = <<>>]
        /\ UNCHANGED <<rows, receipts, resumed, upward, downward, out, proven,
                       hello, journal, handled, client, expired>>
    BY Zenon DEF Stall, server, store
  <1>2. gate' \in Gates /\ gate'.resend = <<>>
    <2> DEFINE e == <<>>
    <2>1. e \in Seq(Frames)
            /\ gate' = [gate EXCEPT !.replaying = FALSE, !.resend = e]
      BY <1>1
    <2> HIDE DEF e
    <2>2. gate' \in Gates /\ gate'.resend = e
      BY <2>1, Zenon DEF Inv, TypeOK, Gates
    <2> QED
      BY <2>2, Zenon DEF e
  <1>3. spent' \in [Bounds -> Nat]
    BY Spent, Zenon DEF Stall, Inv, TypeOK, Bounds
  <1>4. /\ downward' \in Seq(Frames)
        /\ \A k \in 1..Len(downward') :
             Genuine(downward'[k], rows, Len(receipts), expired)
        /\ \A k \in 1..Len(gate'.resend) :
             Genuine(gate'.resend[k], rows, Len(receipts), expired)
    BY <1>1, <1>2, SMTT(30) DEF Inv, TypeOK, Wire
  <1> QED
    BY <1>1, <1>2, <1>3, <1>4, GateKeeps, Zenon

LEMMA CommandKeeps ==
  ASSUME Inv, Command
  PROVE  Inv'
  <1> DEFINE r == Row("command", spent.command + 1)
  <1>1. /\ rows' = Append(rows, r)
        /\ UNCHANGED <<receipts, resumed, gate, upward, downward, out, proven,
                       hello, journal, handled, client, expired>>
    BY Zenon DEF Command, wire, store
  <1>2. r \in Rows /\ r.kind = "command"
    <2>1. spent.command \in Nat
      BY Zenon DEF Inv, TypeOK, Bounds
    <2> QED
      BY <2>1 DEF Row, Rows, Kinds
  <1>3. spent' \in [Bounds -> Nat]
    BY Spent, Zenon DEF Command, Inv, TypeOK, Bounds
  <1> HIDE DEF r
  <1>4. /\ rows' \in Seq(Rows) /\ Len(rows') = Len(rows) + 1
        /\ \A n \in 1..Len(rows) : n \in 1..Len(rows') /\ rows'[n] = rows[n]
        /\ \A n \in 1..Len(rows') :
             \/ n \in 1..Len(rows) /\ rows'[n] = rows[n]
             \/ rows'[n] = r
    BY <1>1, <1>2, Appended, SMTT(30) DEF Inv, TypeOK
  <1>5. \A n \in 1..Len(rows) : Commanded(n, rows, expired) =>
          Commanded(n, rows', expired')
    BY <1>1, <1>4, Zenon DEF Commanded
  <1>6. Tables'
    <2>1. \A n \in 1..Len(rows') : Backed(rows'[n], Len(receipts'))
      BY <1>1, <1>2, <1>4, Zenon DEF Inv, Tables, Backed
    <2>2. \A j \in 1..Len(receipts') : \A k \in 1..Len(receipts'[j].answer) :
            /\ receipts'[j].answer[k] \in 1..Len(rows')
            /\ rows'[receipts'[j].answer[k]].kind # "command"
      BY <1>1, <1>4, SMTT(30) DEF Inv, Tables
    <2> QED
      BY <2>1, <2>2, Zenon DEF Tables
  <1>7. Wire'
    <2>1. \A f : Genuine(f, rows, Len(receipts), expired) =>
                   Genuine(f, rows', Len(receipts'), expired')
      BY <1>1, <1>5, GenuineKept, SMTT(30) DEF Inv, TypeOK
    <2> QED
      BY <1>1, <2>1, Zenon DEF Inv, Wire
  <1>8. Heard'
    BY <1>1, Zenon DEF Inv, Decided, Heard
  <1>9. /\ receipts' \in Seq(Receipts) /\ gate' \in Gates
        /\ upward' \in Seq(Packets) /\ downward' \in Seq(Frames)
        /\ expired \subseteq expired'
        /\ Len(rows) <= Len(rows') /\ Len(receipts) <= Len(receipts')
        /\ Len(receipts') <= Len(out)
        /\ \A j \in 1..Len(receipts') : receipts'[j].msg = out[j]
    BY <1>1, <1>4 DEF Inv, TypeOK, Queue
  <1> QED
    BY <1>1, <1>3, <1>4, <1>5, <1>6, <1>7, <1>8, <1>9, ServerKeeps, Zenon

LEMMA ExpireKeeps ==
  ASSUME Inv, NEW n \in DOMAIN rows, Expire(n)
  PROVE  Inv'
  <1>1. /\ expired' = expired \cup {<<n, rows[n].ver>>}
        /\ UNCHANGED <<rows, receipts, resumed, gate, upward, downward, out,
                       proven, hello, journal, handled, client>>
    BY Zenon DEF Expire, server, wire, store
  <1>2. spent' \in [Bounds -> Nat]
    <2>1. CASE Spend("expire")
      BY <2>1, Spent, Zenon DEF Inv, TypeOK, Bounds
    <2>2. CASE spent' = [spent EXCEPT !.expire = @ + 1, !.late = @ + 1]
      <3> DEFINE first == [spent EXCEPT !["expire"] = @ + 1]
      <3>1. first \in [Bounds -> Nat]
        BY SMTT(30) DEF Inv, TypeOK, Bounds
      <3>2. spent' = [first EXCEPT !["late"] = @ + 1]
        BY <2>2, Zenon
      <3> HIDE DEF first
      <3> QED
        BY <3>1, <3>2 DEF Bounds
    <2> QED
      BY <2>1, <2>2, Zenon DEF Expire
  <1>3. \A k \in 1..Len(rows) : Commanded(k, rows, expired) =>
          Commanded(k, rows', expired')
    BY <1>1, Zenon DEF Commanded
  <1>4. Tables'
    BY <1>1, Zenon DEF Inv, Tables
  <1>5. Wire'
    <2>1. \A f : Genuine(f, rows, Len(receipts), expired) =>
                   Genuine(f, rows', Len(receipts'), expired')
      <3>1. TypeOK /\ receipts' \in Seq(Receipts) /\ Len(receipts) <= Len(receipts')
        BY <1>1, SMTT(30) DEF Inv, TypeOK
      <3> QED
        BY <1>3, <3>1, GenuineKept, Zenon
    <2> QED
      BY <1>1, <2>1, Zenon DEF Inv, Wire
  <1>6. Heard'
    BY <1>1, Zenon DEF Inv, Decided, Heard
  <1>7. /\ rows' \in Seq(Rows) /\ receipts' \in Seq(Receipts)
        /\ gate' \in Gates /\ upward' \in Seq(Packets)
        /\ downward' \in Seq(Frames) /\ expired \subseteq expired'
        /\ Len(rows) <= Len(rows') /\ Len(receipts) <= Len(receipts')
        /\ Len(receipts') <= Len(out)
        /\ \A j \in 1..Len(receipts') : receipts'[j].msg = out[j]
    BY <1>1 DEF Inv, TypeOK, Queue
  <1> QED
    BY <1>1, <1>2, <1>3, <1>4, <1>5, <1>6, <1>7, ServerKeeps, Zenon

-----------------------------------------------------------------------------
(* Steps of the Connector *)

\* The queue only grows at its end.
OutGrows ==
  /\ out' \in Seq(Messages) /\ Len(out) <= Len(out')
  /\ \A s \in 1..Len(out) : out'[s] = out[s]

LEMMA OutSame ==
  ASSUME TypeOK, out' = out
  PROVE  OutGrows
  BY SMTT(30) DEF TypeOK, OutGrows

LEMMA OutAppended ==
  ASSUME TypeOK, NEW m \in Messages, out' = Append(out, m)
  PROVE  OutGrows /\ Len(out') = Len(out) + 1 /\ out'[Len(out) + 1] = m
  BY SMTT(30) DEF TypeOK, OutGrows

\* A step of the Connector: it queues, proves what is consumed, and keeps its
\* journal.
LEMMA ClientKeeps ==
  ASSUME Inv, UNCHANGED <<rows, receipts, resumed, expired>>, OutGrows,
         gate' \in Gates, gate'.resend \in {gate.resend, <<>>},
         downward' \in Seq(Frames),
         \A k \in 1..Len(downward') :
           Genuine(downward'[k], rows, Len(receipts), expired),
         upward' \in Seq(Packets),
         \A k \in 1..Len(upward') :
           upward'[k].seq \in 1..Len(out') /\ upward'[k].msg = out'[upward'[k].seq],
         hello' \in Nat, hello' <= Len(out'),
         proven' \in Nat, proven' <= Len(receipts),
         journal' \in Seq(Entries), client' \in Clients, Ledger', Decided',
         spent' \in [Bounds -> Nat]
  PROVE  Inv'
  <1>1. TypeOK'
    BY Zenon DEF Inv, TypeOK, OutGrows
  <1>2. Tables'
    BY Zenon DEF Inv, Tables
  <1>3. Wire'
    <2>1. \A k \in 1..Len(gate'.resend) :
            Genuine(gate'.resend[k], rows, Len(receipts), expired)
      <3>1. CASE gate'.resend = gate.resend
        BY <3>1, Zenon DEF Inv, Wire
      <3>2. CASE gate'.resend = <<>>
        BY <3>2, SMTT(30)
      <3> QED
        BY <3>1, <3>2, Zenon
    <2> QED
      BY <2>1, Zenon DEF Inv, Wire
  <1>4. Queue'
    <2>1. Len(out) \in Nat /\ Len(out') \in Nat /\ Len(receipts) \in Nat
            /\ Len(out) <= Len(out') /\ Len(receipts) <= Len(out)
      BY SMTT(30) DEF Inv, TypeOK, OutGrows, Queue
    <2>2. \A i \in 1..Len(receipts) : i \in 1..Len(out)
      BY <2>1
    <2> QED
      BY <2>1, <2>2, SMTT(30) DEF Inv, Queue, OutGrows
  <1> QED
    BY <1>1, <1>2, <1>3, <1>4, Zenon DEF Inv

\* The frames that were in flight are still good.
LEMMA UpwardKept ==
  ASSUME Inv, OutGrows, upward' \in {upward, <<>>}
  PROVE  /\ upward' \in Seq(Packets)
         /\ \A k \in 1..Len(upward') :
              /\ upward'[k].seq \in 1..Len(out')
              /\ upward'[k].msg = out'[upward'[k].seq]
  <1>1. CASE upward' = upward
    <2>1. 1..Len(out) \subseteq 1..Len(out')
      BY SMTT(30) DEF Inv, TypeOK, OutGrows
    <2> QED
      BY <1>1, <2>1, Zenon DEF Inv, TypeOK, Wire, OutGrows
  <1>2. CASE upward' = <<>>
    BY <1>2, SMTT(30)
  <1> QED
    BY <1>1, <1>2, Zenon

LEMMA DownwardKept ==
  ASSUME Inv, \/ downward' \in {downward, <<>>}
              \/ downward # <<>> /\ downward' = Tail(downward)
  PROVE  /\ downward' \in Seq(Frames)
         /\ \A k \in 1..Len(downward') :
              Genuine(downward'[k], rows, Len(receipts), expired)
  <1>1. CASE downward' = downward
    BY <1>1, Zenon DEF Inv, TypeOK, Wire
  <1>2. CASE downward' = <<>>
    BY <1>2, SMTT(30)
  <1>3. CASE downward # <<>> /\ downward' = Tail(downward)
    <2>1. /\ downward' \in Seq(Frames)
          /\ \A k \in 1..Len(downward') :
               k + 1 \in 1..Len(downward) /\ downward'[k] = downward[k + 1]
      BY <1>3, SMTT(30) DEF Inv, TypeOK
    <2> QED
      BY <2>1, Zenon DEF Inv, Wire
  <1> QED
    BY <1>1, <1>2, <1>3, Zenon

\* The gate forgets its connection, or is left alone.
LEMMA GateKept ==
  ASSUME TypeOK, gate' = gate \/ gate' = Idle
  PROVE  gate' \in Gates /\ gate'.resend \in {gate.resend, <<>>}
  <1> DEFINE e == <<>>
             i == [init |-> FALSE, replaying |-> FALSE, scan |-> 0, resend |-> e]
  <1>1. e \in Seq(Frames) /\ Idle = i
    BY SMTT(30) DEF Idle
  <1> HIDE DEF e
  <1>2. i \in Gates /\ i.resend = e
    BY <1>1, Zenon DEF Gates
  <1> HIDE DEF i
  <1> QED
    BY <1>1, <1>2, Zenon DEF TypeOK, e

\* A step that records and acknowledges nothing.
LEMMA QuietLedger ==
  ASSUME Inv, UNCHANGED <<rows, receipts, resumed, expired, journal, handled>>,
         OutGrows, \A s \in 1..Len(out') : s > Len(out) => out'[s].kind # "ack",
         client'.busy \in {client.busy, 0}, client'.recover \in {client.recover, -1}
  PROVE  Ledger' /\ Decided'
  <1>1. \A s \in 1..Len(out') : out'[s].kind = "ack" =>
          s \in 1..Len(out) /\ out'[s] = out[s]
    <2>1. Len(out) \in Nat /\ Len(out') \in Nat
      BY SMTT(30) DEF Inv, TypeOK, OutGrows
    <2>2. \A s \in 1..Len(out') : s > Len(out) \/ s \in 1..Len(out)
      BY <2>1, SMTT(30)
    <2> QED
      BY <2>2, Zenon DEF OutGrows
  <1>2. Kept(journal, out, handled, rows, Len(receipts), expired)
    BY Zenon DEF Inv, Ledger
  <1>3. Kept(journal, out', handled, rows, Len(receipts), expired)
    BY <1>1, <1>2, Zenon DEF Kept
  <1>4. /\ journal' = journal /\ handled' = handled /\ rows' = rows
        /\ receipts' = receipts /\ expired' = expired
    BY Zenon
  <1>5. Kept(journal', out', handled', rows', Len(receipts'), expired')
    BY <1>3, <1>4, Zenon
  <1>6. client'.busy # 0 => client'.busy \in 1..Len(journal)
          /\ journal[client'.busy].kind = "command"
    BY Zenon DEF Inv, Ledger
  <1>7. client'.recover > 0 => client'.recover \in 1..Len(journal)
          /\ journal[client'.recover].delivered
    BY SMT DEF Inv, Ledger
  <1>8. Ledger'
    BY <1>4, <1>5, <1>6, <1>7, Zenon DEF Ledger
  <1> QED
    BY <1>8, Zenon DEF Inv, Decided, Heard

\* prepareHello pins a hello that is in the queue.
LEMMA HelloPrepared ==
  ASSUME Inv, PrepareHello
  PROVE  /\ OutGrows /\ hello' \in Nat /\ hello' \in 1..Len(out')
         /\ \A s \in 1..Len(out') : s > Len(out) => out'[s].kind # "ack"
  <1>1. CASE hello = 0 \/ proven = Len(out)
    <2> DEFINE m == Message("hello", Len(journal), Len(out))
    <2>1. out' = Append(out, m) /\ hello' = Len(out) + 1
      BY <1>1, Zenon DEF PrepareHello, NewHello
    <2>2. m \in Messages /\ m.kind = "hello"
      BY DEF Message, Messages, Inv, TypeOK
    <2> HIDE DEF m
    <2>3. OutGrows /\ Len(out') = Len(out) + 1 /\ out'[Len(out) + 1] = m
      BY <2>1, <2>2, OutAppended, Zenon DEF Inv
    <2>4. \A s \in 1..Len(out') : s > Len(out) => s = Len(out) + 1
      BY <2>3, SMTT(30) DEF Inv, TypeOK
    <2>5. Len(out) + 1 \in 1..Len(out') /\ Len(out) + 1 \in Nat
      BY <2>3, SMTT(30) DEF Inv, TypeOK
    <2> QED
      BY <2>1, <2>2, <2>3, <2>4, <2>5, Zenon
  <1>2. CASE ~(hello = 0 \/ proven = Len(out))
    <2>1. UNCHANGED <<out, hello>>
      BY <1>2, Zenon DEF PrepareHello
    <2> QED
      BY <1>2, <2>1, OutSame, SMTT(30) DEF Inv, TypeOK, Queue
  <1> QED
    BY <1>1, <1>2, Zenon

LEMMA StartedClient ==
  /\ Started \in Clients /\ Started.busy = 0 /\ Started.recover = -1
  /\ [Started EXCEPT !.state = "down"] \in Clients
  /\ [Started EXCEPT !.state = "down"].busy = 0
  /\ [Started EXCEPT !.state = "down"].recover = -1
  BY Zenon DEF Started, Clients

LEMMA StartKeeps ==
  ASSUME Inv, Start
  PROVE  Inv'
  <1>1. /\ PrepareHello /\ client' = Started
        /\ UNCHANGED <<rows, receipts, resumed, gate, upward, downward, proven,
                       journal, handled, expired, spent>>
    BY Zenon DEF Start, server, wire
  <1>2. /\ OutGrows /\ hello' \in Nat /\ hello' \in 1..Len(out')
        /\ \A s \in 1..Len(out') : s > Len(out) => out'[s].kind # "ack"
    BY <1>1, HelloPrepared, Zenon
  <1>3. Ledger' /\ Decided'
    BY <1>1, <1>2, StartedClient, QuietLedger, Zenon
  <1>4. gate' \in Gates /\ gate'.resend \in {gate.resend, <<>>}
    BY <1>1, GateKept, Zenon DEF Inv
  <1>5. /\ downward' \in Seq(Frames)
        /\ \A k \in 1..Len(downward') :
             Genuine(downward'[k], rows, Len(receipts), expired)
    BY <1>1, DownwardKept, Zenon
  <1>6. /\ upward' \in Seq(Packets)
        /\ \A k \in 1..Len(upward') :
             /\ upward'[k].seq \in 1..Len(out')
             /\ upward'[k].msg = out'[upward'[k].seq]
    BY <1>1, <1>2, UpwardKept, Zenon
  <1>7. /\ hello' <= Len(out') /\ proven' \in Nat /\ proven' <= Len(receipts)
        /\ journal' \in Seq(Entries) /\ spent' \in [Bounds -> Nat]
        /\ client' \in Clients
    BY <1>1, <1>2, StartedClient, SMTT(30) DEF Inv, TypeOK, Queue
  <1> QED
    BY <1>1, <1>2, <1>3, <1>4, <1>5, <1>6, <1>7, ClientKeeps, Zenon

LEMMA ConnectKeeps ==
  ASSUME Inv, Connect
  PROVE  Inv'
  <1> DEFINE p == [seq |-> hello', msg |-> out'[hello']]
  <1>1. /\ PrepareHello /\ upward' = <<p>> /\ downward' = <<>> /\ gate' = Idle
        /\ client' = [client EXCEPT !.state = "open", !.welcomed = FALSE,
                                    !.recover = -1, !.sent = 0, !.live = FALSE]
        /\ UNCHANGED <<rows, receipts, resumed, proven, journal, handled,
                       expired, spent>>
    BY Zenon DEF Connect, server
  <1>2. /\ OutGrows /\ hello' \in Nat /\ hello' \in 1..Len(out')
        /\ \A s \in 1..Len(out') : s > Len(out) => out'[s].kind # "ack"
    BY <1>1, HelloPrepared, Zenon
  <1>3. client' \in Clients /\ client'.busy = client.busy /\ client'.recover = -1
    BY <1>1, Zenon DEF Inv, TypeOK, Clients
  <1>4. Ledger' /\ Decided'
    BY <1>1, <1>2, <1>3, QuietLedger, Zenon
  <1>5. gate' \in Gates /\ gate'.resend \in {gate.resend, <<>>}
    BY <1>1, GateKept, Zenon DEF Inv
  <1>6. /\ downward' \in Seq(Frames)
        /\ \A k \in 1..Len(downward') :
             Genuine(downward'[k], rows, Len(receipts), expired)
    BY <1>1, DownwardKept, Zenon
  <1>7. /\ upward' \in Seq(Packets)
        /\ \A k \in 1..Len(upward') :
             /\ upward'[k].seq \in 1..Len(out')
             /\ upward'[k].msg = out'[upward'[k].seq]
    <2>1. out'[hello'] \in Messages
      BY <1>2, SMTT(30) DEF OutGrows
    <2>2. p \in Packets /\ p.seq = hello' /\ p.msg = out'[hello']
      BY <1>2, <2>1, Zenon DEF Packets
    <2> HIDE DEF p
    <2>3. upward' \in Seq(Packets) /\ \A k \in 1..Len(upward') : upward'[k] = p
      BY <1>1, <2>2, SMTT(30)
    <2> QED
      BY <1>2, <2>2, <2>3, Zenon
  <1>8. /\ hello' <= Len(out') /\ proven' \in Nat /\ proven' <= Len(receipts)
        /\ journal' \in Seq(Entries) /\ spent' \in [Bounds -> Nat]
    BY <1>1, <1>2, SMTT(30) DEF Inv, TypeOK, Queue
  <1> QED
    BY <1>1, <1>2, <1>3, <1>4, <1>5, <1>6, <1>7, <1>8, ClientKeeps, Zenon

LEMMA PublishKeeps ==
  ASSUME Inv, Publish
  PROVE  Inv'
  <1> DEFINE m == Message("event", 0, 0)
  <1>1. /\ out' = Append(out, m)
        /\ UNCHANGED <<rows, receipts, resumed, gate, upward, downward, proven,
                       hello, journal, handled, client, expired>>
    BY Zenon DEF Publish, server, wire
  <1>2. m \in Messages /\ m.kind = "event"
    BY Zenon DEF Message, Messages
  <1> HIDE DEF m
  <1>3. OutGrows /\ Len(out') = Len(out) + 1 /\ out'[Len(out) + 1] = m
    BY <1>1, <1>2, OutAppended, Zenon DEF Inv
  <1>4. \A s \in 1..Len(out') : s > Len(out) => out'[s].kind # "ack"
    <2>1. \A s \in 1..Len(out') : s > Len(out) => s = Len(out) + 1
      BY <1>3, SMTT(30) DEF Inv, TypeOK
    <2> QED
      BY <1>2, <1>3, <2>1, Zenon
  <1>5. Ledger' /\ Decided'
    BY <1>1, <1>3, <1>4, QuietLedger, Zenon
  <1>6. gate' \in Gates /\ gate'.resend \in {gate.resend, <<>>}
    BY <1>1, GateKept, Zenon DEF Inv
  <1>7. /\ downward' \in Seq(Frames)
        /\ \A k \in 1..Len(downward') :
             Genuine(downward'[k], rows, Len(receipts), expired)
    BY <1>1, DownwardKept, Zenon
  <1>8. /\ upward' \in Seq(Packets)
        /\ \A k \in 1..Len(upward') :
             /\ upward'[k].seq \in 1..Len(out')
             /\ upward'[k].msg = out'[upward'[k].seq]
    BY <1>1, <1>3, UpwardKept, Zenon
  <1>9. spent' \in [Bounds -> Nat]
    BY Spent, Zenon DEF Publish, Inv, TypeOK, Bounds
  <1>10. /\ hello' \in Nat /\ hello' <= Len(out')
         /\ proven' \in Nat /\ proven' <= Len(receipts)
         /\ journal' \in Seq(Entries) /\ client' \in Clients
    BY <1>1, <1>3 DEF Inv, TypeOK, Queue
  <1> QED
    BY <1>1, <1>3, <1>5, <1>6, <1>7, <1>8, <1>9, <1>10, ClientKeeps, Zenon

\* A step that leaves the store alone and forgets or keeps its connection.
LEMMA ConnectionKeeps ==
  ASSUME Inv, UNCHANGED <<rows, receipts, resumed, expired, handled, out, proven,
                          hello, journal>>,
         gate' = gate \/ gate' = Idle, upward' \in {upward, <<>>},
         downward' \in {downward, <<>>}, client' \in Clients,
         client'.busy \in {client.busy, 0}, client'.recover \in {client.recover, -1},
         spent' \in [Bounds -> Nat]
  PROVE  Inv'
  <1>1. OutGrows /\ \A s \in 1..Len(out') : s > Len(out) => out'[s].kind # "ack"
    BY OutSame, SMTT(30) DEF Inv, TypeOK
  <1>2. Ledger' /\ Decided'
    BY <1>1, QuietLedger, Zenon
  <1>3. gate' \in Gates /\ gate'.resend \in {gate.resend, <<>>}
    BY GateKept, Zenon DEF Inv
  <1>4. /\ downward' \in Seq(Frames)
        /\ \A k \in 1..Len(downward') :
             Genuine(downward'[k], rows, Len(receipts), expired)
    BY DownwardKept, Zenon
  <1>5. /\ upward' \in Seq(Packets)
        /\ \A k \in 1..Len(upward') :
             /\ upward'[k].seq \in 1..Len(out')
             /\ upward'[k].msg = out'[upward'[k].seq]
    BY <1>1, UpwardKept, Zenon
  <1>6. /\ hello' \in Nat /\ hello' <= Len(out')
        /\ proven' \in Nat /\ proven' <= Len(receipts)
        /\ journal' \in Seq(Entries)
    BY Zenon DEF Inv, TypeOK, Queue
  <1> QED
    BY <1>1, <1>2, <1>3, <1>4, <1>5, <1>6, ClientKeeps, Zenon

LEMMA SendKeeps ==
  ASSUME Inv, Send
  PROVE  Inv'
  <1> DEFINE s == Max({client.sent, proven}) + 1
             p == [seq |-> s, msg |-> out[s]]
  <1>1. /\ s \in DOMAIN out /\ upward' = Append(upward, p)
        /\ client' = [client EXCEPT !.sent = s]
        /\ UNCHANGED <<rows, receipts, resumed, gate, downward, out, proven,
                       hello, journal, handled, expired, spent>>
    BY Zenon DEF Send, Pending, server, store
  <1>2. s \in 1..Len(out) /\ s \in Nat
    BY <1>1, SMTT(30) DEF Inv, TypeOK
  <1>3. p \in Packets /\ p.seq = s /\ p.msg = out[s]
    BY <1>2 DEF Packets, Inv, TypeOK
  <1> HIDE DEF p, s
  <1>4. /\ client' \in Clients /\ client'.busy = client.busy
        /\ client'.recover = client.recover
    BY <1>1, <1>2, Zenon DEF Inv, TypeOK, Clients
  <1>5. OutGrows /\ \A t \in 1..Len(out') : t > Len(out) => out'[t].kind # "ack"
    BY <1>1, OutSame, SMTT(30) DEF Inv, TypeOK
  <1>6. Ledger' /\ Decided'
    BY <1>1, <1>4, <1>5, QuietLedger, Zenon
  <1>7. gate' \in Gates /\ gate'.resend \in {gate.resend, <<>>}
    BY <1>1, GateKept, Zenon DEF Inv
  <1>8. /\ downward' \in Seq(Frames)
        /\ \A k \in 1..Len(downward') :
             Genuine(downward'[k], rows, Len(receipts), expired)
    BY <1>1, DownwardKept, Zenon
  <1>9. /\ upward' \in Seq(Packets)
        /\ \A k \in 1..Len(upward') :
             /\ upward'[k].seq \in 1..Len(out')
             /\ upward'[k].msg = out'[upward'[k].seq]
    <2>1. /\ upward' \in Seq(Packets) /\ Len(upward') = Len(upward) + 1
          /\ upward'[Len(upward) + 1] = p
          /\ \A k \in 1..Len(upward) : upward'[k] = upward[k]
      BY <1>1, <1>3, SMTT(30) DEF Inv, TypeOK
    <2>2. \A k \in 1..Len(upward') : k \in 1..Len(upward) \/ k = Len(upward) + 1
      BY <2>1, SMTT(30) DEF Inv, TypeOK
    <2>3. \A k \in 1..Len(upward) :
            upward[k].seq \in 1..Len(out) /\ upward[k].msg = out[upward[k].seq]
      BY Zenon DEF Inv, Wire
    <2> QED
      BY <1>1, <1>2, <1>3, <2>1, <2>2, <2>3, ZenonT(30)
  <1>10. /\ hello' \in Nat /\ hello' <= Len(out')
         /\ proven' \in Nat /\ proven' <= Len(receipts)
         /\ journal' \in Seq(Entries) /\ spent' \in [Bounds -> Nat]
    BY <1>1, Zenon DEF Inv, TypeOK, Queue
  <1> QED
    BY <1>1, <1>4, <1>5, <1>6, <1>7, <1>8, <1>9, <1>10, ClientKeeps, Zenon

LEMMA RejectKeeps ==
  ASSUME Inv, Reject
  PROVE  Inv'
  <1>1. /\ UNCHANGED <<rows, receipts, resumed, expired, handled, out, proven,
                       hello, journal, spent>>
        /\ gate' = Idle /\ upward' = <<>> /\ downward' = <<>>
        /\ client' = [Started EXCEPT !.state = "down"]
    BY Zenon DEF Reject, server, store
  <1>2. spent' \in [Bounds -> Nat]
    BY <1>1, Zenon DEF Inv, TypeOK
  <1> QED
    BY <1>1, <1>2, StartedClient, ConnectionKeeps, Zenon

LEMMA DisconnectKeeps ==
  ASSUME Inv, Disconnect, spent' \in [Bounds -> Nat]
  PROVE  Inv'
  <1>1. /\ UNCHANGED <<rows, receipts, resumed, expired, handled, out, proven,
                       hello, journal>>
        /\ gate' = Idle /\ upward' = <<>> /\ downward' = <<>>
        /\ client' = [client EXCEPT !.state = "offline", !.welcomed = FALSE,
                                    !.recover = -1, !.live = FALSE]
    BY Zenon DEF Disconnect, server, store
  <1>2. /\ client' \in Clients /\ client'.busy = client.busy
        /\ client'.recover = -1
    BY <1>1, Zenon DEF Inv, TypeOK, Clients
  <1> QED
    BY <1>1, <1>2, ConnectionKeeps, Zenon

LEMMA DropKeeps ==
  ASSUME Inv, Drop
  PROVE  Inv'
  <1>1. spent' \in [Bounds -> Nat]
    BY Spent, Zenon DEF Drop, Inv, TypeOK, Bounds
  <1> QED
    BY <1>1, DisconnectKeeps, Zenon DEF Drop

LEMMA ReceiptTimeoutKeeps ==
  ASSUME Inv, ReceiptTimeout
  PROVE  Inv'
  <1>1. spent' \in [Bounds -> Nat]
    BY Zenon DEF ReceiptTimeout, Inv, TypeOK
  <1> QED
    BY <1>1, DisconnectKeeps, Zenon DEF ReceiptTimeout

LEMMA CrashKeeps ==
  ASSUME Inv, Crash
  PROVE  Inv'
  <1>1. /\ UNCHANGED <<rows, receipts, resumed, expired, handled, out, proven,
                       hello, journal>>
        /\ gate' = Idle /\ upward' = <<>> /\ downward' = <<>>
        /\ client' = [Started EXCEPT !.state = "down"]
    BY Zenon DEF Crash, server, store
  <1>2. spent' \in [Bounds -> Nat]
    BY Spent, Zenon DEF Crash, Inv, TypeOK, Bounds
  <1> QED
    BY <1>1, <1>2, StartedClient, ConnectionKeeps, Zenon

-----------------------------------------------------------------------------
(* Receiving, recovering and handling *)

LEMMA DownwardHead ==
  ASSUME Inv, downward # <<>>
  PROVE  /\ Head(downward) \in Frames
         /\ Genuine(Head(downward), rows, Len(receipts), expired)
  <1>1. Head(downward) = downward[1] /\ 1 \in 1..Len(downward)
    BY SMTT(30) DEF Inv, TypeOK
  <1> QED
    BY <1>1, SMTT(30) DEF Inv, TypeOK, Wire

\* The journal with a frame recorded: the frame's entry is there, an entry
\* that was completed and is not the frame's stays as it is, and a command is
\* never put in the place of another message.
LEMMA Recorded ==
  ASSUME Inv, NEW f \in Frames, Genuine(f, rows, Len(receipts), expired),
         ClientAccepts(f)
  PROVE  /\ Record(f) \in Seq(Entries)
         /\ f.seq \in 1..Len(Record(f))
         /\ Kept(Record(f), out, handled, rows, Len(receipts), expired)
  <1> DEFINE log == Record(f)
             Entry(d) == [ver |-> f.ver, kind |-> f.kind, ref |-> f.ref,
                          delivered |-> d]
  <1>0. Kept(journal, out, handled, rows, Len(receipts), expired)
    BY Zenon DEF Inv, Ledger
  <1>1. /\ f.seq \in Nat /\ f.ver \in Nat /\ f.kind \in Kinds /\ f.ref \in Nat
        /\ journal \in Seq(Entries) /\ DOMAIN journal = 1..Len(journal)
        /\ Len(journal) \in Nat
    BY SMTT(30) DEF Frames, Inv, TypeOK
  <1>2. \A d \in BOOLEAN :
          /\ Entry(d) \in Entries /\ Entry(d).kind = f.kind
          /\ Entry(d).ref = f.ref /\ Entry(d).delivered = d
    BY <1>1, Zenon DEF Entries
  <1>3. CASE ~Journalled(f)
    <2> DEFINE e == Entry(FALSE)
    <2>1. log = Append(journal, e) /\ f.seq = Len(journal) + 1
      BY <1>3, Zenon DEF Record, ClientAccepts
    <2>2. /\ e \in Entries /\ e.kind = f.kind /\ e.ref = f.ref
          /\ e.delivered = FALSE
      BY <1>2, Zenon
    <2> HIDE DEF e, log, Entry
    <2>3. /\ log \in Seq(Entries) /\ Len(log) = Len(journal) + 1
          /\ log[Len(journal) + 1] = e
          /\ \A n \in 1..Len(journal) : log[n] = journal[n]
      BY <1>1, <2>1, <2>2, SMTT(30)
    <2>4. \A n \in 1..Len(log) : n \in 1..Len(journal) \/ n = Len(journal) + 1
      BY <1>1, <2>3, SMTT(30)
    <2>5. Backed(e, Len(receipts))
            /\ (e.kind = "command" => Commanded(f.seq, rows, expired))
      BY <2>2, Zenon DEF Genuine, Backed
    <2>6. \A n \in 1..Len(journal) : Closed(n, journal, handled, expired) =>
            Closed(n, log, handled, expired)
      BY <2>3, Zenon DEF Closed
    <2>7. 1..Len(journal) \subseteq 1..Len(log) /\ f.seq \in 1..Len(log)
      BY <1>1, <2>1, <2>3, SMTT(30)
    <2>8. Kept(log, out, handled, rows, Len(receipts), expired)
      BY <1>0, <2>1, <2>2, <2>3, <2>4, <2>5, <2>6, <2>7, ZenonT(30) DEF Kept
    <2> QED
      BY <2>3, <2>7, <2>8, Zenon DEF log
  <1>4. CASE Known(f)
    <2>1. log = journal /\ f.seq \in 1..Len(journal)
      BY <1>1, <1>4, Zenon DEF Record, Known, Journalled
    <2> QED
      BY <1>0, <1>1, <2>1, Zenon
  <1>5. CASE Journalled(f) /\ ~Known(f)
    <2> DEFINE d == f.kind = "state" /\ journal[f.seq].delivered
               e == Entry(d)
    <2>1. log = [journal EXCEPT ![f.seq] = e] /\ f.seq \in 1..Len(journal)
      BY <1>1, <1>5, Zenon DEF Record, Journalled
    <2>2. d \in BOOLEAN
      BY Zenon
    <2>3. f.kind # "command"
      BY <1>5, Zenon DEF ClientAccepts, ValidReplacement
    <2> HIDE DEF d
    <2>4. e \in Entries /\ e.kind = f.kind /\ e.ref = f.ref
      BY <1>2, <2>2, Zenon
    <2> HIDE DEF e, log, Entry
    <2>5. /\ log \in Seq(Entries) /\ Len(log) = Len(journal)
          /\ \A n \in 1..Len(journal) :
               log[n] = IF n = f.seq THEN e ELSE journal[n]
      BY <1>1, <2>1, <2>4, SMTT(30)
    <2>6. Backed(e, Len(receipts))
      BY <2>4, Zenon DEF Genuine, Backed
    <2>7. \A n \in 1..Len(journal) : n # f.seq =>
            (Closed(n, journal, handled, expired) =>
               Closed(n, log, handled, expired))
      BY <2>5, Zenon DEF Closed
    <2>8. Kept(log, out, handled, rows, Len(receipts), expired)
      BY <1>0, <2>3, <2>4, <2>5, <2>6, <2>7, ZenonT(30) DEF Kept
    <2> QED
      BY <2>1, <2>5, <2>8, Zenon DEF log
  <1> QED
    BY <1>3, <1>4, <1>5, ZenonT(30) DEF Known

\* Marking an entry as delivered keeps the journal, if a command is closed.
LEMMA DeliveredKept ==
  ASSUME NEW log \in Seq(Entries), NEW n \in 1..Len(log), NEW queue, NEW done,
         NEW table, NEW count, NEW past,
         Kept(log, queue, done, table, count, past),
         log[n].kind = "command" => Closed(n, log, done, past)
  PROVE  /\ Delivered(log, n) \in Seq(Entries)
         /\ Len(Delivered(log, n)) = Len(log)
         /\ \A m \in 1..Len(log) :
              /\ Delivered(log, n)[m].kind = log[m].kind
              /\ log[m].delivered => Delivered(log, n)[m].delivered
         /\ Kept(Delivered(log, n), queue, done, table, count, past)
  <1> DEFINE e == [log[n] EXCEPT !.delivered = TRUE]
             new == Delivered(log, n)
  <1>1. log[n] \in Entries
    OBVIOUS
  <1>2. /\ e \in Entries /\ e.kind = log[n].kind /\ e.ref = log[n].ref
        /\ e.ver = log[n].ver /\ e.delivered = TRUE
    BY <1>1, Zenon DEF Entries
  <1>3. new = [log EXCEPT ![n] = e]
    BY Zenon DEF Delivered
  <1> HIDE DEF e, new
  <1>4. /\ new \in Seq(Entries) /\ Len(new) = Len(log)
        /\ \A m \in 1..Len(log) : new[m] = IF m = n THEN e ELSE log[m]
    BY <1>2, <1>3, SMTT(30)
  <1>5. \A m \in 1..Len(log) :
          /\ new[m].kind = log[m].kind /\ new[m].ref = log[m].ref
          /\ new[m].ver = log[m].ver
          /\ new[m].delivered => m = n \/ log[m].delivered
          /\ log[m].delivered => new[m].delivered
    BY <1>2, <1>4, Zenon
  <1>6. \A m \in 1..Len(log) :
          Closed(m, log, done, past) => Closed(m, new, done, past)
    BY <1>5, Zenon DEF Closed
  <1>7. \A m \in 1..Len(log) : Backed(log[m], count) => Backed(new[m], count)
    BY <1>5, Zenon DEF Backed
  <1>8. Kept(new, queue, done, table, count, past)
    BY <1>4, <1>5, <1>6, <1>7, Zenon DEF Kept
  <1> QED
    BY <1>4, <1>5, <1>8, ZenonT(30) DEF new

\* Queueing an ack keeps a journal, if a command is closed.
LEMMA AckKept ==
  ASSUME Inv, NEW log \in Seq(Entries), NEW n \in 1..Len(log), NEW done,
         NEW table, NEW count, NEW past, out' = WithAck(n),
         Kept(log, out, done, table, count, past),
         log[n].kind = "command" => Closed(n, log, done, past)
  PROVE  OutGrows /\ Kept(log, out', done, table, count, past)
  <1> DEFINE m == Message("ack", n, 0)
  <1>1. CASE out' = out
    BY <1>1, OutSame, Zenon DEF Inv
  <1>2. CASE out' = Append(out, m)
    <2>1. m \in Messages /\ m.kind = "ack" /\ m.ref = n
      BY SMTT(30) DEF Message, Messages
    <2> HIDE DEF m
    <2>2. OutGrows /\ Len(out') = Len(out) + 1 /\ out'[Len(out) + 1] = m
      BY <1>2, <2>1, OutAppended, Zenon DEF Inv
    <2>3. \A s \in 1..Len(out') : s \in 1..Len(out) \/ s = Len(out) + 1
      <3>1. Len(out) \in Nat
        BY SMTT(30) DEF Inv, TypeOK
      <3> QED
        BY <2>2, <3>1, SMTT(30)
    <2>4. Kept(log, out', done, table, count, past)
      BY <2>1, <2>2, <2>3, SMTT(30) DEF Kept, OutGrows
    <2> QED
      BY <2>2, <2>4, Zenon
  <1> QED
    BY <1>1, <1>2, ZenonT(30) DEF WithAck

\* What a step of the Connector's store owes.
LEMMA StoreKeeps ==
  ASSUME Inv, UNCHANGED <<rows, receipts, resumed, expired, gate, upward, hello,
                          spent>>,
         \/ downward' = downward
         \/ downward # <<>> /\ downward' = Tail(downward),
         OutGrows, proven' \in Nat, proven' <= Len(receipts),
         journal' \in Seq(Entries), client' \in Clients, Ledger', Decided'
  PROVE  Inv'
  <1>1. gate' \in Gates /\ gate'.resend \in {gate.resend, <<>>}
    BY GateKept, Zenon DEF Inv
  <1>2. /\ downward' \in Seq(Frames)
        /\ \A k \in 1..Len(downward') :
             Genuine(downward'[k], rows, Len(receipts), expired)
    BY DownwardKept, Zenon
  <1>3. /\ upward' \in Seq(Packets)
        /\ \A k \in 1..Len(upward') :
             /\ upward'[k].seq \in 1..Len(out')
             /\ upward'[k].msg = out'[upward'[k].seq]
    BY UpwardKept, Zenon
  <1>4. hello' \in Nat /\ hello' <= Len(out') /\ spent' \in [Bounds -> Nat]
    BY SMTT(30) DEF Inv, TypeOK, Queue, OutGrows
  <1> QED
    BY <1>1, <1>2, <1>3, <1>4, ClientKeeps, Zenon

\* A receipt proves a prefix the control plane has consumed.
LEMMA ProvenKept ==
  ASSUME Inv, NEW s \in 1..Len(receipts)
  PROVE  ProvenThrough(s) \in Nat /\ ProvenThrough(s) <= Len(receipts)
  <1>1. s \in Nat /\ proven \in Nat /\ Len(receipts) \in Nat
    BY DEF Inv, TypeOK
  <1>2. ProvenThrough(s) \in {proven, s}
    BY <1>1, MaxOfTwo, Zenon DEF ProvenThrough
  <1> QED
    BY <1>1, <1>2 DEF Inv, Queue

LEMMA CompleteKeeps ==
  ASSUME Inv, NEW log \in Seq(Entries), NEW n \in 1..Len(log),
         Kept(log, out, handled, rows, Len(receipts), expired),
         Complete(log, n), client.busy = 0,
         client.recover > 0 =>
           client.recover \in 1..Len(log) /\ log[client.recover].delivered,
         UNCHANGED <<rows, receipts, resumed, expired, handled>>
  PROVE  /\ OutGrows /\ proven' \in Nat /\ proven' <= Len(receipts)
         /\ journal' \in Seq(Entries) /\ client' \in Clients
         /\ Ledger' /\ Decided'
  <1>0. Decided'
    BY Zenon DEF Inv, Decided, Heard
  <1>1. n \in Nat /\ log[n] \in Entries /\ client \in Clients
          /\ proven \in Nat /\ proven <= Len(receipts)
    <2>1. n \in Nat /\ log[n] \in Entries
      BY SMT
    <2>2. client \in Clients /\ proven \in Nat /\ proven <= Len(receipts)
      BY Zenon DEF Inv, TypeOK, Queue
    <2> QED
      BY <2>1, <2>2, Zenon
  <1>2. ASSUME log[n].kind = "ack",
               proven' = IF log[n].delivered THEN proven
                         ELSE ProvenThrough(log[n].ref),
               journal' = Delivered(log, n), UNCHANGED <<out, client>>
        PROVE  OutGrows /\ proven' \in Nat /\ proven' <= Len(receipts)
                 /\ journal' \in Seq(Entries) /\ client' \in Clients /\ Ledger'
    <2>1. log[n].ref \in 1..Len(receipts)
      BY <1>2, Zenon DEF Kept, Backed
    <2>2. proven' \in Nat /\ proven' <= Len(receipts)
      BY <1>1, <1>2, <2>1, ProvenKept, Zenon
    <2>3. /\ journal' \in Seq(Entries) /\ Len(journal') = Len(log)
          /\ \A m \in 1..Len(log) : log[m].delivered => journal'[m].delivered
          /\ Kept(journal', out, handled, rows, Len(receipts), expired)
      BY <1>2, DeliveredKept, Zenon
    <2>4. Ledger'
      BY <1>2, <2>3, Zenon DEF Ledger
    <2> QED
      BY <1>1, <1>2, <2>2, <2>3, <2>4, OutSame, Zenon DEF Inv
  <1>3. ASSUME NeedsHandler(log, n), journal' = log, UNCHANGED <<out, proven>>,
               client' = [client EXCEPT !.busy = n, !.live = TRUE]
        PROVE  OutGrows /\ proven' \in Nat /\ proven' <= Len(receipts)
                 /\ journal' \in Seq(Entries) /\ client' \in Clients /\ Ledger'
    <2>1. client' \in Clients /\ client'.busy = n
            /\ client'.recover = client.recover
      BY <1>1, <1>3, ZenonT(30) DEF Clients
    <2>2. log[n].kind = "command"
      BY <1>3, Zenon DEF NeedsHandler
    <2>3. Ledger'
      BY <1>3, <2>1, <2>2, Zenon DEF Ledger
    <2> QED
      BY <1>1, <1>3, <2>1, <2>3, OutSame, Zenon DEF Inv
  <1>4. ASSUME log[n].kind # "ack", ~NeedsHandler(log, n), out' = WithAck(n),
               journal' = Delivered(log, n), UNCHANGED <<proven, client>>
        PROVE  OutGrows /\ proven' \in Nat /\ proven' <= Len(receipts)
                 /\ journal' \in Seq(Entries) /\ client' \in Clients /\ Ledger'
    <2>1. log[n].kind = "command" => Closed(n, log, handled, expired)
      BY <1>4, Zenon DEF NeedsHandler, Late, Kept, Closed
    <2>2. OutGrows /\ Kept(log, out', handled, rows, Len(receipts), expired)
      BY <1>4, <2>1, AckKept, Zenon
    <2>3. /\ journal' \in Seq(Entries) /\ Len(journal') = Len(log)
          /\ \A m \in 1..Len(log) : log[m].delivered => journal'[m].delivered
          /\ Kept(journal', out', handled, rows, Len(receipts), expired)
      BY <1>4, <2>1, <2>2, DeliveredKept, Zenon
    <2>4. Ledger'
      BY <1>4, <2>3, Zenon DEF Ledger
    <2> QED
      BY <1>1, <1>4, <2>2, <2>3, <2>4, Zenon
  <1> QED
    BY <1>0, <1>2, <1>3, <1>4, Zenon DEF Complete

LEMMA ReceiveWelcomeKeeps ==
  ASSUME Inv, ReceiveWelcome
  PROVE  Inv'
  <1> DEFINE f == Head(downward)
             r == IF Known(f) /\ journal[f.seq].delivered THEN f.seq ELSE 0
  <1>1. /\ downward # <<>> /\ f.kind = "welcome" /\ ClientAccepts(f)
        /\ journal' = Record(f) /\ client.busy = 0
        /\ client' = [client EXCEPT !.welcomed = TRUE, !.recover = r]
        /\ proven' = ProvenThrough(hello) /\ downward' = Tail(downward)
        /\ UNCHANGED <<rows, receipts, resumed, gate, upward, out, hello,
                       handled, expired, spent>>
    BY Zenon DEF ReceiveWelcome, Receiving, server
  <1>2. f \in Frames /\ Genuine(f, rows, Len(receipts), expired)
    BY <1>1, DownwardHead, Zenon
  <1> HIDE DEF f
  <1>3. /\ journal' \in Seq(Entries) /\ f.seq \in 1..Len(journal')
        /\ Kept(journal', out, handled, rows, Len(receipts), expired)
    BY <1>1, <1>2, Recorded, Zenon
  <1>4. hello \in 1..Len(receipts)
    BY <1>1, <1>2, Zenon DEF Genuine, Backed, ClientAccepts
  <1>5. proven' \in Nat /\ proven' <= Len(receipts)
    BY <1>1, <1>4, ProvenKept, Zenon
  <1>6. r \in Nat /\ (r > 0 => r \in 1..Len(journal') /\ journal'[r].delivered)
    <2>1. CASE Known(f) /\ journal[f.seq].delivered
      <3>1. journal' = journal /\ r = f.seq
        BY <1>1, <2>1, Zenon DEF Record, Known
      <3> QED
        BY <1>3, <2>1, <3>1, SMTT(30)
    <2>2. CASE ~(Known(f) /\ journal[f.seq].delivered)
      BY <2>2
    <2> QED
      BY <2>1, <2>2, Zenon
  <1> HIDE DEF r
  <1>7. client' \in Clients /\ client'.busy = 0 /\ client'.recover = r
    BY <1>1, <1>6, Zenon DEF Inv, TypeOK, Clients
  <1>8. Ledger'
    BY <1>1, <1>3, <1>6, <1>7, Zenon DEF Ledger
  <1>9. Decided'
    BY <1>1, Zenon DEF Inv, Decided, Heard
  <1>10. OutGrows
    BY <1>1, OutSame, Zenon DEF Inv
  <1> QED
    BY <1>1, <1>3, <1>5, <1>7, <1>8, <1>9, <1>10, StoreKeeps, Zenon

LEMMA ReceiveKeeps ==
  ASSUME Inv, Receive
  PROVE  Inv'
  <1> DEFINE f == Head(downward)
  <1>1. /\ downward # <<>> /\ ClientAccepts(f) /\ client.busy = 0
        /\ client.recover = -1 /\ downward' = Tail(downward)
        /\ UNCHANGED <<rows, receipts, resumed, gate, upward, hello, handled,
                       expired, spent>>
        /\ IF client.welcomed THEN Complete(Record(f), f.seq)
           ELSE journal' = Record(f) /\ UNCHANGED <<out, proven, client>>
    BY Zenon DEF Receive, Receiving, server
  <1>2. f \in Frames /\ Genuine(f, rows, Len(receipts), expired)
    BY <1>1, DownwardHead, Zenon
  <1> HIDE DEF f
  <1>3. /\ Record(f) \in Seq(Entries) /\ f.seq \in 1..Len(Record(f))
        /\ Kept(Record(f), out, handled, rows, Len(receipts), expired)
    BY <1>1, <1>2, Recorded, Zenon
  <1>4. CASE Complete(Record(f), f.seq)
    <2>1. ~(client.recover > 0)
      BY <1>1, SMTT(30)
    <2>2. /\ OutGrows /\ proven' \in Nat /\ proven' <= Len(receipts)
          /\ journal' \in Seq(Entries) /\ client' \in Clients
          /\ Ledger' /\ Decided'
      BY <1>1, <1>3, <1>4, <2>1, CompleteKeeps, Zenon
    <2> QED
      BY <1>1, <2>2, StoreKeeps, Zenon
  <1>5. CASE journal' = Record(f) /\ UNCHANGED <<out, proven, client>>
    <2>1. Ledger'
      <3>1. client'.busy = 0 /\ ~(client'.recover > 0)
        BY <1>1, <1>5, SMTT(30)
      <3>2. Kept(journal', out', handled', rows', Len(receipts'), expired')
        BY <1>1, <1>3, <1>5, Zenon
      <3> QED
        BY <3>1, <3>2, Zenon DEF Ledger
    <2>2. Decided'
      BY <1>1, Zenon DEF Inv, Decided, Heard
    <2>3. OutGrows /\ proven' \in Nat /\ proven' <= Len(receipts)
            /\ client' \in Clients
      BY <1>5, OutSame, Zenon DEF Inv, TypeOK, Queue
    <2> QED
      BY <1>1, <1>3, <1>5, <2>1, <2>2, <2>3, StoreKeeps, Zenon
  <1> QED
    BY <1>1, <1>4, <1>5, Zenon

LEMMA RecoverKeeps ==
  ASSUME Inv, Recover
  PROVE  Inv'
  <1>1. /\ client.busy = 0 /\ client.recover # -1
        /\ UNCHANGED <<rows, receipts, resumed, gate, upward, downward, hello,
                       handled, expired, spent>>
    BY Zenon DEF Recover, server, wire
  <1>2. /\ journal \in Seq(Entries) /\ client \in Clients /\ proven \in Nat
        /\ proven <= Len(receipts) /\ DOMAIN journal = 1..Len(journal)
        /\ Kept(journal, out, handled, rows, Len(receipts), expired)
        /\ client.recover > 0 => /\ client.recover \in 1..Len(journal)
                                 /\ journal[client.recover].delivered
    BY SMTT(30) DEF Inv, TypeOK, Queue, Ledger
  <1>3. Decided'
    BY <1>1, Zenon DEF Inv, Decided, Heard
  <1>4. CASE Undelivered = {}
    <2>1. /\ out' = IF client.recover = 0 THEN out ELSE WithAck(client.recover)
          /\ client' = [client EXCEPT !.recover = -1]
          /\ UNCHANGED <<proven, journal>>
      BY <1>4, Zenon DEF Recover
    <2>2. client' \in Clients /\ client'.busy = 0 /\ client'.recover = -1
      BY <1>1, <1>2, <2>1, Zenon DEF Clients
    <2>3. OutGrows /\ Kept(journal, out', handled, rows, Len(receipts), expired)
      <3>1. CASE client.recover = 0
        BY <1>2, <2>1, <3>1, OutSame, Zenon DEF Inv
      <3>2. CASE client.recover # 0
        <4>1. client.recover > 0
          BY <1>1, <1>2, <3>2, SMTT(30) DEF Clients
        <4>2. journal[client.recover].kind = "command" =>
                Closed(client.recover, journal, handled, expired)
          BY <1>2, <4>1, Zenon DEF Kept
        <4> QED
          BY <1>2, <2>1, <3>2, <4>1, <4>2, AckKept, Zenon
      <3> QED
        BY <3>1, <3>2, Zenon
    <2>4. Ledger'
      BY <1>1, <2>1, <2>2, <2>3, SMTT(30) DEF Ledger
    <2> QED
      BY <1>1, <1>2, <1>3, <2>1, <2>2, <2>3, <2>4, StoreKeeps, Zenon
  <1>5. CASE Undelivered # {}
    <2>0. PICK n \in Undelivered :
            IF Late(n, journal[n].ver)
              THEN /\ journal' = Delivered(journal, n)
                   /\ UNCHANGED <<out, proven, client>>
              ELSE Complete(journal, n)
      BY <1>5, Zenon DEF Recover
    <2>1. n \in 1..Len(journal)
      BY <1>2, Zenon DEF Undelivered
    <2>2. CASE /\ Late(n, journal[n].ver) /\ journal' = Delivered(journal, n)
               /\ UNCHANGED <<out, proven, client>>
      <3>1. journal[n].kind = "command" => Closed(n, journal, handled, expired)
        BY <2>2, Zenon DEF Late, Closed
      <3>2. /\ journal' \in Seq(Entries) /\ Len(journal') = Len(journal)
            /\ \A m \in 1..Len(journal) :
                 journal[m].delivered => journal'[m].delivered
            /\ Kept(journal', out, handled, rows, Len(receipts), expired)
        BY <1>2, <2>1, <2>2, <3>1, DeliveredKept, Zenon
      <3>3. Ledger'
        BY <1>1, <1>2, <2>2, <3>2, ZenonT(30) DEF Ledger
      <3>4. OutGrows
        BY <2>2, OutSame, Zenon DEF Inv
      <3> QED
        BY <1>1, <1>2, <1>3, <2>2, <3>2, <3>3, <3>4, StoreKeeps, Zenon
    <2>3. CASE Complete(journal, n)
      <3>1. /\ OutGrows /\ proven' \in Nat /\ proven' <= Len(receipts)
            /\ journal' \in Seq(Entries) /\ client' \in Clients
            /\ Ledger' /\ Decided'
        BY <1>1, <1>2, <2>1, <2>3, CompleteKeeps, Zenon
      <3> QED
        BY <1>1, <3>1, StoreKeeps, Zenon
    <2> QED
      BY <2>0, <2>2, <2>3, Zenon
  <1> QED
    BY <1>4, <1>5, Zenon

LEMMA HandlerDoneKeeps ==
  ASSUME Inv, HandlerDone
  PROVE  Inv'
  <1> DEFINE b == client.busy
  <1>1. /\ b # 0 /\ handled' = handled \cup {b}
        /\ client' = [client EXCEPT !.busy = 0, !.live = FALSE]
        /\ UNCHANGED <<rows, receipts, resumed, gate, upward, downward, proven,
                       hello, expired, spent>>
        /\ \/ out' = WithAck(b) /\ journal' = Delivered(journal, b)
           \/ UNCHANGED <<out, journal>>
    BY Zenon DEF HandlerDone, server, wire
  <1>2. /\ journal \in Seq(Entries) /\ client \in Clients /\ proven \in Nat
        /\ proven <= Len(receipts)
        /\ Kept(journal, out, handled, rows, Len(receipts), expired)
        /\ client.recover > 0 => /\ client.recover \in 1..Len(journal)
                                 /\ journal[client.recover].delivered
        /\ b \in 1..Len(journal) /\ journal[b].kind = "command"
    BY <1>1, Zenon DEF Inv, TypeOK, Queue, Ledger
  <1>3. /\ client' \in Clients /\ client'.busy = 0
        /\ client'.recover = client.recover
    BY <1>1, <1>2, ZenonT(30) DEF Clients
  <1> HIDE DEF b
  <1>4. \A n : Closed(n, journal, handled, expired) =>
                 Closed(n, journal, handled', expired)
    BY <1>1, Zenon DEF Closed
  <1>5. Kept(journal, out, handled', rows, Len(receipts), expired)
    BY <1>2, <1>4, Zenon DEF Kept
  <1>6. Closed(b, journal, handled', expired)
    BY <1>1, Zenon DEF Closed
  <1>7. OutGrows /\ journal' \in Seq(Entries) /\ Ledger'
    <2>1. CASE out' = WithAck(b) /\ journal' = Delivered(journal, b)
      <3>1. OutGrows /\ Kept(journal, out', handled', rows, Len(receipts), expired)
        BY <1>2, <1>5, <1>6, <2>1, AckKept, Zenon
      <3>2. /\ journal' \in Seq(Entries) /\ Len(journal') = Len(journal)
            /\ \A m \in 1..Len(journal) :
                 journal[m].delivered => journal'[m].delivered
            /\ Kept(journal', out', handled', rows, Len(receipts), expired)
        BY <1>2, <1>6, <2>1, <3>1, DeliveredKept, Zenon
      <3> QED
        BY <1>1, <1>2, <1>3, <3>1, <3>2, Zenon DEF Ledger
    <2>2. CASE UNCHANGED <<out, journal>>
      BY <1>1, <1>2, <1>3, <1>5, <2>2, OutSame, Zenon DEF Inv, Ledger
    <2> QED
      BY <1>1, <2>1, <2>2, Zenon
  <1>8. Decided'
    <2>1. Commanded(b, rows, expired)
      BY <1>2, Zenon DEF Kept
    <2>2. ASSUME NEW i \in 1..Len(receipts), receipts[i].msg.kind = "ack",
                 receipts[i].msg.ref = b
          PROVE  b \in handled \/ \E e \in expired : e[1] = b
      <3>1. i \in 1..Len(out) /\ out[i].kind = "ack" /\ out[i].ref = b
        BY <2>2, SMTT(30) DEF Inv, TypeOK, Queue
      <3>2. Closed(b, journal, handled, expired)
        BY <1>2, <3>1, Zenon DEF Kept
      <3> QED
        BY <3>2, Zenon DEF Closed
    <2>3. Heard'
      BY <1>1, <2>2, Zenon DEF Inv, Decided, Heard
    <2> QED
      BY <1>1, <2>1, <2>3, Zenon DEF Inv, Decided
  <1> QED
    BY <1>1, <1>2, <1>3, <1>7, <1>8, StoreKeeps, Zenon

-----------------------------------------------------------------------------
(* The theorems *)

LEMMA InitInv ==
  ASSUME Init
  PROVE  Inv
  <1>1. TypeOK
    <2>1. gate \in Gates
      <3> DEFINE e == <<>>
      <3>1. e \in Seq(Frames) /\ gate = [init |-> FALSE, replaying |-> FALSE,
                                         scan |-> 0, resend |-> e]
        BY DEF Init, Idle
      <3> HIDE DEF e
      <3> QED
        BY <3>1, Zenon DEF Gates
    <2>2. client \in Clients
      BY StartedClient, Zenon DEF Init
    <2>3. spent \in [Bounds -> Nat]
      BY DEF Init, Bounds
    <2> QED
      BY <2>1, <2>2, <2>3, SMTT(30) DEF Init, TypeOK
  <1>2. Tables /\ Wire /\ Queue
    BY DEF Init, Tables, Wire, Queue, Idle
  <1>3. Kept(journal, out, handled, rows, Len(receipts), expired)
    BY DEF Init, Kept
  <1>4. Ledger /\ Decided
    BY <1>3, StartedClient, SMTT(30) DEF Init, Ledger, Decided, Heard
  <1> QED
    BY <1>1, <1>2, <1>4, Zenon DEF Inv

LEMMA StutterKeeps ==
  ASSUME Inv, UNCHANGED vars
  PROVE  Inv'
  <1>1. UNCHANGED <<rows, receipts, resumed, gate, upward, downward, out, proven,
                    hello, journal, handled, client, expired, spent>>
    BY Zenon DEF vars, server, wire, store
  <1> QED
    BY <1>1, ZenonT(30) DEF Inv, TypeOK, Tables, Wire, Queue, Ledger, Decided, Heard

LEMMA StepKeeps ==
  ASSUME Inv, [Next]_vars
  PROVE  Inv'
  <1>1. ASSUME Progress
        PROVE  Inv'
    BY <1>1, AcceptKeeps, PumpKeeps, ResendKeeps, StartKeeps, ConnectKeeps,
       SendKeeps, ReceiveWelcomeKeeps, ReceiveKeeps, RecoverKeeps,
       HandlerDoneKeeps, ReceiptTimeoutKeeps, Zenon DEF Progress
  <1>2. ASSUME Environment
        PROVE  Inv'
    BY <1>2, PublishKeeps, CommandKeeps, StallKeeps, RejectKeeps, DropKeeps,
       CrashKeeps, ExpireKeeps, Zenon DEF Environment
  <1> QED
    BY <1>1, <1>2, StutterKeeps, Zenon DEF Next

\* The link's invariant: every frame in flight is one its sender stands for,
\* the receipts are a prefix of the Connector's queue, and the journal, the
\* acks and the handled commands agree, whatever is lost, repeated or crashes.
THEOREM Invariance == Spec => []Inv
  BY InitInv, StepKeeps, PTL DEF Spec

\* acknowledgeThrough retires only what acceptClientMessage has consumed, and
\* the control plane's receipts are the Connector's queue in its order.
THEOREM ProvenIsConsumedHolds == Spec => []ProvenIsConsumed
  <1>1. ASSUME Inv
        PROVE  ProvenIsConsumed
    <2>1. DOMAIN receipts = 1..Len(receipts)
      BY <1>1, SMTT(30) DEF Inv, TypeOK
    <2> QED
      BY <1>1, <2>1, Zenon DEF Inv, Queue, ProvenIsConsumed
  <1> QED
    BY <1>1, Invariance, PTL

\* An ack that enqueueAck allocates for a command names a recorded row whose
\* handlers completed or whose deadline passed.
THEOREM AckIsSettledHolds == Spec => []AckIsSettled
  <1>1. ASSUME Inv
        PROVE  AckIsSettled
    <2>1. DOMAIN out = 1..Len(out) /\ DOMAIN journal = 1..Len(journal)
      BY <1>1, SMTT(30) DEF Inv, TypeOK
    <2>2. Kept(journal, out, handled, rows, Len(receipts), expired)
      BY <1>1, Zenon DEF Inv, Ledger
    <2> QED
      BY <2>1, <2>2, Zenon DEF Kept, Closed, AckIsSettled, Late
  <1> QED
    BY <1>1, Invariance, PTL

\* When the ack of a handled command is consumed, resumeDeliveredApproval finds
\* the command in the outbox, unless the command's deadline has passed.
THEOREM DeliveredDecisionResumesHolds == Spec => []DeliveredDecisionResumes
  <1>1. ASSUME Inv
        PROVE  DeliveredDecisionResumes
    <2>1. DOMAIN receipts = 1..Len(receipts)
      BY <1>1, SMTT(30) DEF Inv, TypeOK
    <2> QED
      BY <1>1, <2>1, Zenon DEF Inv, Decided, Heard, DeliveredDecisionResumes
  <1> QED
    BY <1>1, Invariance, PTL
=============================================================================
