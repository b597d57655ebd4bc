------------------------------- MODULE RtcProofs ------------------------------
(***************************************************************************)
(* Proofs about the voice mode.  Of RtcOutput, for any jobs, speeches and  *)
(* number of calls: the order of what is written, the silence after        *)
(* STOP_OUTPUT and that stale progress is never written; the invariant     *)
(* says the same of the frames that are still queued, pending or on their  *)
(* way.  Of RtcSession, for any ids and number of sessions: what the       *)
(* providers have open belongs to a registered session.                    *)
(***************************************************************************)
EXTENDS RtcOutput, TLAPS

-----------------------------------------------------------------------------
(* The inductive invariant *)

News == {"approval", "terminal"}
Kinds == {"speak", "highlight", "plain", "stop", "progress"} \cup News
Items == [kind : Kinds, job : Jobs \cup {None}, event : Nat, urgent : BOOLEAN,
          id : Nat, gen : Nat, valid : BOOLEAN, overtaken : BOOLEAN, after : Nat]
Updates == [job : Jobs, event : Nat]
Waits == [job : Jobs, event : Nat, overtaken : BOOLEAN]

TypeOK ==
  /\ queue \in Seq(Items) /\ wire \in Seq(Items)
  /\ generation \in Nat /\ requested \in Nat /\ calls \in Nat
  /\ subscribed \subseteq Jobs
  /\ pending \in Seq(Updates)
  /\ \A f \in flights : /\ f = [awaits |-> f.awaits, of |-> f.of, rest |-> f.rest]
                        /\ f.rest \in Seq(Waits)

\* Frames are numbered as they are queued.
Numbered(q, w, n) ==
  /\ \A i \in 1..Len(q) : q[i].id \in 1..n /\ q[i].after <= Len(w)
  /\ \A i \in 1..Len(w) : w[i].id \in 1..n
  /\ \A i, k \in 1..Len(q) : i < k => q[i].id < q[k].id

\* WireOrder, of what is written and of what is queued.
Ordered(q, w) ==
  /\ \A i \in 1..Len(w), k \in 1..Len(q) :
       /\ w[i].urgent = q[k].urgent => w[i].id < q[k].id
       /\ q[k].urgent /\ i > q[k].after => w[i].urgent
  /\ \A i, k \in 1..Len(w) : i < k =>
       /\ w[k].urgent /\ i > w[k].after => w[i].urgent
       /\ w[i].urgent = w[k].urgent => w[i].id < w[k].id

\* Speech x is requested after a stop s.
Follows(s, x) == s.kind = "stop" /\ x.kind \in Speech => x.id > s.id

\* StopSilences; queued speech that a stop overtook is of a former generation.
Silenced(q, w, g) ==
  /\ \A k \in 1..Len(q) : q[k].gen <= g
  /\ \A k \in 1..Len(q) :
       /\ \A i \in 1..Len(w) : Follows(w[i], q[k]) \/ q[k].gen < g
       /\ \A i \in 1..Len(q) : Follows(q[i], q[k]) \/ q[k].gen < g
  /\ \A i \in 1..Len(w) :
       /\ \A k \in 1..Len(w) : i > w[k].after => Follows(w[k], w[i])
       /\ \A k \in 1..Len(q) : i > q[k].after => Follows(q[k], w[i])

\* Progress p is older than the approval or the outcome a of its job.
Stale(a, p) ==
  a.kind \in News /\ a.job \in {None, p.job} /\ p.event < a.event

\* A pending update is of one job, newer than any news of it; stale progress on
\* its way is marked, and stale progress in the queue is cancelled unless it
\* was on its way.
Fresh(a, q, updates, ways) ==
  /\ \A k \in 1..Len(q) :
       q[k].kind = "progress" /\ Stale(a, q[k]) => ~q[k].valid \/ q[k].overtaken
  /\ \A k \in 1..Len(updates) : ~Stale(a, updates[k])
  /\ \A f \in ways : \A k \in 1..Len(f.rest) :
       Stale(a, f.rest[k]) => f.rest[k].overtaken

\* NoStaleProgress, of what is written and of what may be.
Reported(q, w, updates, ways, n) ==
  /\ \A k \in 1..Len(q) : q[k].event <= n
  /\ \A k \in 1..Len(updates) : updates[k].event <= n
  /\ \A f \in ways : \A k \in 1..Len(f.rest) : f.rest[k].event <= n
  /\ \A i, k \in 1..Len(updates) : updates[i].job = updates[k].job => i = k
  /\ \A i \in 1..Len(w) : w[i].event <= n /\ Fresh(w[i], q, updates, ways)
  /\ \A i \in 1..Len(q) : Fresh(q[i], q, updates, ways)
  /\ \A i, k \in 1..Len(w) :
       i < k /\ w[k].kind = "progress" /\ Stale(w[i], w[k]) => w[k].overtaken

Inv ==
  /\ TypeOK
  /\ Numbered(queue, wire, requested)
  /\ Ordered(queue, wire)
  /\ Silenced(queue, wire, generation)
  /\ Reported(queue, wire, pending, flights, calls)

-----------------------------------------------------------------------------
(* What happens to the queue *)

LEMMA ItemFields ==
  ASSUME NEW s \in Seq(Items), NEW k \in 1..Len(s)
  PROVE  /\ s[k] \in Items
         /\ s[k].id \in Nat /\ s[k].gen \in Nat /\ s[k].after \in Nat
         /\ s[k].event \in Nat
         /\ s[k].urgent \in BOOLEAN /\ s[k].valid \in BOOLEAN
         /\ s[k].overtaken \in BOOLEAN
  <1> DEFINE x == s[k]
  <1>1. x \in Items
    OBVIOUS
  <1> HIDE DEF x
  <1>2. /\ x.id \in Nat /\ x.gen \in Nat /\ x.after \in Nat /\ x.event \in Nat
        /\ x.urgent \in BOOLEAN /\ x.valid \in BOOLEAN /\ x.overtaken \in BOOLEAN
    BY <1>1, Zenon DEF Items
  <1> QED
    BY <1>1, <1>2, Zenon DEF x

LEMMA UpdateFields ==
  ASSUME NEW s \in Seq(Updates), NEW k \in 1..Len(s)
  PROVE  s[k] \in Updates /\ s[k].job \in Jobs /\ s[k].event \in Nat
  <1> DEFINE x == s[k]
  <1>1. x \in Updates
    OBVIOUS
  <1> HIDE DEF x
  <1>2. x.job \in Jobs /\ x.event \in Nat
    BY <1>1, Zenon DEF Updates
  <1> QED
    BY <1>1, <1>2, Zenon DEF x

LEMMA WaitFields ==
  ASSUME NEW s \in Seq(Waits), NEW k \in 1..Len(s)
  PROVE  /\ s[k] \in Waits /\ s[k].job \in Jobs /\ s[k].event \in Nat
         /\ s[k].overtaken \in BOOLEAN
  <1> DEFINE x == s[k]
  <1>1. x \in Waits
    OBVIOUS
  <1> HIDE DEF x
  <1>2. x.job \in Jobs /\ x.event \in Nat /\ x.overtaken \in BOOLEAN
    BY <1>1, Zenon DEF Waits
  <1> QED
    BY <1>1, <1>2, Zenon DEF x

\* splice and delete keep the order of the rest.
LEMMA Removed ==
  ASSUME NEW S, NEW s \in Seq(S), NEW i \in 1..Len(s)
  PROVE  /\ Without(s, i) \in Seq(S) /\ Len(Without(s, i)) = Len(s) - 1
         /\ \A k \in 1..Len(Without(s, i)) :
              LET m == IF k < i THEN k ELSE k + 1
              IN m \in 1..Len(s) /\ m # i /\ Without(s, i)[k] = s[m]
  <1> DEFINE n == Len(s) - 1
             r == [k \in 1..n |-> s[IF k < i THEN k ELSE k + 1]]
  <1>1. n \in Nat
    OBVIOUS
  <1>2. \A k \in 1..n : LET m == IF k < i THEN k ELSE k + 1
                        IN m \in 1..Len(s) /\ m # i /\ r[k] = s[m]
    OBVIOUS
  <1>3. \A k \in 1..n : r[k] \in S
    BY <1>2
  <1>4. r \in Seq(S) /\ Len(r) = n
    BY <1>1, <1>3
  <1>5. Without(s, i) = r
    BY Zenon DEF Without
  <1> HIDE DEF r, n
  <1>6. Len(Without(s, i)) = Len(s) - 1
    BY <1>4, <1>5, Zenon DEF n
  <1> QED
    BY <1>2, <1>4, <1>5, <1>6, Zenon

LEMMA RemovedFrom ==
  ASSUME NEW S, NEW s \in Seq(S), NEW i \in 1..Len(s)
  PROVE  /\ Without(s, i) \in Seq(S) /\ Len(Without(s, i)) = Len(s) - 1
         /\ \A k \in 1..Len(Without(s, i)) :
              \E m \in 1..Len(s) : Without(s, i)[k] = s[m]
  <1> DEFINE r == Without(s, i)
  <1>1. /\ r \in Seq(S) /\ Len(r) = Len(s) - 1
        /\ \A k \in 1..Len(r) : LET m == IF k < i THEN k ELSE k + 1
                                IN m \in 1..Len(s) /\ r[k] = s[m]
    BY Removed
  <1> HIDE DEF r
  <1>2. \A k \in 1..Len(r) : \E m \in 1..Len(s) : r[k] = s[m]
    BY <1>1, Zenon
  <1> QED
    BY <1>1, <1>2, Zenon DEF r

\* A frame that is dropped, because it is not valid any more.
LEMMA RemovedKeeps ==
  ASSUME NEW q \in Seq(Items), NEW w \in Seq(Items), NEW i \in 1..Len(q),
         NEW n \in Nat, NEW g \in Nat, NEW updates, NEW ways, NEW c \in Nat
  PROVE  /\ Numbered(q, w, n) => Numbered(Without(q, i), w, n)
         /\ Ordered(q, w) => Ordered(Without(q, i), w)
         /\ Silenced(q, w, g) => Silenced(Without(q, i), w, g)
         /\ Reported(q, w, updates, ways, c) =>
              Reported(Without(q, i), w, updates, ways, c)
  <1> DEFINE r == Without(q, i)
             at(k) == IF k < i THEN k ELSE k + 1
  <1>1. /\ r \in Seq(Items) /\ Len(r) = Len(q) - 1
        /\ \A k \in 1..Len(r) : at(k) \in 1..Len(q) /\ r[k] = q[at(k)]
    BY Removed, SMTT(30)
  <1>2. \A k, m \in 1..Len(r) : k < m => at(k) < at(m)
    BY <1>1
  <1> HIDE DEF r, at
  <1>3. Numbered(q, w, n) => Numbered(r, w, n)
    BY <1>1, <1>2, Zenon DEF Numbered
  <1>4. Ordered(q, w) => Ordered(r, w)
    BY <1>1, SMTT(30) DEF Ordered
  <1>5. Silenced(q, w, g) => Silenced(r, w, g)
    BY <1>1, Zenon DEF Silenced
  <1>6. ASSUME NEW a, Fresh(a, q, updates, ways) PROVE Fresh(a, r, updates, ways)
    BY <1>1, <1>6, Zenon DEF Fresh
  <1>7. Reported(q, w, updates, ways, c) => Reported(r, w, updates, ways, c)
    BY <1>1, <1>6, Zenon DEF Reported
  <1> QED
    BY <1>3, <1>4, <1>5, <1>7, Zenon DEF r

\* A frame that is written: the first urgent one, or the first.
LEMMA WrittenOrdered ==
  ASSUME NEW q \in Seq(Items), NEW w \in Seq(Items), NEW i \in 1..Len(q),
         NEW n \in Nat, Picked(q, i), Numbered(q, w, n), Ordered(q, w)
  PROVE  /\ Numbered(Without(q, i), Append(w, q[i]), n)
         /\ Ordered(Without(q, i), Append(w, q[i]))
  <1> DEFINE r == Without(q, i)
             at(k) == IF k < i THEN k ELSE k + 1
             x == q[i]
             v == Append(w, x)
  <1>1. /\ r \in Seq(Items) /\ Len(r) = Len(q) - 1
        /\ \A k \in 1..Len(r) : /\ at(k) \in 1..Len(q) /\ at(k) # i
                                /\ r[k] = q[at(k)]
    BY Removed
  <1>2. \A k, m \in 1..Len(r) : k < m => at(k) < at(m)
    BY <1>1, SMTT(30)
  <1>3. x \in Items
    OBVIOUS
  <1>4. \A k \in 1..Len(q) :
          /\ q[k].id \in Nat /\ q[k].after \in Nat /\ q[k].urgent \in BOOLEAN
    BY ItemFields, Zenon
  <1>5. \A k \in 1..Len(w) :
          /\ w[k].id \in Nat /\ w[k].after \in Nat /\ w[k].urgent \in BOOLEAN
    BY ItemFields, Zenon
  <1>6. \A k \in 1..Len(q) :
          /\ q[k].urgent => x.urgent
          /\ k # i /\ q[k].urgent = x.urgent => i < k
    <2> DEFINE urgent == {k \in DOMAIN q : q[k].urgent}
    <2>1. IF urgent = {} THEN i = 1 ELSE i \in urgent /\ \A k \in urgent : i <= k
      BY Zenon DEF Picked
    <2>2. \A k \in 1..Len(q) : k \in urgent <=> q[k].urgent
      OBVIOUS
    <2> HIDE DEF urgent
    <2>3. CASE urgent = {}
      BY <1>4, <2>1, <2>2, <2>3
    <2>4. CASE urgent # {}
      BY <1>4, <2>1, <2>2, <2>4
    <2> QED
      BY <2>3, <2>4, Zenon
  <1>7. \A k \in 1..Len(q) :
          k # i /\ q[k].urgent = x.urgent => x.id < q[k].id
    BY <1>6, Zenon DEF Numbered
  <1> HIDE DEF r, at, x
  <1>8. /\ Len(v) = Len(w) + 1 /\ v[Len(w) + 1] = x
        /\ \A k \in 1..Len(w) : v[k] = w[k]
        /\ \A k \in 1..Len(v) : k \in 1..Len(w) \/ k = Len(w) + 1
    BY <1>3
  <1> HIDE DEF v
  <1>9. Numbered(r, v, n)
    <2>1. \A k \in 1..Len(r) : r[k].id \in 1..n /\ r[k].after <= Len(v)
      <3>1. \A k \in 1..Len(q) : q[k].id \in 1..n /\ q[k].after <= Len(w)
        BY Zenon DEF Numbered
      <3>2. \A k \in 1..Len(q) : q[k].after <= Len(v)
        BY <1>4, <1>8, <3>1, SMTT(30)
      <3> QED
        BY <1>1, <3>1, <3>2, Zenon
    <2>2. \A k \in 1..Len(v) : v[k].id \in 1..n
      BY <1>8, Zenon DEF Numbered, x
    <2>3. \A k, m \in 1..Len(r) : k < m => r[k].id < r[m].id
      BY <1>1, <1>2, Zenon DEF Numbered
    <2> QED
      BY <2>1, <2>2, <2>3, Zenon DEF Numbered
  <1>10. ASSUME NEW k \in 1..Len(v), NEW m \in 1..Len(r)
         PROVE  /\ v[k].urgent = r[m].urgent => v[k].id < r[m].id
                /\ r[m].urgent /\ k > r[m].after => v[k].urgent
    <2>1. CASE k \in 1..Len(w)
      <3>1. at(m) \in 1..Len(q) /\ r[m] = q[at(m)] /\ v[k] = w[k]
        BY <1>1, <1>8, <2>1, Zenon
      <3> QED
        BY <2>1, <3>1, SMTT(30) DEF Ordered
    <2>2. CASE v[k] = x
      BY <1>1, <1>6, <1>7, <2>2, Zenon
    <2> QED
      BY <1>8, <2>1, <2>2, Zenon
  <1>11. ASSUME NEW k \in 1..Len(v), NEW m \in 1..Len(v), k < m
         PROVE  /\ v[m].urgent /\ k > v[m].after => v[k].urgent
                /\ v[k].urgent = v[m].urgent => v[k].id < v[m].id
    <2>1. k \in 1..Len(w) /\ v[k] = w[k]
      BY <1>8, <1>11
    <2>2. CASE m \in 1..Len(w)
      BY <1>8, <1>11, <2>1, <2>2, Zenon DEF Ordered
    <2>3. CASE v[m] = x
      BY <2>1, <2>3, SMTT(30) DEF Ordered, x
    <2> QED
      BY <1>8, <2>2, <2>3, Zenon
  <1>12. Ordered(r, v)
    BY <1>10, <1>11, Zenon DEF Ordered
  <1> QED
    BY <1>9, <1>12, Zenon DEF r, v, x

LEMMA WrittenSilenced ==
  ASSUME NEW q \in Seq(Items), NEW w \in Seq(Items), NEW i \in 1..Len(q),
         NEW n \in Nat, NEW g \in Nat, q[i].kind \in Speech => q[i].gen = g,
         Numbered(q, w, n), Silenced(q, w, g)
  PROVE  Silenced(Without(q, i), Append(w, q[i]), g)
  <1> DEFINE r == Without(q, i)
             x == q[i]
             v == Append(w, x)
  <1>1. /\ r \in Seq(Items) /\ Len(r) = Len(q) - 1
        /\ \A k \in 1..Len(r) : \E m \in 1..Len(q) : r[k] = q[m]
    BY RemovedFrom, SMTT(30)
  <1>2. x \in Items /\ x.gen \in Nat
    BY ItemFields, Zenon
  <1>3. /\ Len(v) = Len(w) + 1 /\ v[Len(w) + 1] = x
        /\ \A k \in 1..Len(w) : v[k] = w[k]
        /\ \A k \in 1..Len(v) : k \in 1..Len(w) \/ k = Len(w) + 1
    BY <1>2, SMTT(30)
  <1>4. /\ \A k \in 1..Len(w) : Follows(w[k], x)
        /\ \A k \in 1..Len(q) : Follows(q[k], x)
    <2>1. CASE x.kind \in Speech
      BY <1>2, <2>1, SMTT(30) DEF Silenced
    <2>2. CASE x.kind \notin Speech
      BY <2>2, Zenon DEF Follows
    <2> QED
      BY <2>1, <2>2, Zenon
  <1> HIDE DEF r, v
  <1>5. ASSUME NEW k \in 1..Len(r)
        PROVE  /\ r[k].gen <= g
               /\ \A m \in 1..Len(v) : Follows(v[m], r[k]) \/ r[k].gen < g
               /\ \A m \in 1..Len(r) : Follows(r[m], r[k]) \/ r[k].gen < g
    BY <1>1, <1>3, Zenon DEF Silenced
  <1>6. ASSUME NEW k \in 1..Len(v)
        PROVE  /\ \A m \in 1..Len(v) : k > v[m].after => Follows(v[m], v[k])
               /\ \A m \in 1..Len(r) : k > r[m].after => Follows(r[m], v[k])
    <2>1. CASE k \in 1..Len(w)
      BY <1>1, <1>3, <2>1, Zenon DEF Silenced
    <2>2. CASE v[k] = x
      BY <1>1, <1>3, <1>4, <2>2, Zenon
    <2> QED
      BY <1>3, <2>1, <2>2, Zenon
  <1>7. Silenced(r, v, g)
    BY <1>5, <1>6, Zenon DEF Silenced
  <1> QED
    BY <1>7, Zenon DEF r, v

LEMMA WrittenReported ==
  ASSUME NEW q \in Seq(Items), NEW w \in Seq(Items), NEW i \in 1..Len(q),
         NEW updates, NEW ways, NEW c \in Nat,
         q[i].valid, Reported(q, w, updates, ways, c)
  PROVE  Reported(Without(q, i), Append(w, q[i]), updates, ways, c)
  <1> DEFINE r == Without(q, i)
             x == q[i]
             v == Append(w, x)
  <1>1. Reported(r, w, updates, ways, c)
    BY RemovedKeeps, Zenon
  <1>2. r \in Seq(Items) /\ \A k \in 1..Len(r) : \E m \in 1..Len(q) : r[k] = q[m]
    BY RemovedFrom, Zenon
  <1>3. x \in Items /\ x.event <= c
    BY DEF Reported
  <1>4. /\ Len(v) = Len(w) + 1 /\ v[Len(w) + 1] = x
        /\ \A k \in 1..Len(w) : v[k] = w[k]
        /\ \A k \in 1..Len(v) : k \in 1..Len(w) \/ k = Len(w) + 1
    BY <1>3
  <1>5. Fresh(x, q, updates, ways)
    BY Zenon DEF Reported
  <1> HIDE DEF r, v
  <1>6. Fresh(x, r, updates, ways)
    BY <1>2, <1>5, Zenon DEF Fresh
  <1>7. \A k \in 1..Len(v) : v[k].event <= c /\ Fresh(v[k], r, updates, ways)
    BY <1>1, <1>3, <1>4, <1>6, Zenon DEF Reported
  <1>8. ASSUME NEW k \in 1..Len(v), NEW m \in 1..Len(v), k < m,
               v[m].kind = "progress", Stale(v[k], v[m])
        PROVE  v[m].overtaken
    <2>1. k \in 1..Len(w) /\ v[k] = w[k]
      BY <1>4, <1>8, SMTT(30)
    <2>2. CASE m \in 1..Len(w)
      BY <1>1, <1>4, <1>8, <2>1, <2>2, Zenon DEF Reported
    <2>3. CASE v[m] = x
      BY <1>8, <2>1, <2>3, Zenon DEF Reported, Fresh
    <2> QED
      BY <1>4, <2>2, <2>3, Zenon
  <1>9. Reported(r, v, updates, ways, c)
    BY <1>1, <1>7, <1>8, Zenon DEF Reported
  <1> QED
    BY <1>9, Zenon DEF r, v

\* The numbers of frames that follow n others.
LEMMA NumberedOn ==
  ASSUME NEW n \in Nat, NEW l \in Nat, NEW d \in 1..l
  PROVE  /\ n + d \in 1..(n + l)
         /\ \A x \in 1..n : x < n + d /\ n + d > x
         /\ \A e \in 1..l : e < d => n + e < n + d
  BY SMTT(30)

LEMMA BatchNumbered ==
  ASSUME NEW b \in Seq(Items), NEW n \in Nat, \A k \in 1..Len(b) : b[k].id = n + k
  PROVE  \A d \in 1..Len(b) :
           /\ b[d].id \in 1..(n + Len(b))
           /\ \A x \in 1..n : x < b[d].id /\ b[d].id > x
           /\ \A e \in 1..Len(b) : e < d => b[e].id < b[d].id
  <1>1. Len(b) \in Nat
    BY SMTT(30)
  <1>2. ASSUME NEW d \in 1..Len(b)
        PROVE  /\ b[d].id \in 1..(n + Len(b))
               /\ \A x \in 1..n : x < b[d].id /\ b[d].id > x
               /\ \A e \in 1..Len(b) : e < d => b[e].id < b[d].id
    <2>1. b[d].id = n + d /\ \A e \in 1..Len(b) : b[e].id = n + e
      BY Zenon
    <2>2. /\ n + d \in 1..(n + Len(b))
          /\ \A x \in 1..n : x < n + d /\ n + d > x
          /\ \A e \in 1..Len(b) : e < d => n + e < n + d
      BY <1>1, NumberedOn, Zenon
    <2> QED
      BY <2>1, <2>2, Zenon
  <1> QED
    BY <1>2, Zenon

LEMMA NumberedBefore ==
  ASSUME NEW n \in Nat, NEW l \in Nat, NEW x \in 1..n
  PROVE  x \in 1..(n + l) /\ x \in Nat /\ x <= n
  BY SMTT(30)

LEMMA SameOffset ==
  ASSUME NEW l \in Nat, NEW c \in Nat, NEW d \in Nat, c < d
  PROVE  c - l < d - l /\ (d \in 1..l /\ c # 0 => c \in 1..l)
  BY SMTT(30)

\* Frames added at the end, numbered on.
LEMMA AddedOrdered ==
  ASSUME NEW q \in Seq(Items), NEW w \in Seq(Items), NEW b \in Seq(Items),
         NEW n \in Nat, Numbered(q, w, n), Ordered(q, w),
         \A k \in 1..Len(b) : b[k].id = n + k /\ b[k].after = Len(w)
  PROVE  Numbered(q \o b, w, n + Len(b)) /\ Ordered(q \o b, w)
  <1> DEFINE r == q \o b
  <1>1. /\ r \in Seq(Items) /\ Len(r) = Len(q) + Len(b)
        /\ \A k \in 1..Len(q) : r[k] = q[k]
        /\ \A k \in 1..Len(r) : k \notin 1..Len(q) =>
             k - Len(q) \in 1..Len(b) /\ r[k] = b[k - Len(q)]
    BY SMTT(30)
  <1> HIDE DEF r
  <1>2. \A k \in 1..Len(r) : k \notin 1..Len(q) =>
          /\ r[k].id \in 1..(n + Len(b)) /\ r[k].after = Len(w)
          /\ \A x \in 1..n : x < r[k].id
    <2>1. \A d \in 1..Len(b) :
            /\ b[d].id \in 1..(n + Len(b)) /\ b[d].after = Len(w)
            /\ \A x \in 1..n : x < b[d].id
      BY BatchNumbered, Zenon
    <2> QED
      BY <1>1, <2>1, ZenonT(30)
  <1>3. /\ Len(q) \in Nat /\ Len(b) \in Nat /\ Len(w) <= Len(w)
        /\ \A k \in 1..Len(r) : k \in Nat /\ k # 0
        /\ \A i \in 1..Len(w) : ~(i > Len(w))
    BY SMTT(30)
  <1>4. Numbered(r, w, n + Len(b))
    <2>1. ASSUME NEW k \in 1..Len(r)
          PROVE  r[k].id \in 1..(n + Len(b)) /\ r[k].after <= Len(w)
      <3>1. CASE k \in 1..Len(q)
        BY <1>1, <1>3, <3>1, NumberedBefore, Zenon DEF Numbered
      <3>2. CASE k \notin 1..Len(q)
        BY <1>2, <1>3, <3>2, Zenon
      <3> QED
        BY <3>1, <3>2, Zenon
    <2>2. \A k \in 1..Len(w) : w[k].id \in 1..(n + Len(b))
      BY <1>3, NumberedBefore, Zenon DEF Numbered
    <2>3. ASSUME NEW k \in 1..Len(r), NEW m \in 1..Len(r), k < m
          PROVE  r[k].id < r[m].id
      <3>1. CASE m \in 1..Len(q)
        <4>1. k \in 1..Len(q)
          BY <1>3, <2>3, <3>1, SameOffset, Zenon
        <4> QED
          BY <1>1, <2>3, <3>1, <4>1, Zenon DEF Numbered
      <3>2. CASE k \in 1..Len(q) /\ m \notin 1..Len(q)
        BY <1>1, <1>2, <3>2, Zenon DEF Numbered
      <3>3. CASE k \notin 1..Len(q) /\ m \notin 1..Len(q)
        <4>1. k - Len(q) < m - Len(q)
          BY <1>3, <2>3, SameOffset, Zenon
        <4>2. /\ k - Len(q) \in 1..Len(b) /\ r[k] = b[k - Len(q)]
              /\ m - Len(q) \in 1..Len(b) /\ r[m] = b[m - Len(q)]
          BY <1>1, <3>3, Zenon
        <4>3. \A d, e \in 1..Len(b) : e < d => b[e].id < b[d].id
          BY BatchNumbered, Zenon
        <4>4. b[k - Len(q)].id < b[m - Len(q)].id
          BY <4>1, <4>2, <4>3, Zenon
        <4> QED
          BY <4>2, <4>4, Zenon
      <3>4. m \notin 1..Len(q) \/ k \in 1..Len(q)
        BY <1>3, <2>3, SameOffset, Zenon
      <3> QED
        BY <3>1, <3>2, <3>3, <3>4, Zenon
    <2> QED
      BY <2>1, <2>2, <2>3, Zenon DEF Numbered
  <1>5. ASSUME NEW i \in 1..Len(w), NEW k \in 1..Len(r)
        PROVE  /\ w[i].urgent = r[k].urgent => w[i].id < r[k].id
               /\ r[k].urgent /\ i > r[k].after => w[i].urgent
    <2>1. CASE k \in 1..Len(q)
      BY <1>1, <2>1, ZenonT(30) DEF Ordered
    <2>2. CASE k \notin 1..Len(q)
      <3>1. w[i].id < r[k].id
        BY <1>2, <2>2, Zenon DEF Numbered
      <3> QED
        BY <1>2, <1>3, <2>2, <3>1, Zenon
    <2> QED
      BY <2>1, <2>2, Zenon
  <1>6. Ordered(r, w)
    BY <1>5, Zenon DEF Ordered
  <1> QED
    BY <1>4, <1>6, Zenon DEF r

\* A stop among them begins a new generation.
LEMMA AddedSilenced ==
  ASSUME NEW q \in Seq(Items), NEW w \in Seq(Items), NEW b \in Seq(Items),
         NEW n \in Nat, NEW g \in Nat, NEW h \in Nat, g <= h,
         Numbered(q, w, n), Silenced(q, w, g),
         \A k \in 1..Len(b) : b[k].id = n + k /\ b[k].after = Len(w)
                              /\ b[k].gen <= h,
         \A i, k \in 1..Len(b) : Follows(b[i], b[k]),
         g < h \/ \A k \in 1..Len(b) : b[k].kind # "stop"
  PROVE  Silenced(q \o b, w, h)
  <1> DEFINE r == q \o b
  <1>1. /\ r \in Seq(Items) /\ Len(r) = Len(q) + Len(b)
        /\ \A k \in 1..Len(q) : r[k] = q[k]
        /\ \A k \in 1..Len(r) : k \notin 1..Len(q) =>
             k - Len(q) \in 1..Len(b) /\ r[k] = b[k - Len(q)]
    BY SMTT(30)
  <1> HIDE DEF r
  <1>2. \A k \in 1..Len(q) : q[k].gen \in Nat
    BY ItemFields, Zenon
  <1>3. \A k \in 1..Len(r) : k \notin 1..Len(q) =>
          /\ r[k].after = Len(w) /\ r[k].gen <= h
          /\ \A x \in 1..n : r[k].id > x
    <2>1. \A d \in 1..Len(b) :
            /\ b[d].after = Len(w) /\ b[d].gen <= h
            /\ \A x \in 1..n : b[d].id > x
      BY BatchNumbered, Zenon
    <2> QED
      BY <1>1, <2>1, ZenonT(30)
  <1>4. ASSUME NEW k \in 1..Len(r) PROVE r[k].gen <= h
    <2>1. CASE k \in 1..Len(q)
      <3>1. r[k].gen \in Nat /\ r[k].gen <= g
        BY <1>1, <1>2, <2>1, Zenon DEF Silenced
      <3> QED
        BY <3>1, SMTT(30)
    <2>2. CASE k \notin 1..Len(q)
      BY <1>3, <2>2, Zenon
    <2> QED
      BY <2>1, <2>2, Zenon
  <1>5. ASSUME NEW i \in 1..Len(w), NEW k \in 1..Len(r)
        PROVE  Follows(w[i], r[k]) \/ r[k].gen < h
    <2>1. CASE k \in 1..Len(q)
      BY <1>1, <1>2, <2>1, SMTT(30) DEF Silenced
    <2>2. CASE k \notin 1..Len(q)
      <3>1. r[k].id > w[i].id
        BY <1>3, <2>2, Zenon DEF Numbered
      <3> QED
        BY <3>1, Zenon DEF Follows
    <2> QED
      BY <2>1, <2>2, Zenon
  <1>6. ASSUME NEW i \in 1..Len(r), NEW k \in 1..Len(r)
        PROVE  Follows(r[i], r[k]) \/ r[k].gen < h
    <2>1. CASE i \in 1..Len(q) /\ k \in 1..Len(q)
      BY <1>1, <1>2, <2>1, SMTT(30) DEF Silenced
    <2>2. CASE i \in 1..Len(q) /\ k \notin 1..Len(q)
      <3>1. r[i].id \in 1..n
        BY <1>1, <2>2, Zenon DEF Numbered
      <3>2. \A x \in 1..n : r[k].id > x
        BY <1>3, <2>2, Zenon
      <3>3. r[k].id > r[i].id
        BY <3>1, <3>2, Zenon
      <3> QED
        BY <3>3, Zenon DEF Follows
    <2>3. CASE i \notin 1..Len(q) /\ k \in 1..Len(q)
      <3>1. CASE g < h
        <4>1. r[k].gen <= g /\ r[k].gen \in Nat
          BY <1>1, <1>2, <2>3, Zenon DEF Silenced
        <4> QED
          BY <3>1, <4>1, SMTT(30)
      <3>2. CASE r[i].kind # "stop"
        BY <3>2, Zenon DEF Follows
      <3> QED
        BY <1>1, <2>3, <3>1, <3>2, Zenon
    <2>4. CASE i \notin 1..Len(q) /\ k \notin 1..Len(q)
      BY <1>1, <2>4, Zenon
    <2> QED
      BY <2>1, <2>2, <2>3, <2>4, Zenon
  <1>7. ASSUME NEW i \in 1..Len(w), NEW k \in 1..Len(r), i > r[k].after
        PROVE  Follows(r[k], w[i])
    <2>1. CASE k \in 1..Len(q)
      BY <1>1, <1>7, <2>1, Zenon DEF Silenced
    <2>2. CASE k \notin 1..Len(q)
      BY <1>7, <1>3, <2>2, SMTT(30)
    <2> QED
      BY <2>1, <2>2, Zenon
  <1>8. Silenced(r, w, h)
    BY <1>4, <1>5, <1>6, <1>7, Zenon DEF Silenced
  <1> QED
    BY <1>8, Zenon DEF r

\* Frames that report no event of a job.
LEMMA AddedQuiet ==
  ASSUME NEW q \in Seq(Items), NEW w \in Seq(Items), NEW b \in Seq(Items),
         NEW updates, NEW ways, NEW c \in Nat, Reported(q, w, updates, ways, c),
         \A k \in 1..Len(b) : /\ b[k].kind \notin News \cup {"progress"}
                              /\ b[k].event <= c
  PROVE  Reported(q \o b, w, updates, ways, c)
  <1> DEFINE r == q \o b
  <1>1. /\ r \in Seq(Items) /\ Len(r) = Len(q) + Len(b)
        /\ \A k \in 1..Len(q) : r[k] = q[k]
        /\ \A k \in 1..Len(r) : k \notin 1..Len(q) =>
             k - Len(q) \in 1..Len(b) /\ r[k] = b[k - Len(q)]
    OBVIOUS
  <1> HIDE DEF r
  <1>2. \A k \in 1..Len(r) : k \notin 1..Len(q) =>
          r[k].kind \notin News /\ r[k].kind # "progress" /\ r[k].event <= c
    BY <1>1, Zenon
  <1>3. ASSUME NEW a, Fresh(a, q, updates, ways) PROVE Fresh(a, r, updates, ways)
    BY <1>1, <1>2, <1>3, Zenon DEF Fresh
  <1>4. ASSUME NEW k \in 1..Len(r) PROVE Fresh(r[k], r, updates, ways)
    <2>1. CASE k \in 1..Len(q)
      BY <1>1, <1>3, <2>1, Zenon DEF Reported
    <2>2. CASE k \notin 1..Len(q)
      BY <1>2, <2>2, Zenon DEF Fresh, Stale
    <2> QED
      BY <2>1, <2>2, Zenon
  <1>5. \A k \in 1..Len(r) : r[k].event <= c
    BY <1>1, <1>2, Zenon DEF Reported
  <1>6. Reported(r, w, updates, ways, c)
    BY <1>3, <1>4, <1>5, Zenon DEF Reported
  <1> QED
    BY <1>6, Zenon DEF r

\* Progress that is handed over is new, or marked.
LEMMA AddedProgress ==
  ASSUME NEW q \in Seq(Items), NEW w \in Seq(Items), NEW x \in Items,
         NEW updates, NEW ways, NEW c \in Nat, Reported(q, w, updates, ways, c),
         x.kind = "progress", x.event <= c,
         \A k \in 1..Len(w) : Stale(w[k], x) => x.overtaken,
         \A k \in 1..Len(q) : Stale(q[k], x) => x.overtaken
  PROVE  Reported(q \o <<x>>, w, updates, ways, c)
  <1> DEFINE r == q \o <<x>>
  <1>1. /\ r \in Seq(Items) /\ Len(r) = Len(q) + 1
        /\ \A k \in 1..Len(q) : r[k] = q[k]
        /\ \A k \in 1..Len(r) : k \notin 1..Len(q) => r[k] = x
    BY SMTT(30)
  <1> HIDE DEF r
  <1>2. x.kind \notin News
    BY Zenon DEF News
  <1>3. ASSUME NEW a, Fresh(a, q, updates, ways), Stale(a, x) => x.overtaken
        PROVE  Fresh(a, r, updates, ways)
    <2>1. ASSUME NEW k \in 1..Len(r), r[k].kind = "progress", Stale(a, r[k])
          PROVE  ~r[k].valid \/ r[k].overtaken
      <3>1. CASE k \in 1..Len(q)
        BY <1>1, <1>3, <2>1, <3>1, Zenon DEF Fresh
      <3>2. CASE k \notin 1..Len(q)
        BY <1>1, <1>3, <2>1, <3>2, Zenon
      <3> QED
        BY <3>1, <3>2, Zenon
    <2> QED
      BY <1>3, <2>1, Zenon DEF Fresh
  <1>4. Fresh(x, r, updates, ways)
    BY <1>2, Zenon DEF Fresh, Stale
  <1>5. ASSUME NEW k \in 1..Len(r) PROVE Fresh(r[k], r, updates, ways)
    <2>1. CASE k \in 1..Len(q)
      BY <1>1, <1>3, <2>1, Zenon DEF Reported
    <2>2. CASE k \notin 1..Len(q)
      BY <1>1, <1>4, <2>2, Zenon
    <2> QED
      BY <2>1, <2>2, Zenon
  <1>6. ASSUME NEW k \in 1..Len(w) PROVE Fresh(w[k], r, updates, ways)
    BY <1>3, Zenon DEF Reported
  <1>7. ASSUME NEW k \in 1..Len(r) PROVE r[k].event <= c
    BY <1>1, Zenon DEF Reported
  <1>8. Reported(r, w, updates, ways, c)
    BY <1>5, <1>6, <1>7, Zenon DEF Reported
  <1> QED
    BY <1>8, Zenon DEF r

\* cancelPendingProgress changes valid only.
LEMMA CancelledKeeps ==
  ASSUME NEW q \in Seq(Items), NEW w \in Seq(Items), NEW n \in Nat, NEW g \in Nat
  PROVE  /\ Cancelled(q) \in Seq(Items) /\ Len(Cancelled(q)) = Len(q)
         /\ \A k \in 1..Len(q) :
              /\ Cancelled(q)[k].kind = q[k].kind
              /\ Cancelled(q)[k].job = q[k].job
              /\ Cancelled(q)[k].event = q[k].event
              /\ q[k].kind = "progress" => ~Cancelled(q)[k].valid
         /\ Numbered(q, w, n) => Numbered(Cancelled(q), w, n)
         /\ Ordered(q, w) => Ordered(Cancelled(q), w)
         /\ Silenced(q, w, g) => Silenced(Cancelled(q), w, g)
  <1> DEFINE r == Cancelled(q)
             off(x) == [x EXCEPT !.valid = x.valid /\ x.kind # "progress"]
  <1>1. r = [i \in 1..Len(q) |-> off(q[i])]
    BY DEF Cancelled
  <1>2. ASSUME NEW x \in Items
        PROVE  /\ off(x) \in Items
               /\ off(x).kind = x.kind /\ off(x).job = x.job
               /\ off(x).event = x.event /\ off(x).id = x.id
               /\ off(x).gen = x.gen /\ off(x).urgent = x.urgent
               /\ off(x).after = x.after
               /\ x.kind = "progress" => ~off(x).valid
    BY Zenon DEF Items
  <1> HIDE DEF r, off
  <1>3. \A k \in 1..Len(q) :
          /\ r[k] \in Items
          /\ r[k].kind = q[k].kind /\ r[k].job = q[k].job
          /\ r[k].event = q[k].event /\ r[k].id = q[k].id /\ r[k].gen = q[k].gen
          /\ r[k].urgent = q[k].urgent /\ r[k].after = q[k].after
          /\ q[k].kind = "progress" => ~r[k].valid
    BY <1>1, <1>2
  <1>4. r \in Seq(Items) /\ Len(r) = Len(q)
    BY <1>1, <1>3
  <1>5. Numbered(q, w, n) => Numbered(r, w, n)
    BY <1>3, <1>4, Zenon DEF Numbered
  <1>6. Ordered(q, w) => Ordered(r, w)
    BY <1>3, <1>4, SMTT(30) DEF Ordered
  <1>7. Silenced(q, w, g) => Silenced(r, w, g)
    BY <1>3, <1>4, ZenonT(30) DEF Silenced, Follows
  <1> QED
    BY <1>3, <1>4, <1>5, <1>6, <1>7, Zenon DEF r

\* kept is some of the updates, one of a job.
Chosen(kept, updates) ==
  /\ \A k \in 1..Len(kept) : \E m \in 1..Len(updates) : kept[k] = updates[m]
  /\ \A i, k \in 1..Len(kept) : kept[i].job = kept[k].job => i = k

\* marked is the batches on their way, with more of them overtaken.
Marked(marked, ways) ==
  \A f \in marked : \E e \in ways :
    /\ Len(f.rest) = Len(e.rest)
    /\ \A k \in 1..Len(e.rest) :
         /\ f.rest[k].job = e.rest[k].job
         /\ f.rest[k].event = e.rest[k].event
         /\ e.rest[k].overtaken => f.rest[k].overtaken

\* What an approval or an outcome leaves is reported as before.
LEMMA ClearedReported ==
  ASSUME NEW q \in Seq(Items), NEW w \in Seq(Items), NEW c \in Nat, NEW d \in Nat,
         NEW updates \in Seq(Updates), NEW kept, NEW ways, NEW marked, c <= d,
         Reported(q, w, updates, ways, c),
         \A f \in ways : f.rest \in Seq(Waits),
         Chosen(kept, updates), Marked(marked, ways)
  PROVE  Reported(Cancelled(q), w, kept, marked, d)
  <1> DEFINE r == Cancelled(q)
  <1>1. /\ r \in Seq(Items) /\ Len(r) = Len(q)
        /\ \A k \in 1..Len(q) :
             /\ r[k].kind = q[k].kind /\ r[k].job = q[k].job
             /\ r[k].event = q[k].event
             /\ q[k].kind = "progress" => ~r[k].valid
    BY CancelledKeeps, Zenon
  <1>2. /\ \A k \in 1..Len(q) : q[k].event \in Nat
        /\ \A k \in 1..Len(w) : w[k].event \in Nat
    BY ItemFields, Zenon
  <1> HIDE DEF r
  <1>3. ASSUME NEW a, Fresh(a, q, updates, ways) PROVE Fresh(a, r, kept, marked)
    <2>1. \A k \in 1..Len(r) : r[k].kind = "progress" => ~r[k].valid
      BY <1>1, Zenon
    <2>2. \A k \in 1..Len(kept) : ~Stale(a, kept[k])
      BY <1>3, Zenon DEF Fresh, Chosen
    <2>3. ASSUME NEW f \in marked, NEW k \in 1..Len(f.rest), Stale(a, f.rest[k])
          PROVE  f.rest[k].overtaken
      <3>1. PICK e \in ways :
              /\ Len(f.rest) = Len(e.rest)
              /\ \A i \in 1..Len(e.rest) :
                   /\ f.rest[i].job = e.rest[i].job
                   /\ f.rest[i].event = e.rest[i].event
                   /\ e.rest[i].overtaken => f.rest[i].overtaken
        BY Zenon DEF Marked
      <3>2. Stale(a, e.rest[k])
        BY <2>3, <3>1, Zenon DEF Stale
      <3> QED
        BY <1>3, <3>1, <3>2, Zenon DEF Fresh
    <2> QED
      BY <2>1, <2>2, <2>3, Zenon DEF Fresh
  <1>4. ASSUME NEW k \in 1..Len(r) PROVE r[k].event <= d /\ Fresh(r[k], r, kept, marked)
    <2>1. Fresh(q[k], q, updates, ways) /\ q[k].event <= c
      BY <1>1, Zenon DEF Reported
    <2>2. Fresh(q[k], r, kept, marked)
      BY <1>3, <2>1, Zenon
    <2>3. Fresh(r[k], r, kept, marked)
      BY <1>1, <2>2, Zenon DEF Fresh, Stale
    <2> QED
      BY <1>1, <1>2, <2>1, <2>3, SMTT(30)
  <1>5. ASSUME NEW k \in 1..Len(w) PROVE w[k].event <= d /\ Fresh(w[k], r, kept, marked)
    BY <1>2, <1>3, SMTT(30) DEF Reported
  <1>6. ASSUME NEW k \in 1..Len(kept) PROVE kept[k].event <= d
    <2>1. PICK m \in 1..Len(updates) : kept[k] = updates[m]
      BY Zenon DEF Chosen
    <2>2. updates[m].event <= c /\ updates[m].event \in Nat
      BY UpdateFields, Zenon DEF Reported
    <2> QED
      BY <2>1, <2>2, SMTT(30)
  <1>7. ASSUME NEW f \in marked, NEW k \in 1..Len(f.rest)
        PROVE  f.rest[k].event <= d
    <2>1. PICK e \in ways :
            /\ Len(f.rest) = Len(e.rest)
            /\ \A i \in 1..Len(e.rest) : f.rest[i].event = e.rest[i].event
      BY Zenon DEF Marked
    <2>2. e.rest[k].event <= c /\ e.rest[k].event \in Nat
      BY <2>1, WaitFields, Zenon DEF Reported
    <2> QED
      BY <2>1, <2>2, SMTT(30)
  <1>8. Reported(r, w, kept, marked, d)
    <2>1. \A i, k \in 1..Len(kept) : kept[i].job = kept[k].job => i = k
      BY Zenon DEF Chosen
    <2> QED
      BY <1>4, <1>5, <1>6, <1>7, <2>1, Zenon DEF Reported
  <1> QED
    BY <1>8, Zenon DEF r

\* News of a job, or of all of them, after what it makes stale is cleared.
LEMMA AddedNews ==
  ASSUME NEW q \in Seq(Items), NEW w \in Seq(Items), NEW x \in Items,
         NEW updates, NEW ways, NEW c \in Nat, Reported(q, w, updates, ways, c),
         x.kind \in News, x.event <= c,
         \A k \in 1..Len(q) : q[k].kind = "progress" => ~q[k].valid,
         \A k \in 1..Len(updates) : x.job \notin {None, updates[k].job},
         \A f \in ways : \A k \in 1..Len(f.rest) :
           x.job \in {None, f.rest[k].job} => f.rest[k].overtaken
  PROVE  Reported(q \o <<x>>, w, updates, ways, c)
  <1> DEFINE r == q \o <<x>>
  <1>1. /\ r \in Seq(Items) /\ Len(r) = Len(q) + 1
        /\ \A k \in 1..Len(q) : r[k] = q[k]
        /\ \A k \in 1..Len(r) : k \notin 1..Len(q) => r[k] = x
    OBVIOUS
  <1> HIDE DEF r
  <1>2. x.kind # "progress"
    BY Zenon DEF News
  <1>3. \A k \in 1..Len(r) : r[k].kind = "progress" => ~r[k].valid
    BY <1>1, <1>2, Zenon
  <1>4. ASSUME NEW a, Fresh(a, q, updates, ways) PROVE Fresh(a, r, updates, ways)
    BY <1>3, <1>4, Zenon DEF Fresh
  <1>5. Fresh(x, r, updates, ways)
    BY <1>3, Zenon DEF Fresh, Stale
  <1>6. ASSUME NEW k \in 1..Len(r) PROVE Fresh(r[k], r, updates, ways)
    <2>1. CASE k \in 1..Len(q)
      BY <1>1, <1>4, <2>1, Zenon DEF Reported
    <2>2. CASE k \notin 1..Len(q)
      BY <1>1, <1>5, <2>2, Zenon
    <2> QED
      BY <2>1, <2>2, Zenon
  <1>7. ASSUME NEW k \in 1..Len(w) PROVE Fresh(w[k], r, updates, ways)
    BY <1>4, Zenon DEF Reported
  <1>8. ASSUME NEW k \in 1..Len(r) PROVE r[k].event <= c
    BY <1>1, Zenon DEF Reported
  <1>9. Reported(r, w, updates, ways, c)
    BY <1>6, <1>7, <1>8, Zenon DEF Reported
  <1> QED
    BY <1>9, Zenon DEF r

-----------------------------------------------------------------------------
(* The writer *)

LEMMA InitInv == Init => Inv
  <1> SUFFICES ASSUME Init PROVE Inv
    BY Zenon
  <1>1. TypeOK
    BY DEF Init, TypeOK
  <1>2. Len(queue) = 0 /\ Len(wire) = 0 /\ Len(pending) = 0 /\ flights = {}
    BY Zenon DEF Init
  <1>3. Numbered(queue, wire, requested)
    BY <1>2, SMTT(30) DEF Numbered
  <1>4. Ordered(queue, wire)
    BY <1>2 DEF Ordered
  <1>5. Silenced(queue, wire, generation)
    BY <1>2, SMTT(30) DEF Silenced
  <1>6. Reported(queue, wire, pending, flights, calls)
    BY <1>2, SMTT(30) DEF Reported
  <1> QED
    BY <1>1, <1>3, <1>4, <1>5, <1>6, Zenon DEF Inv

\* A new frame, and the number it gets.
LEMMA NewItem ==
  ASSUME Inv, NEW kind \in Kinds, NEW job \in Jobs \cup {None}, NEW event \in Nat,
         NEW urgent \in BOOLEAN
  PROVE  /\ Item(kind, job, event, urgent) \in Items
         /\ Item(kind, job, event, urgent).kind = kind
         /\ Item(kind, job, event, urgent).job = job
         /\ Item(kind, job, event, urgent).event = event
         /\ Item(kind, job, event, urgent).gen = generation
         /\ Item(kind, job, event, urgent).after = Len(wire)
  <1>1. generation \in Nat /\ Len(wire) \in Nat
    BY DEF Inv, TypeOK
  <1> QED
    BY <1>1, Zenon DEF Item, Items

LEMMA Renumbered ==
  ASSUME NEW items \in Seq(Items), NEW n \in Nat
  PROVE  LET b == [i \in DOMAIN items |-> [items[i] EXCEPT !.id = n + i]]
         IN /\ b \in Seq(Items) /\ Len(b) = Len(items)
            /\ \A k \in 1..Len(items) :
                 /\ b[k].id = n + k /\ b[k].kind = items[k].kind
                 /\ b[k].job = items[k].job /\ b[k].event = items[k].event
                 /\ b[k].gen = items[k].gen /\ b[k].after = items[k].after
                 /\ b[k].overtaken = items[k].overtaken
  <1> DEFINE b == [i \in DOMAIN items |-> [items[i] EXCEPT !.id = n + i]]
  <1>1. ASSUME NEW x \in Items, NEW m \in Nat, NEW y, y = [x EXCEPT !.id = m]
        PROVE  /\ y \in Items /\ y.id = m /\ y.kind = x.kind /\ y.job = x.job
               /\ y.event = x.event /\ y.gen = x.gen /\ y.after = x.after
               /\ y.overtaken = x.overtaken
    BY <1>1, Zenon DEF Items
  <1>2. b = [i \in 1..Len(items) |-> b[i]]
    OBVIOUS
  <1>3. ASSUME NEW k \in 1..Len(items)
        PROVE  /\ b[k] \in Items /\ b[k].id = n + k /\ b[k].kind = items[k].kind
               /\ b[k].job = items[k].job /\ b[k].event = items[k].event
               /\ b[k].gen = items[k].gen /\ b[k].after = items[k].after
               /\ b[k].overtaken = items[k].overtaken
    <2>1. items[k] \in Items /\ n + k \in Nat /\ k \in DOMAIN items
      OBVIOUS
    <2>2. b[k] = [items[k] EXCEPT !.id = n + k]
      BY <2>1, Zenon
    <2> HIDE DEF b
    <2> QED
      BY <1>1, <2>1, <2>2, SMTT(30)
  <1> HIDE DEF b
  <1>4. b \in Seq(Items) /\ Len(b) = Len(items)
    BY <1>2, <1>3, SMTT(30)
  <1>5. /\ b \in Seq(Items) /\ Len(b) = Len(items)
        /\ \A k \in 1..Len(items) :
             /\ b[k].id = n + k /\ b[k].kind = items[k].kind
             /\ b[k].job = items[k].job /\ b[k].event = items[k].event
             /\ b[k].gen = items[k].gen /\ b[k].after = items[k].after
             /\ b[k].overtaken = items[k].overtaken
    BY <1>3, <1>4, Zenon
  <1> QED
    BY <1>5, Zenon DEF b

\* enqueue, of frames that are requested now: what it does to the order and to
\* the silence, and whether there is a batch at the end of the queue.
LEMMA EnqueuedKeeps ==
  ASSUME Inv, NEW q \in Seq(Items), NEW items \in Seq(Items), NEW h \in Nat,
         generation <= h,
         Numbered(q, wire, requested), Ordered(q, wire),
         Silenced(q, wire, generation),
         \A k \in 1..Len(items) : /\ items[k].after = Len(wire)
                                  /\ items[k].gen <= h,
         \A k \in 1..Len(items) :
           items[k].kind = "stop" => generation < h /\ Len(items) = 1,
         Enqueued(q, items)
  PROVE  /\ queue' \in Seq(Items) /\ requested' \in Nat
         /\ Numbered(queue', wire, requested') /\ Ordered(queue', wire)
         /\ Silenced(queue', wire, h)
         /\ queue' = q
            \/ \E b \in Seq(Items) :
                 /\ queue' = q \o b /\ Len(b) = Len(items)
                 /\ \A k \in 1..Len(b) :
                      /\ b[k].kind = items[k].kind /\ b[k].job = items[k].job
                      /\ b[k].event = items[k].event
                      /\ b[k].overtaken = items[k].overtaken
  <1>1. requested \in Nat /\ generation \in Nat /\ wire \in Seq(Items)
    BY Zenon DEF Inv, TypeOK
  <1>2. CASE queue' = q /\ UNCHANGED <<scheduled, requested>>
    <2>1. \A k \in 1..Len(q) : q[k].gen \in Nat
      BY ItemFields, Zenon
    <2>2. Silenced(q, wire, h)
      BY <1>1, <2>1, SMTT(30) DEF Silenced
    <2> QED
      BY <1>1, <1>2, <2>2, Zenon
  <1>3. CASE ~(Stopped \/ items = <<>>)
    <2> DEFINE b == [i \in DOMAIN items |-> [items[i] EXCEPT !.id = requested + i]]
    <2>1. queue' = q \o b /\ requested' = requested + Len(items)
      BY <1>3, Zenon DEF Enqueued
    <2>2. /\ b \in Seq(Items) /\ Len(b) = Len(items)
          /\ \A k \in 1..Len(items) :
               /\ b[k].id = requested + k /\ b[k].kind = items[k].kind
               /\ b[k].job = items[k].job /\ b[k].event = items[k].event
               /\ b[k].gen = items[k].gen /\ b[k].after = items[k].after
               /\ b[k].overtaken = items[k].overtaken
      BY <1>1, Renumbered, ZenonT(30)
    <2> HIDE DEF b
    <2>3. \A k \in 1..Len(b) : b[k].id = requested + k /\ b[k].after = Len(wire)
      BY <2>2, Zenon
    <2>4. Numbered(queue', wire, requested') /\ Ordered(queue', wire)
      BY <1>1, <2>1, <2>2, <2>3, AddedOrdered, SMTT(30)
    <2>5. \A k \in 1..Len(b) : b[k].id = requested + k /\ b[k].after = Len(wire)
                               /\ b[k].gen <= h
      BY <2>2, Zenon
    <2>6. ASSUME NEW i \in 1..Len(b), NEW k \in 1..Len(b)
          PROVE  Follows(b[i], b[k])
      <3>1. CASE b[i].kind # "stop"
        BY <3>1, Zenon DEF Follows
      <3>2. CASE b[i].kind = "stop"
        <4>1. Len(b) = 1
          BY <2>2, <3>2, Zenon
        <4>2. i = k
          BY <4>1
        <4> QED
          BY <3>2, <4>2, Zenon DEF Follows, Speech
      <3> QED
        BY <3>1, <3>2, Zenon
    <2>7. generation < h \/ \A k \in 1..Len(b) : b[k].kind # "stop"
      BY <2>2, Zenon
    <2>8. Silenced(queue', wire, h)
      BY <1>1, <2>1, <2>2, <2>5, <2>6, <2>7, AddedSilenced, Zenon
    <2>9. queue' \in Seq(Items) /\ requested' \in Nat
      BY <1>1, <2>1, <2>2, SMTT(30)
    <2>10. \A k \in 1..Len(b) :
             /\ b[k].kind = items[k].kind /\ b[k].job = items[k].job
             /\ b[k].event = items[k].event
             /\ b[k].overtaken = items[k].overtaken
      BY <2>2, Zenon
    <2> QED
      BY <2>1, <2>2, <2>4, <2>8, <2>9, <2>10, Zenon
  <1> QED
    BY <1>2, <1>3, Zenon DEF Enqueued

\* More events may come.
LEMMA ReportedLater ==
  ASSUME NEW q \in Seq(Items), NEW w \in Seq(Items), NEW updates \in Seq(Updates),
         NEW ways, \A f \in ways : f.rest \in Seq(Waits),
         NEW c \in Nat, Reported(q, w, updates, ways, c)
  PROVE  Reported(q, w, updates, ways, c + 1)
  <1>1. /\ \A k \in 1..Len(q) : q[k].event \in Nat
        /\ \A k \in 1..Len(w) : w[k].event \in Nat
    BY ItemFields, Zenon
  <1>2. \A k \in 1..Len(updates) : updates[k].event \in Nat
    BY UpdateFields, Zenon
  <1>3. \A f \in ways : \A k \in 1..Len(f.rest) : f.rest[k].event \in Nat
    BY WaitFields, Zenon
  <1>4. /\ \A k \in 1..Len(q) : q[k].event <= c + 1
        /\ \A k \in 1..Len(w) : w[k].event <= c + 1
        /\ \A k \in 1..Len(updates) : updates[k].event <= c + 1
        /\ \A f \in ways : \A k \in 1..Len(f.rest) : f.rest[k].event <= c + 1
    <2>1. \A e \in Nat : e <= c => e <= c + 1
      BY SMTT(30)
    <2> QED
      BY <1>1, <1>2, <1>3, <2>1, Zenon DEF Reported
  <1> QED
    BY <1>4, Zenon DEF Reported

\* A call of the writer that reports no event.
LEMMA CallKeeps ==
  ASSUME Inv, NEW items \in Seq(Items), generation' \in Nat, generation <= generation',
         \A k \in 1..Len(items) :
           /\ items[k].after = Len(wire) /\ items[k].gen = generation
           /\ items[k].event = 0 /\ items[k].kind \notin News \cup {"progress"}
           /\ items[k].kind = "stop" => generation < generation' /\ Len(items) = 1,
         Call(items)
  PROVE  Inv'
  <1>1. /\ queue \in Seq(Items) /\ wire \in Seq(Items) /\ generation \in Nat
        /\ calls \in Nat /\ calls' = calls + 1
        /\ Numbered(queue, wire, requested) /\ Ordered(queue, wire)
        /\ Silenced(queue, wire, generation)
        /\ Reported(queue, wire, pending, flights, calls)
    BY Zenon DEF Inv, TypeOK, Call, Calls
  <1>2. Enqueued(queue, items) /\ UNCHANGED <<wire, subscribed, pending, flights>>
    BY Zenon DEF Call, scheduler
  <1>3. /\ queue' \in Seq(Items) /\ requested' \in Nat
        /\ Numbered(queue', wire, requested') /\ Ordered(queue', wire)
        /\ Silenced(queue', wire, generation')
        /\ queue' = queue
           \/ \E b \in Seq(Items) :
                /\ queue' = queue \o b /\ Len(b) = Len(items)
                /\ \A k \in 1..Len(b) :
                     /\ b[k].kind = items[k].kind /\ b[k].job = items[k].job
                     /\ b[k].event = items[k].event
                     /\ b[k].overtaken = items[k].overtaken
    <2>1. \A k \in 1..Len(items) :
            /\ items[k].after = Len(wire) /\ items[k].gen <= generation'
            /\ items[k].kind = "stop" => generation < generation' /\ Len(items) = 1
      BY <1>1, Zenon
    <2> QED
      BY <1>1, <1>2, <2>1, EnqueuedKeeps, ZenonT(30)
  <1>4. Reported(queue', wire, pending, flights, calls)
    <2>1. CASE queue' = queue
      BY <1>1, <2>1, Zenon
    <2>2. ASSUME NEW b \in Seq(Items), queue' = queue \o b, Len(b) = Len(items),
                 \A k \in 1..Len(b) :
                   b[k].kind = items[k].kind /\ b[k].event = items[k].event
          PROVE  Reported(queue', wire, pending, flights, calls)
      <3>1. ASSUME NEW k \in 1..Len(b)
            PROVE  b[k].kind \notin News \cup {"progress"} /\ b[k].event <= calls
        <4>1. k \in 1..Len(items)
          BY <2>2, Zenon
        <4>2. b[k].kind = items[k].kind /\ b[k].event = 0
          BY <2>2, <4>1, Zenon
        <4>3. items[k].kind \notin News \cup {"progress"} /\ 0 <= calls
          BY <1>1, <4>1, SMTT(30)
        <4> QED
          BY <4>2, <4>3, Zenon
      <3> QED
        BY <1>1, <2>2, <3>1, AddedQuiet, Zenon
    <2> QED
      BY <1>3, <2>1, <2>2, Zenon
  <1>5. Reported(queue', wire, pending, flights, calls')
    BY <1>1, <1>3, <1>4, ReportedLater, Zenon DEF Inv, TypeOK
  <1>6. TypeOK'
    BY <1>1, <1>2, <1>3, SMTT(30) DEF Inv, TypeOK
  <1> QED
    BY <1>2, <1>3, <1>5, <1>6, Zenon DEF Inv

LEMMA SpeakKeeps ==
  ASSUME Inv, NEW s \in Speeches, Speak(s)
  PROVE  Inv'
  <1> DEFINE said == [i \in 1..s.fragments |-> Item("speak", None, 0, s.urgent)]
             lit == IF s.highlight THEN <<Item("highlight", None, 0, s.urgent)>>
                                   ELSE <<>>
             items == said \o lit
  <1>1. s.fragments \in Nat /\ s.urgent \in BOOLEAN
    BY OutputAssumption, Zenon
  <1>2. /\ "speak" \in Kinds /\ "highlight" \in Kinds /\ 0 \in Nat
        /\ None \in Jobs \cup {None}
    BY Zenon DEF Kinds
  <1> DEFINE x == Item("speak", None, 0, s.urgent)
             y == Item("highlight", None, 0, s.urgent)
  <1>3. /\ x \in Items /\ x.kind = "speak" /\ x.event = 0
        /\ x.gen = generation /\ x.after = Len(wire)
    BY <1>1, <1>2, NewItem, SMTT(30)
  <1>4. /\ y \in Items /\ y.kind = "highlight" /\ y.event = 0
        /\ y.gen = generation /\ y.after = Len(wire)
    BY <1>1, <1>2, NewItem
  <1>5. /\ Call(items) /\ generation' = generation
        /\ said = [i \in 1..s.fragments |-> x]
        /\ lit = IF s.highlight THEN <<y>> ELSE <<>>
    BY Zenon DEF Speak
  <1> HIDE DEF x, y, said, lit
  <1>6. /\ said \in Seq(Items) /\ Len(said) = s.fragments
        /\ \A k \in 1..Len(said) : said[k] = x
    <2>1. said = [i \in 1..s.fragments |-> x]
      BY <1>5, Zenon
    <2> DEFINE n == s.fragments
    <2>2. n \in Nat /\ said = [i \in 1..n |-> x]
      BY <1>1, <2>1, Zenon
    <2> HIDE DEF n
    <2>3. said \in Seq(Items) /\ Len(said) = n /\ \A k \in 1..n : said[k] = x
      BY <1>3, <2>2
    <2> QED
      BY <2>3, Zenon DEF n
  <1>7. lit \in Seq(Items) /\ \A k \in 1..Len(lit) : lit[k] = y
    BY <1>4, <1>5, SMTT(30)
  <1>8. items \in Seq(Items) /\ \A k \in 1..Len(items) : items[k] \in {x, y}
    BY <1>6, <1>7, SMTT(30)
  <1> HIDE DEF items
  <1>9. \A k \in 1..Len(items) :
          /\ items[k].after = Len(wire) /\ items[k].gen = generation
          /\ items[k].event = 0 /\ items[k].kind \notin News \cup {"progress"}
          /\ items[k].kind # "stop"
    BY <1>3, <1>4, <1>8, Zenon DEF News
  <1>10. generation \in Nat
    BY Zenon DEF Inv, TypeOK
  <1> QED
    BY <1>5, <1>8, <1>9, <1>10, CallKeeps, SMTT(30)

LEMMA PlainKeeps ==
  ASSUME Inv, Plain
  PROVE  Inv'
  <1> DEFINE x == Item("plain", None, 0, FALSE)
             items == <<x>>
  <1>1. generation \in Nat /\ Len(wire) \in Nat
    BY SMTT(30) DEF Inv, TypeOK
  <1>2. /\ x \in Items /\ x.kind = "plain" /\ x.event = 0
        /\ x.gen = generation /\ x.after = Len(wire)
    BY <1>1, Zenon DEF Item, Items, Kinds
  <1>3. Call(items) /\ generation' = generation /\ generation \in Nat
    BY Zenon DEF Plain, Inv, TypeOK
  <1> HIDE DEF x
  <1>4. items \in Seq(Items) /\ \A k \in 1..Len(items) : items[k] = x
    BY <1>2
  <1> HIDE DEF items
  <1>5. \A k \in 1..Len(items) :
          /\ items[k].after = Len(wire) /\ items[k].gen = generation
          /\ items[k].event = 0 /\ items[k].kind \notin News \cup {"progress"}
          /\ items[k].kind # "stop"
    BY <1>2, <1>4, Zenon DEF News
  <1> QED
    BY <1>3, <1>4, <1>5, CallKeeps, SMTT(30)

LEMMA StopOutputKeeps ==
  ASSUME Inv, StopOutput
  PROVE  Inv'
  <1> DEFINE x == Item("stop", None, 0, FALSE)
             items == <<x>>
  <1>1. generation \in Nat /\ Len(wire) \in Nat
    BY DEF Inv, TypeOK
  <1>2. /\ x \in Items /\ x.kind = "stop" /\ x.event = 0
        /\ x.gen = generation /\ x.after = Len(wire)
    BY <1>1, Zenon DEF Item, Items, Kinds
  <1>3. Call(items) /\ generation' = generation + 1 /\ generation \in Nat
    BY Zenon DEF StopOutput, NextGeneration, Inv, TypeOK
  <1> HIDE DEF x
  <1>4. /\ items \in Seq(Items) /\ Len(items) = 1
        /\ \A k \in 1..Len(items) : items[k] = x
    BY <1>2
  <1> HIDE DEF items
  <1>5. \A k \in 1..Len(items) :
          /\ items[k].after = Len(wire) /\ items[k].gen = generation
          /\ items[k].event = 0 /\ items[k].kind \notin News \cup {"progress"}
          /\ items[k].kind = "stop" => generation < generation' /\ Len(items) = 1
    BY <1>2, <1>3, <1>4, SMTT(30) DEF News
  <1> QED
    BY <1>3, <1>4, <1>5, CallKeeps, SMTT(30)

\* The queue is dropped.
LEMMA EmptyKeeps ==
  ASSUME NEW q \in Seq(Items), NEW w \in Seq(Items), NEW n \in Nat, NEW g \in Nat,
         NEW h \in Nat, NEW updates, NEW ways, NEW c \in Nat
  PROVE  /\ Numbered(q, w, n) => Numbered(<<>>, w, n)
         /\ Ordered(q, w) => Ordered(<<>>, w)
         /\ Silenced(q, w, g) => Silenced(<<>>, w, h)
         /\ Reported(q, w, updates, ways, c) => Reported(<<>>, w, updates, ways, c)
  <1> DEFINE e == <<>>
  <1>1. Len(e) = 0
    BY Zenon
  <1> HIDE DEF e
  <1>2. Numbered(q, w, n) => Numbered(e, w, n)
    BY <1>1, SMTT(30) DEF Numbered
  <1>3. Ordered(q, w) => Ordered(e, w)
    BY <1>1, SMTT(30) DEF Ordered
  <1>4. Silenced(q, w, g) => Silenced(e, w, h)
    BY <1>1, SMTT(30) DEF Silenced
  <1>5. ASSUME NEW a, Fresh(a, q, updates, ways) PROVE Fresh(a, e, updates, ways)
    BY <1>1, <1>5, SMTT(30) DEF Fresh
  <1>6. Reported(q, w, updates, ways, c) => Reported(e, w, updates, ways, c)
    BY <1>1, <1>5, SMTT(30) DEF Reported
  <1> QED
    BY <1>2, <1>3, <1>4, <1>6, Zenon DEF e

LEMMA CloseKeeps ==
  ASSUME Inv, Close
  PROVE  Inv'
  <1>1. /\ queue' = <<>> /\ generation' = generation + 1
        /\ UNCHANGED <<wire, requested, subscribed, pending, flights, calls>>
    BY Zenon DEF Close, NextGeneration, scheduler
  <1>2. TypeOK'
    BY <1>1, SMTT(30) DEF Inv, TypeOK
  <1> QED
    BY <1>1, <1>2, EmptyKeeps, Zenon DEF Inv, TypeOK

\* A turn of a drain.
LEMMA LoopKeeps ==
  ASSUME Inv, NEW running, Loop(running),
         UNCHANGED <<generation, requested, subscribed, pending, flights, calls>>
  PROVE  Inv'
  <1>1. /\ queue \in Seq(Items) /\ wire \in Seq(Items) /\ generation \in Nat
        /\ requested \in Nat /\ calls \in Nat
        /\ Numbered(queue, wire, requested) /\ Ordered(queue, wire)
        /\ Silenced(queue, wire, generation)
        /\ Reported(queue, wire, pending, flights, calls)
    BY Zenon DEF Inv, TypeOK
  <1>2. \/ queue' = <<>> /\ wire' = wire
        \/ queue' = queue /\ wire' = wire
        \/ \E i \in 1..Len(queue) :
             /\ Picked(queue, i) /\ queue' = Without(queue, i)
             /\ \/ wire' = wire
                \/ Valid(queue[i]) /\ wire' = Append(wire, queue[i])
    BY <1>1, SMTT(30) DEF Loop, TakeItem, Write, Dropped
  <1>3. CASE queue' = <<>> /\ wire' = wire
    <2>1. TypeOK'
      BY <1>3, SMTT(30) DEF Inv, TypeOK
    <2> QED
      BY <1>1, <1>3, <2>1, EmptyKeeps, Zenon DEF Inv
  <1>4. CASE queue' = queue /\ wire' = wire
    BY <1>4, Zenon DEF Inv, TypeOK
  <1>5. ASSUME NEW i \in 1..Len(queue), Picked(queue, i), queue' = Without(queue, i),
               \/ wire' = wire
               \/ Valid(queue[i]) /\ wire' = Append(wire, queue[i])
        PROVE  Inv'
    <2>1. queue' \in Seq(Items) /\ queue[i] \in Items
      BY <1>1, <1>5, Removed, SMTT(30)
    <2>2. CASE wire' = wire
      <3>1. TypeOK'
        BY <2>1, <2>2, Zenon DEF Inv, TypeOK
      <3> QED
        BY <1>1, <1>5, <2>2, <3>1, RemovedKeeps, Zenon DEF Inv
    <2>3. CASE Valid(queue[i]) /\ wire' = Append(wire, queue[i])
      <3>1. wire' \in Seq(Items)
        BY <1>1, <2>1, <2>3, SMTT(30)
      <3>2. TypeOK'
        BY <2>1, <3>1, Zenon DEF Inv, TypeOK
      <3>3. (queue[i].kind \in Speech => queue[i].gen = generation) /\ queue[i].valid
        BY <2>3, Zenon DEF Valid
      <3>4. Numbered(queue', wire', requested) /\ Ordered(queue', wire')
        BY <1>1, <1>5, <2>3, WrittenOrdered, Zenon
      <3>5. Silenced(queue', wire', generation)
        BY <1>1, <1>5, <2>3, <3>3, WrittenSilenced, ZenonT(30)
      <3>6. Reported(queue', wire', pending, flights, calls)
        BY <1>1, <1>5, <2>3, <3>3, WrittenReported, Zenon
      <3> QED
        BY <3>2, <3>4, <3>5, <3>6, Zenon DEF Inv
    <2> QED
      BY <1>5, <2>2, <2>3, Zenon
  <1> QED
    BY <1>2, <1>3, <1>4, <1>5, Zenon

-----------------------------------------------------------------------------
(* The scheduler *)

LEMMA ProgressKeeps ==
  ASSUME Inv, NEW j \in Jobs, Progress(j)
  PROVE  Inv'
  <1> DEFINE u == [job |-> j, event |-> calls + 1]
  <1>1. /\ queue \in Seq(Items) /\ wire \in Seq(Items) /\ pending \in Seq(Updates)
        /\ calls \in Nat /\ \A f \in flights : f.rest \in Seq(Waits)
        /\ Reported(queue, wire, pending, flights, calls)
    BY Zenon DEF Inv, TypeOK
  <1>2. /\ calls' = calls + 1 /\ pending' = WithProgress(j, calls + 1)
        /\ UNCHANGED <<queue, wire, generation, requested, subscribed, flights>>
    BY Zenon DEF Progress, Calls, output
  <1>3. u \in Updates /\ u.job = j /\ u.event = calls + 1
    BY <1>1, SMTT(30) DEF Updates
  <1>4. WithProgress(j, calls + 1) =
          IF \E i \in DOMAIN pending : pending[i].job = j
            THEN [i \in DOMAIN pending |->
                   IF pending[i].job = j THEN u ELSE pending[i]]
            ELSE Append(pending, u)
    BY Zenon DEF WithProgress
  <1> HIDE DEF u
  <1>5. /\ pending' \in Seq(Updates)
        /\ \A k \in 1..Len(pending') :
             \/ pending'[k] = u
             \/ k \in 1..Len(pending) /\ pending'[k] = pending[k]
        /\ \A i, k \in 1..Len(pending') : pending'[i].job = pending'[k].job => i = k
    <2>1. CASE \E i \in DOMAIN pending : pending[i].job = j
      <3>1. pending' = [i \in 1..Len(pending) |->
                         IF pending[i].job = j THEN u ELSE pending[i]]
        <4>1. DOMAIN pending = 1..Len(pending)
          BY <1>1, SMTT(30)
        <4> QED
          BY <1>2, <1>4, <2>1, <4>1, Zenon
      <3>2. /\ pending' \in Seq(Updates) /\ Len(pending') = Len(pending)
            /\ \A k \in 1..Len(pending) :
                 /\ pending'[k] = IF pending[k].job = j THEN u ELSE pending[k]
                 /\ pending'[k].job = pending[k].job
        BY <1>1, <1>3, <3>1
      <3> QED
        BY <1>1, <3>2, Zenon DEF Reported
    <2>2. CASE ~\E i \in DOMAIN pending : pending[i].job = j
      <3>1. pending' = Append(pending, u)
        BY <1>2, <1>4, <2>2, Zenon
      <3>2. /\ pending' \in Seq(Updates) /\ Len(pending') = Len(pending) + 1
            /\ \A k \in 1..Len(pending) : /\ pending'[k] = pending[k]
                                          /\ pending[k].job # j
            /\ pending'[Len(pending) + 1] = u
        BY <1>1, <1>3, <2>2, <3>1, SMTT(30)
      <3>3. \A k \in 1..Len(pending') : k \in 1..Len(pending) \/ k = Len(pending) + 1
        BY <1>1, <3>2, SMTT(30)
      <3> QED
        BY <1>1, <1>3, <3>2, <3>3, Zenon DEF Reported
    <2> QED
      BY <2>1, <2>2, Zenon
  <1>6. TypeOK'
    BY <1>1, <1>2, <1>5, SMTT(30) DEF Inv, TypeOK
  <1>7. Reported(queue, wire, pending, flights, calls + 1)
    BY <1>1, ReportedLater, Zenon
  <1>8. ASSUME NEW a, Fresh(a, queue, pending, flights), a.event <= calls, a.event \in Nat
        PROVE  Fresh(a, queue, pending', flights)
    <2>1. ~Stale(a, u)
      BY <1>1, <1>3, <1>8, SMTT(30) DEF Stale
    <2> QED
      BY <1>5, <1>8, <2>1, Zenon DEF Fresh
  <1>9. /\ \A k \in 1..Len(queue) : queue[k].event \in Nat
        /\ \A k \in 1..Len(wire) : wire[k].event \in Nat
    BY <1>1, ItemFields, Zenon
  <1>10. /\ \A k \in 1..Len(queue) : Fresh(queue[k], queue, pending', flights)
         /\ \A k \in 1..Len(wire) : Fresh(wire[k], queue, pending', flights)
    BY <1>1, <1>8, <1>9, ZenonT(30) DEF Reported
  <1>11. \A k \in 1..Len(pending') : pending'[k].event <= calls + 1
    BY <1>1, <1>3, <1>5, <1>7, SMTT(30) DEF Reported
  <1>12. Reported(queue, wire, pending', flights, calls + 1)
    BY <1>5, <1>7, <1>10, <1>11, Zenon DEF Reported
  <1> QED
    BY <1>2, <1>6, <1>12, Zenon DEF Inv

\* What an event of a job leaves pending: nothing of that job.
LEMMA KeptUpdates ==
  ASSUME Inv, NEW j \in Jobs \cup {None}
  PROVE  /\ Kept(j) \in Seq(Updates)
         /\ \A k \in 1..Len(Kept(j)) :
              \E m \in 1..Len(pending) : Kept(j)[k] = pending[m]
         /\ \A k \in 1..Len(Kept(j)) : j \notin {None, Kept(j)[k].job}
         /\ \A i, k \in 1..Len(Kept(j)) : Kept(j)[i].job = Kept(j)[k].job => i = k
  <1> DEFINE mine == {i \in DOMAIN pending : pending[i].job = j}
             r == Kept(j)
  <1>1. /\ pending \in Seq(Updates)
        /\ \A i, k \in 1..Len(pending) : pending[i].job = pending[k].job => i = k
    BY Zenon DEF Inv, TypeOK, Reported
  <1>2. r = IF j = None THEN <<>>
            ELSE IF mine = {} THEN pending
            ELSE Without(pending, CHOOSE i \in mine : TRUE)
    BY Zenon DEF Kept
  <1>3. \A i \in 1..Len(pending) : i \in mine <=> pending[i].job = j
    BY <1>1
  <1>4. mine \subseteq 1..Len(pending)
    BY <1>1
  <1> HIDE DEF r, mine
  <1>5. /\ r \in Seq(Updates)
        /\ \A k \in 1..Len(r) : \E m \in 1..Len(pending) : r[k] = pending[m]
        /\ \A k \in 1..Len(r) : j \notin {None, r[k].job}
        /\ \A i, k \in 1..Len(r) : r[i].job = r[k].job => i = k
    <2>1. CASE j = None
      BY <1>2, <2>1, SMTT(30)
    <2>2. CASE j # None /\ mine = {}
      BY <1>1, <1>2, <1>3, <2>2, Zenon
    <2>3. CASE j # None /\ mine # {}
      <3> DEFINE i == CHOOSE m \in mine : TRUE
                 at(k) == IF k < i THEN k ELSE k + 1
      <3>1. i \in mine
        BY <2>3, Zenon
      <3>2. r = Without(pending, i)
        BY <1>2, <2>3, Zenon
      <3> HIDE DEF i
      <3>3. i \in 1..Len(pending) /\ pending[i].job = j
        BY <1>3, <1>4, <3>1, Zenon
      <3>4. /\ r \in Seq(Updates) /\ Len(r) = Len(pending) - 1
            /\ \A k \in 1..Len(r) : /\ at(k) \in 1..Len(pending) /\ at(k) # i
                                    /\ r[k] = pending[at(k)]
        <4>1. /\ Without(pending, i) \in Seq(Updates)
              /\ Len(Without(pending, i)) = Len(pending) - 1
              /\ \A k \in 1..Len(Without(pending, i)) :
                   /\ at(k) \in 1..Len(pending) /\ at(k) # i
                   /\ Without(pending, i)[k] = pending[at(k)]
          BY <1>1, <3>3, Removed, SMTT(30)
        <4> HIDE DEF at
        <4> QED
          BY <3>2, <4>1, Zenon
      <3>5. \A k, m \in 1..Len(r) : at(k) = at(m) => k = m
        BY <3>3, <3>4
      <3> HIDE DEF at
      <3>6. \A k \in 1..Len(r) : r[k].job # j
        BY <1>1, <3>3, <3>4, Zenon
      <3> QED
        BY <1>1, <2>3, <3>4, <3>5, <3>6, SMTT(30)
    <2> QED
      BY <2>1, <2>2, <2>3, Zenon
  <1> QED
    BY <1>5, Zenon DEF r

\* Progress on its way that the event makes stale is marked.
LEMMA OvertakenWays ==
  ASSUME Inv, NEW j \in Jobs \cup {None}, NEW f \in Overtaken(j)
  PROVE  /\ f = [awaits |-> f.awaits, of |-> f.of, rest |-> f.rest]
         /\ f.rest \in Seq(Waits)
         /\ \E e \in flights :
              /\ Len(f.rest) = Len(e.rest)
              /\ \A k \in 1..Len(e.rest) :
                   /\ f.rest[k].job = e.rest[k].job
                   /\ f.rest[k].event = e.rest[k].event
                   /\ e.rest[k].overtaken => f.rest[k].overtaken
         /\ \A k \in 1..Len(f.rest) :
              j \in {None, f.rest[k].job} => f.rest[k].overtaken
  <1> DEFINE mark(p) == [p EXCEPT !.overtaken = p.overtaken \/ j \in {None, p.job}]
  <1>1. PICK e \in flights :
          f = [e EXCEPT !.rest = [i \in DOMAIN e.rest |-> mark(e.rest[i])]]
    BY Zenon DEF Overtaken
  <1>2. /\ e = [awaits |-> e.awaits, of |-> e.of, rest |-> e.rest]
        /\ e.rest \in Seq(Waits)
    BY Zenon DEF Inv, TypeOK
  <1> DEFINE s == e.rest
             r == [i \in DOMAIN s |-> mark(s[i])]
  <1>3. /\ f = [awaits |-> e.awaits, of |-> e.of, rest |-> r]
        /\ r = [i \in 1..Len(s) |-> mark(s[i])]
    <2>1. f = [e EXCEPT !.rest = r]
      BY <1>1, Zenon
    <2> HIDE DEF r
    <2>2. f = [awaits |-> e.awaits, of |-> e.of, rest |-> r]
      BY <1>2, <2>1, Zenon
    <2>3. DOMAIN s = 1..Len(s)
      BY <1>2
    <2> QED
      BY <2>2, <2>3, Zenon DEF r
  <1>4. ASSUME NEW p \in Waits
        PROVE  /\ mark(p) \in Waits /\ mark(p).job = p.job /\ mark(p).event = p.event
               /\ p.overtaken => mark(p).overtaken
               /\ j \in {None, p.job} => mark(p).overtaken
    BY Zenon DEF Waits
  <1> HIDE DEF mark, r, s
  <1>5. s \in Seq(Waits) /\ s = e.rest
    BY <1>2, Zenon DEF s
  <1>6. \A k \in 1..Len(s) :
          /\ r[k] \in Waits /\ r[k].job = s[k].job /\ r[k].event = s[k].event
          /\ s[k].overtaken => r[k].overtaken
          /\ j \in {None, s[k].job} => r[k].overtaken
    BY <1>3, <1>4, <1>5
  <1>7. r \in Seq(Waits) /\ Len(r) = Len(s)
    <2>1. r = [i \in 1..Len(s) |-> r[i]] /\ Len(s) \in Nat
      BY <1>3, <1>5, SMTT(30)
    <2>2. \A k \in 1..Len(s) : r[k] \in Waits
      BY <1>6, Zenon
    <2> QED
      BY <2>1, <2>2, SMTT(30)
  <1>8. /\ f.rest = r /\ f = [awaits |-> f.awaits, of |-> f.of, rest |-> f.rest]
    BY <1>3, Zenon
  <1>9. /\ Len(f.rest) = Len(e.rest)
        /\ \A k \in 1..Len(e.rest) :
             /\ f.rest[k].job = e.rest[k].job
             /\ f.rest[k].event = e.rest[k].event
             /\ e.rest[k].overtaken => f.rest[k].overtaken
    BY <1>5, <1>6, <1>7, <1>8, Zenon
  <1>10. \A k \in 1..Len(f.rest) :
           j \in {None, f.rest[k].job} => f.rest[k].overtaken
    BY <1>5, <1>6, <1>7, <1>8, Zenon
  <1> QED
    BY <1>7, <1>8, <1>9, <1>10, Zenon

LEMMA AnnounceKeeps ==
  ASSUME Inv, NEW kind \in News, NEW j \in Jobs \cup {None}, Announce(kind, j)
  PROVE  Inv'
  <1> DEFINE x == Item(kind, j, calls + 1, TRUE)
             items == <<x>>
             q == Cancelled(queue)
  <1>1. /\ queue \in Seq(Items) /\ wire \in Seq(Items) /\ pending \in Seq(Updates)
        /\ calls \in Nat /\ requested \in Nat /\ generation \in Nat
        /\ \A f \in flights : f.rest \in Seq(Waits)
        /\ Numbered(queue, wire, requested) /\ Ordered(queue, wire)
        /\ Silenced(queue, wire, generation)
        /\ Reported(queue, wire, pending, flights, calls)
    BY Zenon DEF Inv, TypeOK
  <1>2. /\ calls' = calls + 1 /\ pending' = Kept(j) /\ flights' = Overtaken(j)
        /\ Enqueued(q, items)
        /\ UNCHANGED <<wire, generation, subscribed>>
    BY Zenon DEF Announce, Calls
  <1>3. /\ q \in Seq(Items) /\ Len(q) = Len(queue)
        /\ \A k \in 1..Len(queue) :
             /\ q[k].kind = queue[k].kind
             /\ queue[k].kind = "progress" => ~q[k].valid
        /\ Numbered(q, wire, requested) /\ Ordered(q, wire)
        /\ Silenced(q, wire, generation)
    BY <1>1, CancelledKeeps, ZenonT(30)
  <1>4. /\ x \in Items /\ x.kind = kind /\ x.job = j /\ x.event = calls + 1
        /\ x.gen = generation /\ x.after = Len(wire)
    <2>1. kind \in Kinds /\ calls + 1 \in Nat
      BY <1>1 DEF Kinds
    <2> DEFINE yes == TRUE
    <2>2. yes \in BOOLEAN /\ x = Item(kind, j, calls + 1, yes)
      BY Zenon
    <2> HIDE DEF yes, x
    <2> QED
      BY <2>1, <2>2, NewItem, SMTT(30)
  <1>5. Reported(q, wire, pending', flights', calls')
    <2>1. Chosen(Kept(j), pending)
      BY KeptUpdates, Zenon DEF Chosen
    <2>2. Marked(Overtaken(j), flights)
      BY OvertakenWays, Zenon DEF Marked
    <2>3. calls + 1 \in Nat /\ calls <= calls + 1
      BY <1>1, SMTT(30)
    <2>4. Reported(q, wire, Kept(j), Overtaken(j), calls + 1)
      BY <1>1, <2>1, <2>2, <2>3, ClearedReported, Zenon
    <2> QED
      BY <1>2, <2>4, Zenon
  <1> HIDE DEF x, q
  <1>6. /\ items \in Seq(Items) /\ Len(items) = 1 /\ items[1] = x
        /\ \A k \in 1..Len(items) : items[k] = x
    BY <1>4
  <1> HIDE DEF items
  <1>7. x.kind # "stop"
    BY <1>4, Zenon DEF News
  <1>8. /\ queue' \in Seq(Items) /\ requested' \in Nat
        /\ Numbered(queue', wire, requested') /\ Ordered(queue', wire)
        /\ Silenced(queue', wire, generation)
        /\ queue' = q
           \/ \E b \in Seq(Items) :
                /\ queue' = q \o b /\ Len(b) = Len(items)
                /\ \A k \in 1..Len(b) :
                     /\ b[k].kind = items[k].kind /\ b[k].job = items[k].job
                     /\ b[k].event = items[k].event
                     /\ b[k].overtaken = items[k].overtaken
    <2>1. ASSUME NEW k \in 1..Len(items)
          PROVE  items[k].after = Len(wire) /\ items[k].gen <= generation
      <3>1. items[k] = x /\ generation \in Nat
        BY <1>1, <1>6, Zenon
      <3> QED
        BY <1>4, <3>1, SMTT(30)
    <2>2. \A k \in 1..Len(items) :
            items[k].kind = "stop" => generation < generation /\ Len(items) = 1
      BY <1>6, <1>7, Zenon
    <2>3. generation <= generation
      BY <1>1, SMTT(30)
    <2> QED
      BY <1>1, <1>2, <1>3, <1>6, <2>1, <2>2, <2>3, EnqueuedKeeps, ZenonT(30)
  <1>9. Reported(queue', wire, pending', flights', calls')
    <2>1. CASE queue' = q
      BY <1>5, <2>1, Zenon
    <2>2. ASSUME NEW b \in Seq(Items), queue' = q \o b, Len(b) = Len(items),
                 \A k \in 1..Len(b) :
                   /\ b[k].kind = items[k].kind /\ b[k].job = items[k].job
                   /\ b[k].event = items[k].event
          PROVE  Reported(queue', wire, pending', flights', calls')
      <3> DEFINE y == b[1]
      <3>1. /\ y \in Items /\ y.kind = kind /\ y.job = j /\ y.event = calls + 1
            /\ b = <<y>>
        BY <1>4, <1>6, <2>2, SMTT(30)
      <3> HIDE DEF y
      <3>2. \A k \in 1..Len(q) : q[k].kind = "progress" => ~q[k].valid
        BY <1>3, Zenon
      <3>3. \A k \in 1..Len(pending') : y.job \notin {None, pending'[k].job}
        BY <1>2, <3>1, KeptUpdates, Zenon
      <3>4. \A f \in flights' : \A k \in 1..Len(f.rest) :
              y.job \in {None, f.rest[k].job} => f.rest[k].overtaken
        BY <1>2, <3>1, OvertakenWays, SMTT(30)
      <3>5. y.event <= calls' /\ calls' \in Nat /\ queue' = q \o <<y>>
        BY <1>1, <1>2, <2>2, <3>1, SMTT(30)
      <3> QED
        BY <1>1, <1>3, <1>5, <3>1, <3>2, <3>3, <3>4, <3>5, AddedNews, Zenon
    <2> QED
      BY <1>8, <2>1, <2>2, Zenon
  <1>10. TypeOK'
    <2>1. \A f \in flights' : /\ f = [awaits |-> f.awaits, of |-> f.of, rest |-> f.rest]
                              /\ f.rest \in Seq(Waits)
      BY <1>2, OvertakenWays, Zenon
    <2>2. pending' \in Seq(Updates)
      BY <1>2, KeptUpdates, Zenon
    <2> QED
      BY <1>1, <1>2, <1>8, <2>1, <2>2, SMTT(30) DEF Inv, TypeOK
  <1> QED
    BY <1>2, <1>8, <1>9, <1>10, Zenon DEF Inv

\* Updates are dropped, a batch is handed over to its end.
LEMMA FewerReported ==
  ASSUME NEW q, NEW w, NEW updates, NEW kept, NEW ways, NEW fewer \in SUBSET ways,
         NEW c, Reported(q, w, updates, ways, c),
         \A k \in 1..Len(kept) : k \in 1..Len(updates) /\ kept[k] = updates[k]
  PROVE  Reported(q, w, kept, fewer, c)
  <1>1. ASSUME NEW a, Fresh(a, q, updates, ways) PROVE Fresh(a, q, kept, fewer)
    BY <1>1, ZenonT(30) DEF Fresh
  <1>2. /\ \A k \in 1..Len(w) : Fresh(w[k], q, kept, fewer)
        /\ \A k \in 1..Len(q) : Fresh(q[k], q, kept, fewer)
    BY <1>1, ZenonT(30) DEF Reported
  <1>3. /\ \A k \in 1..Len(kept) : kept[k].event <= c
        /\ \A i, k \in 1..Len(kept) : kept[i].job = kept[k].job => i = k
    BY Zenon DEF Reported
  <1> QED
    BY <1>2, <1>3, ZenonT(30) DEF Reported

\* A batch sets out.
LEMMA MoreWays ==
  ASSUME NEW q, NEW w, NEW updates, NEW ways, NEW f, NEW c,
         Reported(q, w, updates, ways, c),
         \A k \in 1..Len(f.rest) :
           /\ f.rest[k].event <= c
           /\ \A m \in 1..Len(w) : Stale(w[m], f.rest[k]) => f.rest[k].overtaken
           /\ \A m \in 1..Len(q) : Stale(q[m], f.rest[k]) => f.rest[k].overtaken
  PROVE  Reported(q, w, updates, ways \cup {f}, c)
  <1> DEFINE more == ways \cup {f}
  <1>1. \A e \in more : e \in ways \/ e = f
    BY Zenon
  <1> HIDE DEF more
  <1>2. ASSUME NEW a, Fresh(a, q, updates, ways),
               \A k \in 1..Len(f.rest) : Stale(a, f.rest[k]) => f.rest[k].overtaken
        PROVE  Fresh(a, q, updates, more)
    BY <1>1, <1>2, Zenon DEF Fresh
  <1>3. /\ \A k \in 1..Len(w) : Fresh(w[k], q, updates, more)
        /\ \A k \in 1..Len(q) : Fresh(q[k], q, updates, more)
    BY <1>2, Zenon DEF Reported
  <1>4. \A e \in more : \A k \in 1..Len(e.rest) : e.rest[k].event <= c
    BY <1>1, Zenon DEF Reported
  <1>5. Reported(q, w, updates, more, c)
    BY <1>3, <1>4, Zenon DEF Reported
  <1> QED
    BY <1>5, Zenon DEF more

\* flushPending hands over the next frame of a batch.
LEMMA HandOverKeeps ==
  ASSUME Inv, NEW batch \in Seq(Waits), batch # <<>>, NEW others \in SUBSET flights,
         \A k \in 1..Len(batch) :
           /\ batch[k].event <= calls
           /\ \A m \in 1..Len(wire) : Stale(wire[m], batch[k]) => batch[k].overtaken
           /\ \A m \in 1..Len(queue) : Stale(queue[m], batch[k]) => batch[k].overtaken,
         HandOver(batch, others),
         pending' \in {pending, <<>>}, calls' \in {calls, calls + 1},
         UNCHANGED <<wire, generation, subscribed>>
  PROVE  Inv'
  <1> DEFINE p == Head(batch)
             t == Tail(batch)
             x == [Item("progress", p.job, p.event, FALSE) EXCEPT
                     !.overtaken = p.overtaken]
             items == <<x>>
             g == [awaits |-> IF Stopped THEN 0 ELSE requested + 1, of |-> p.event,
                   rest |-> t]
  <1>1. /\ queue \in Seq(Items) /\ wire \in Seq(Items) /\ pending \in Seq(Updates)
        /\ calls \in Nat /\ requested \in Nat /\ generation \in Nat
        /\ \A f \in flights : f.rest \in Seq(Waits)
        /\ Numbered(queue, wire, requested) /\ Ordered(queue, wire)
        /\ Silenced(queue, wire, generation)
        /\ Reported(queue, wire, pending, flights, calls)
    BY Zenon DEF Inv, TypeOK
  <1>2. Enqueued(queue, items) /\ flights' = others \cup {g}
    BY Zenon DEF HandOver
  <1>3. /\ 1 \in 1..Len(batch) /\ p = batch[1]
        /\ t \in Seq(Waits) /\ Len(t) = Len(batch) - 1
        /\ \A k \in 1..Len(t) : k + 1 \in 1..Len(batch) /\ t[k] = batch[k + 1]
    BY SMTT(30)
  <1>4. p \in Waits /\ p.job \in Jobs /\ p.event \in Nat /\ p.overtaken \in BOOLEAN
    BY <1>3, WaitFields, SMTT(30)
  <1>5. g.rest = t /\ g = [awaits |-> g.awaits, of |-> g.of, rest |-> g.rest]
    BY Zenon
  <1>6. /\ p.event <= calls
        /\ \A m \in 1..Len(wire) : Stale(wire[m], p) => p.overtaken
        /\ \A m \in 1..Len(queue) : Stale(queue[m], p) => p.overtaken
    BY <1>3, Zenon
  <1>7. \A k \in 1..Len(t) :
          /\ t[k].event <= calls
          /\ \A m \in 1..Len(wire) : Stale(wire[m], t[k]) => t[k].overtaken
          /\ \A m \in 1..Len(queue) : Stale(queue[m], t[k]) => t[k].overtaken
    BY <1>3, Zenon
  <1> HIDE DEF p, t, g
  <1>8. /\ x \in Items /\ x.kind = "progress" /\ x.job = p.job /\ x.event = p.event
        /\ x.overtaken = p.overtaken /\ x.gen = generation /\ x.after = Len(wire)
    <2> DEFINE z == Item("progress", p.job, p.event, FALSE)
    <2>1. /\ z \in Items /\ z.kind = "progress" /\ z.job = p.job
          /\ z.event = p.event /\ z.gen = generation /\ z.after = Len(wire)
      <3>1. "progress" \in Kinds /\ p.job \in Jobs \cup {None}
        BY <1>4, Zenon DEF Kinds
      <3> DEFINE no == FALSE
      <3>2. no \in BOOLEAN /\ z = Item("progress", p.job, p.event, no)
        BY Zenon
      <3> HIDE DEF no, z
      <3> QED
        BY <1>4, <3>1, <3>2, NewItem, SMTT(30)
    <2>2. x = [z EXCEPT !.overtaken = p.overtaken]
      BY Zenon
    <2> HIDE DEF z, x
    <2> QED
      BY <1>4, <2>1, <2>2, Zenon DEF Items
  <1> HIDE DEF x
  <1>9. /\ items \in Seq(Items) /\ Len(items) = 1 /\ items[1] = x
        /\ \A k \in 1..Len(items) : items[k] = x
    BY <1>8, SMTT(30)
  <1> HIDE DEF items
  <1>10. /\ queue' \in Seq(Items) /\ requested' \in Nat
         /\ Numbered(queue', wire, requested') /\ Ordered(queue', wire)
         /\ Silenced(queue', wire, generation)
         /\ queue' = queue
            \/ \E b \in Seq(Items) :
                 /\ queue' = queue \o b /\ Len(b) = Len(items)
                 /\ \A k \in 1..Len(b) :
                      /\ b[k].kind = items[k].kind /\ b[k].job = items[k].job
                      /\ b[k].event = items[k].event
                      /\ b[k].overtaken = items[k].overtaken
    <2>1. \A k \in 1..Len(items) : /\ items[k].after = Len(wire)
                                   /\ items[k].gen <= generation
      BY <1>1, <1>8, <1>9, SMTT(30)
    <2>2. \A k \in 1..Len(items) :
            items[k].kind = "stop" => generation < generation /\ Len(items) = 1
      BY <1>8, <1>9, Zenon
    <2>3. generation <= generation
      BY <1>1, SMTT(30)
    <2> QED
      BY <1>1, <1>2, <1>9, <2>1, <2>2, <2>3, EnqueuedKeeps, ZenonT(30)
  <1>11. Reported(queue, wire, pending', flights', calls)
    <2>1. /\ \A k \in 1..Len(pending') :
               k \in 1..Len(pending) /\ pending'[k] = pending[k]
      <3>1. CASE pending' = pending
        BY <3>1, Zenon
      <3>2. CASE Len(pending') = 0
        BY <3>2, SMTT(30)
      <3> QED
        BY <3>1, <3>2, Zenon
    <2>2. Reported(queue, wire, pending', others, calls)
      BY <1>1, <2>1, FewerReported, Zenon
    <2>3. \A k \in 1..Len(g.rest) :
            /\ g.rest[k].event <= calls
            /\ \A m \in 1..Len(wire) :
                 Stale(wire[m], g.rest[k]) => g.rest[k].overtaken
            /\ \A m \in 1..Len(queue) :
                 Stale(queue[m], g.rest[k]) => g.rest[k].overtaken
      BY <1>5, <1>7, Zenon
    <2> QED
      BY <1>2, <2>2, <2>3, MoreWays, Zenon
  <1>12. Reported(queue', wire, pending', flights', calls)
    <2>1. CASE queue' = queue
      BY <1>11, <2>1, Zenon
    <2>2. ASSUME NEW b \in Seq(Items), queue' = queue \o b, Len(b) = Len(items),
                 \A k \in 1..Len(b) :
                   /\ b[k].kind = items[k].kind /\ b[k].job = items[k].job
                   /\ b[k].event = items[k].event
                   /\ b[k].overtaken = items[k].overtaken
          PROVE  Reported(queue', wire, pending', flights', calls)
      <3> DEFINE y == b[1]
      <3>1. /\ y \in Items /\ y.kind = "progress" /\ y.job = p.job
            /\ y.event = p.event /\ y.overtaken = p.overtaken
            /\ b = <<y>>
        BY <1>8, <1>9, <2>2, SMTT(30)
      <3> HIDE DEF y
      <3>2. /\ \A m \in 1..Len(wire) : Stale(wire[m], y) => y.overtaken
            /\ \A m \in 1..Len(queue) : Stale(queue[m], y) => y.overtaken
        BY <1>6, <3>1, Zenon DEF Stale
      <3>3. y.event <= calls /\ queue' = queue \o <<y>>
        BY <1>6, <2>2, <3>1, Zenon
      <3> QED
        BY <1>1, <1>11, <3>1, <3>2, <3>3, AddedProgress, Zenon
    <2> QED
      BY <1>10, <2>1, <2>2, Zenon
  <1>13. /\ pending' \in Seq(Updates)
         /\ \A f \in flights' : /\ f = [awaits |-> f.awaits, of |-> f.of, rest |-> f.rest]
                                /\ f.rest \in Seq(Waits)
    <2>1. pending' \in Seq(Updates)
      <3>1. <<>> \in Seq(Updates)
        BY SMTT(30)
      <3> QED
        BY <1>1, <3>1, Zenon
    <2>2. ASSUME NEW f \in flights'
          PROVE  /\ f = [awaits |-> f.awaits, of |-> f.of, rest |-> f.rest]
                 /\ f.rest \in Seq(Waits)
      <3>1. CASE f \in flights
        BY <3>1, Zenon DEF Inv, TypeOK
      <3>2. CASE f = g
        BY <1>3, <1>5, <3>2, Zenon
      <3> QED
        BY <1>2, <3>1, <3>2, Zenon
    <2> QED
      BY <2>1, <2>2, Zenon
  <1>14. TypeOK'
    BY <1>1, <1>10, <1>13, SMTT(30) DEF Inv, TypeOK
  <1>15. Reported(queue', wire, pending', flights', calls')
    BY <1>1, <1>10, <1>12, <1>13, ReportedLater, Zenon
  <1> QED
    BY <1>10, <1>14, <1>15, Zenon DEF Inv

\* The timer, or flush: everything that is pending goes, and nothing of it is
\* stale.
LEMMA FlushPendingKeeps ==
  ASSUME Inv, FlushPending, calls' \in {calls, calls + 1}
  PROVE  Inv'
  <1> DEFINE batch == [i \in DOMAIN pending |->
                        [job |-> pending[i].job, event |-> pending[i].event,
                         overtaken |-> FALSE]]
  <1>1. /\ queue \in Seq(Items) /\ wire \in Seq(Items) /\ pending \in Seq(Updates)
        /\ calls \in Nat /\ \A f \in flights : f.rest \in Seq(Waits)
        /\ Reported(queue, wire, pending, flights, calls)
    BY Zenon DEF Inv, TypeOK
  <1>2. /\ pending' = <<>> /\ UNCHANGED <<wire, generation, subscribed>>
        /\ IF pending = <<>> THEN UNCHANGED <<queue, scheduled, requested, flights>>
                             ELSE HandOver(batch, flights)
    BY Zenon DEF FlushPending
  <1>3. CASE pending = <<>>
    <2>1. Reported(queue', wire', pending', flights', calls)
      BY <1>1, <1>2, <1>3, Zenon
    <2>2. TypeOK'
      BY <1>1, <1>2, <1>3, SMTT(30) DEF Inv, TypeOK
    <2>3. Reported(queue', wire', pending', flights', calls')
      BY <1>1, <2>1, <2>2, ReportedLater, Zenon DEF TypeOK
    <2> QED
      BY <1>2, <1>3, <2>2, <2>3, Zenon DEF Inv
  <1>4. CASE pending # <<>>
    <2>1. \A k \in 1..Len(pending) : pending[k].job \in Jobs /\ pending[k].event \in Nat
      BY <1>1, UpdateFields, Zenon
    <2>2. /\ batch \in Seq(Waits) /\ Len(batch) = Len(pending)
          /\ \A k \in 1..Len(pending) :
               batch[k].job = pending[k].job /\ batch[k].event = pending[k].event
      <3>1. \A k \in 1..Len(pending) :
              /\ batch[k] \in Waits
              /\ batch[k].job = pending[k].job /\ batch[k].event = pending[k].event
        BY <1>1, <2>1, SMTT(30) DEF Waits
      <3>2. batch = [i \in 1..Len(pending) |-> batch[i]]
        BY <1>1, SMTT(30)
      <3> HIDE DEF batch
      <3> QED
        BY <1>1, <3>1, <3>2, SMTT(30)
    <2>3. HandOver(batch, flights)
      BY <1>2, <1>4, Zenon
    <2> HIDE DEF batch
    <2>4. batch # <<>>
      BY <1>1, <1>4, <2>2, SMTT(30)
    <2>5. ASSUME NEW k \in 1..Len(batch)
          PROVE  /\ batch[k].event <= calls
                 /\ \A m \in 1..Len(wire) : ~Stale(wire[m], batch[k])
                 /\ \A m \in 1..Len(queue) : ~Stale(queue[m], batch[k])
      <3>1. /\ pending[k].event <= calls
            /\ \A m \in 1..Len(wire) : ~Stale(wire[m], pending[k])
            /\ \A m \in 1..Len(queue) : ~Stale(queue[m], pending[k])
        BY <1>1, <2>2, Zenon DEF Reported, Fresh
      <3> QED
        BY <2>2, <3>1, Zenon DEF Stale
    <2>6. pending' \in {pending, <<>>} /\ flights \in SUBSET flights
      BY <1>2, Zenon
    <2> QED
      BY <1>2, <2>2, <2>3, <2>4, <2>5, <2>6, HandOverKeeps, Zenon
  <1> QED
    BY <1>3, <1>4, Zenon

LEMMA GoOnKeeps ==
  ASSUME Inv, NEW f \in flights, GoOn(f)
  PROVE  Inv'
  <1>1. /\ \A e \in flights : e.rest \in Seq(Waits)
        /\ Reported(queue, wire, pending, flights, calls)
    BY Zenon DEF Inv, TypeOK
  <1>2. UNCHANGED <<wire, generation, subscribed, pending, calls>>
    BY Zenon DEF GoOn
  <1>3. CASE f.rest = <<>>
    <2>1. flights' = flights \ {f} /\ UNCHANGED <<queue, requested>>
      BY <1>3, Zenon DEF GoOn
    <2>2. TypeOK'
      BY <1>2, <2>1, Zenon DEF Inv, TypeOK
    <2>3. Reported(queue, wire, pending, flights', calls)
      BY <1>1, <2>1, FewerReported, Zenon
    <2> QED
      BY <1>2, <2>1, <2>2, <2>3, Zenon DEF Inv
  <1>4. CASE f.rest # <<>>
    <2> DEFINE batch == f.rest
    <2>1. HandOver(batch, flights \ {f}) /\ batch \in Seq(Waits) /\ batch # <<>>
      BY <1>1, <1>4, Zenon DEF GoOn
    <2>2. \A k \in 1..Len(batch) :
            /\ batch[k].event <= calls
            /\ \A m \in 1..Len(wire) : Stale(wire[m], batch[k]) => batch[k].overtaken
            /\ \A m \in 1..Len(queue) : Stale(queue[m], batch[k]) => batch[k].overtaken
      BY <1>1, Zenon DEF Reported, Fresh
    <2>3. /\ pending' \in {pending, <<>>} /\ calls' \in {calls, calls + 1}
          /\ flights \ {f} \in SUBSET flights
      BY <1>2, Zenon
    <2> HIDE DEF batch
    <2> QED
      BY <1>2, <2>1, <2>2, <2>3, HandOverKeeps, Zenon
  <1> QED
    BY <1>3, <1>4, Zenon

LEMMA CloseSchedulerKeeps ==
  ASSUME Inv, CloseScheduler
  PROVE  Inv'
  <1>1. /\ pending' = <<>> /\ subscribed' = {}
        /\ UNCHANGED <<queue, wire, generation, requested, flights, calls>>
    BY Zenon DEF CloseScheduler, output
  <1>2. Reported(queue, wire, pending, flights, calls)
    BY Zenon DEF Inv
  <1>3. Reported(queue, wire, pending', flights, calls)
    <2>1. Len(pending') = 0
      BY <1>1, Zenon
    <2>2. \A k \in 1..Len(pending') :
            k \in 1..Len(pending) /\ pending'[k] = pending[k]
      BY <2>1, SMTT(30)
    <2> QED
      BY <1>2, <2>2, FewerReported, Zenon
  <1>4. TypeOK'
    BY <1>1, SMTT(30) DEF Inv, TypeOK
  <1> QED
    BY <1>1, <1>3, <1>4, Zenon DEF Inv

LEMMA StutterKeeps ==
  ASSUME Inv, UNCHANGED <<queue, wire, generation, requested, pending, flights, calls>>,
         subscribed' \subseteq Jobs
  PROVE  Inv'
  BY Zenon DEF Inv, TypeOK

LEMMA StepKeeps ==
  ASSUME Inv, [Next]_vars
  PROVE  Inv'
  <1>1. ASSUME NEW s \in Speeches, Speak(s) PROVE Inv'
    BY <1>1, SpeakKeeps, Zenon
  <1>2. CASE Plain
    BY <1>2, PlainKeeps, Zenon
  <1>3. CASE StopOutput
    BY <1>3, StopOutputKeeps, Zenon
  <1>4. CASE Close
    BY <1>4, CloseKeeps, Zenon
  <1>5. CASE Abort
    BY <1>5, StutterKeeps, Zenon DEF Abort, scheduler, Inv, TypeOK
  <1>6. CASE Start
    BY <1>6, LoopKeeps, Zenon DEF Start, scheduler
  <1>7. CASE Continue
    BY <1>7, LoopKeeps, Zenon DEF Continue, scheduler
  <1>8. ASSUME NEW j \in Jobs, TouchJob(j) PROVE Inv'
    BY <1>8, StutterKeeps, Zenon DEF TouchJob, output, Inv, TypeOK
  <1>9. ASSUME NEW j \in Jobs, Progress(j) PROVE Inv'
    BY <1>9, ProgressKeeps, Zenon
  <1>10. ASSUME NEW j \in Jobs \cup {None}, Announce("approval", j) PROVE Inv'
    BY <1>10, AnnounceKeeps, Zenon DEF News
  <1>11. ASSUME NEW j \in Jobs, Announce("terminal", j) PROVE Inv'
    BY <1>11, AnnounceKeeps, Zenon DEF News
  <1>12. CASE TimerFires
    BY <1>12, FlushPendingKeeps, Zenon DEF TimerFires
  <1>13. CASE Flush
    BY <1>13, FlushPendingKeeps, Zenon DEF Flush, Calls
  <1>14. CASE GoesOn
    BY <1>14, GoOnKeeps, Zenon DEF GoesOn
  <1>15. CASE CloseScheduler
    BY <1>15, CloseSchedulerKeeps, Zenon
  <1>16. CASE Tick
    BY <1>16, StutterKeeps, Zenon DEF Tick, output, scheduler, Inv, TypeOK
  <1>17. CASE UNCHANGED vars
    BY <1>17, StutterKeeps, Zenon DEF vars, output, scheduler, Inv, TypeOK
  <1> QED
    BY <1>1, <1>2, <1>3, <1>4, <1>5, <1>6, <1>7, <1>8, <1>9, <1>10, <1>11, <1>12,
       <1>13, <1>14, <1>15, <1>16, <1>17, ZenonT(30) DEF Next

-----------------------------------------------------------------------------
(* The theorems *)

\* What is queued, pending and on its way keeps to the promises the three
\* theorems below make of what is written, whatever order the calls, the events,
\* the timer and the drains come in.
THEOREM Invariance == Spec => []Inv
  BY InitInv, StepKeeps, PTL DEF Spec

\* WireOrder holds of the serialized writer for any calls, however many drains
\* run at a time: an urgent frame is only overtaken by urgent ones, and frames of
\* one urgency are written in the order of the calls.
THEOREM WireOrderHolds == Spec => []WireOrder
  <1>1. Inv => WireOrder
    <2> SUFFICES ASSUME Inv PROVE WireOrder
      BY Zenon
    <2>1. DOMAIN wire = 1..Len(wire)
      BY SMTT(30) DEF Inv, TypeOK
    <2> QED
      BY <2>1, Zenon DEF Inv, Ordered, WireOrder
  <1> QED
    BY <1>1, Invariance, PTL

\* StopSilences holds: once stopOutput is called no speech requested before it
\* is written, neither queued nor between two fragments of one speak.
THEOREM StopSilencesHolds == Spec => []StopSilences
  <1>1. Inv => StopSilences
    <2> SUFFICES ASSUME Inv PROVE StopSilences
      BY Zenon
    <2>1. DOMAIN wire = 1..Len(wire)
      BY DEF Inv, TypeOK
    <2> QED
      BY <2>1, ZenonT(30) DEF Inv, Silenced, Follows, StopSilences
  <1> QED
    BY <1>1, Invariance, PTL

\* NoStaleProgress holds: after an approval or the outcome of a job is written,
\* older progress of the job is written only if flushPending had taken it from
\* the pending updates before the event came.
THEOREM NoStaleProgressHolds == Spec => []NoStaleProgress
  <1>1. Inv => NoStaleProgress
    <2> SUFFICES ASSUME Inv PROVE NoStaleProgress
      BY Zenon
    <2>1. DOMAIN wire = 1..Len(wire)
      BY DEF Inv, TypeOK
    <2> QED
      BY <2>1, Zenon DEF Inv, Reported, Stale, News, NoStaleProgress
  <1> QED
    BY <1>1, Invariance, PTL

-----------------------------------------------------------------------------
(* The sessions and their providers.  RtcSession has variables of its own;    *)
(* only the clock and the bound on it have the names of RtcOutput's.          *)

CONSTANTS Ids, Rooms, FailureThreshold, MaxActive, Inactivity, TokenLives,
          DrainTime, MaxSessions, LastRequest
VARIABLES sessions, registry, plugin, handles, composed, stream, asr

S == INSTANCE RtcSession

Sessions == [id : Ids, room : Rooms, live : BOOLEAN,
             response : {"open", "ended", "closed"}, extras : {0, 1},
             idleAt : Nat, tokenAt : Nat]
Plugins == [active : SUBSET Ids, failures : Nat, aborted : BOOLEAN, drain : Int,
            mounted : BOOLEAN]
Compositions == [aborted : BOOLEAN, frames : Nat]

SessionsTyped ==
  /\ now \in Nat
  /\ sessions \in Seq(Sessions) /\ 1..Len(sessions) \subseteq S!Numbers
  /\ registry \in [Ids -> 0..Len(sessions)]
  /\ plugin \in Plugins
  /\ DOMAIN handles = Ids
  /\ composed \in [Ids -> Compositions]
  /\ DOMAIN stream = S!Numbers
  /\ DOMAIN asr = Ids

\* A consumer's handle is tracked for i.
Consumed(i) == \E h \in handles[i] : h[1] = "consumer"

\* Handles are of active ids, and active ids are registered; once the plugin
\* has shut down there are neither.
Owned ==
  /\ \A i \in Ids : Consumed(i) => i \in plugin.active
  /\ \A i \in plugin.active : registry[i] # 0
  /\ plugin.aborted => plugin.active = {}

\* What the providers have open is tracked, and so is the consumer whose frames
\* recognition reads or is going to read, unless that was aborted.
Tracked ==
  /\ \A g \in 1..Len(sessions) :
       stream[g] = "open" => <<"consumer", g>> \in handles[sessions[g].id]
  /\ \A i \in Ids :
       /\ asr[i] = "open" => Consumed(i)
       /\ asr[i] \in {"opening", "again"} => composed[i].frames # 0
       /\ composed[i].frames # 0 /\ ~composed[i].aborted => Consumed(i)

SInv == SessionsTyped /\ Owned /\ Tracked

-----------------------------------------------------------------------------
(* Steps of the sessions *)

\* degrade touches nothing but the failures.
LEMMA DegradeKeeps ==
  ASSUME NEW p \in Plugins
  PROVE  /\ S!Degrade(p) \in Plugins
         /\ S!Degrade(p).active = p.active
         /\ S!Degrade(p).aborted = p.aborted
  BY DEF S!Degrade, Plugins

\* Sessions keep their ids.
SameIds ==
  /\ sessions' \in Seq(Sessions) /\ Len(sessions') = Len(sessions)
  /\ \A g \in 1..Len(sessions) : sessions'[g].id = sessions[g].id

\* A session that was created has an id and a stream.
LEMMA SessionTyped ==
  ASSUME SessionsTyped, NEW g \in 1..Len(sessions)
  PROVE  g \in S!Numbers /\ sessions[g] \in Sessions /\ sessions[g].id \in Ids
  <1>1. g \in S!Numbers /\ sessions[g] \in Sessions
    BY SMTT(30) DEF SessionsTyped
  <1> QED
    BY <1>1, Zenon DEF Sessions

\* A change of one session that keeps its id.
LEMMA OneSession ==
  ASSUME SessionsTyped, NEW g \in 1..Len(sessions), NEW s \in Sessions,
         s.id = sessions[g].id, sessions' = [sessions EXCEPT ![g] = s]
  PROVE  SameIds
  BY SMTT(30) DEF SameIds, SessionsTyped

\* A step that neither tracks nor closes handles.  It may close streams and
\* abort compositions, and open a recognition that was not aborted.
LEMMA QuietKeeps ==
  ASSUME SInv, now' \in Nat, SameIds, UNCHANGED <<registry, handles>>,
         plugin' \in Plugins, plugin'.active = plugin.active,
         plugin'.aborted = plugin.aborted,
         composed' \in [Ids -> Compositions],
         \A i \in Ids : /\ composed'[i].frames = composed[i].frames
                        /\ composed[i].aborted => composed'[i].aborted,
         DOMAIN stream' = S!Numbers, DOMAIN asr' = Ids,
         \A g \in S!Numbers : stream'[g] = "open" => stream[g] = "open",
         \A i \in Ids :
           /\ asr'[i] = "open" =>
                asr[i] = "open" \/ (composed[i].frames # 0 /\ ~composed[i].aborted)
           /\ asr'[i] \in {"opening", "again"} => asr[i] \in {"opening", "again"}
  PROVE  SInv'
  <1>1. SessionsTyped'
    BY Zenon DEF SInv, SessionsTyped, SameIds
  <1>2. \A i \in Ids : Consumed(i)' <=> Consumed(i)
    BY Zenon DEF Consumed
  <1>3. Owned'
    BY <1>2, Zenon DEF SInv, Owned
  <1>4. \A g \in 1..Len(sessions) : g \in S!Numbers
    BY Zenon DEF SInv, SessionsTyped
  <1>5. \A g \in 1..Len(sessions') :
          stream'[g] = "open" => <<"consumer", g>> \in handles'[sessions'[g].id]
    BY <1>4, Zenon DEF SInv, Tracked, SameIds
  <1>6. \A i \in Ids :
       /\ asr'[i] = "open" => Consumed(i)'
       /\ asr'[i] \in {"opening", "again"} => composed'[i].frames # 0
       /\ composed'[i].frames # 0 /\ ~composed'[i].aborted => Consumed(i)'
    BY <1>2, SMTT(30) DEF SInv, Tracked
  <1> QED
    BY <1>1, <1>3, <1>5, <1>6, Zenon DEF SInv, Tracked

\* Closing the handles of a set of ids that are then no longer active.
LEMMA ClosingKeeps ==
  ASSUME SInv, NEW set \in SUBSET Ids, S!CloseHandles(set), now' = now, SameIds,
         registry' \in [Ids -> 0..Len(sessions)],
         plugin' \in Plugins, plugin'.active = plugin.active \ set,
         plugin'.aborted => plugin'.active = {},
         \A i \in plugin.active \ set : registry'[i] # 0
  PROVE  SInv'
  <1> DEFINE hit == {i \in set : S!Aborts(handles[i])}
             gone == {g \in S!Numbers :
                        \E i \in set : <<"consumer", g>> \in handles[i]}
                     \cup {composed[i].frames : i \in {j \in hit : asr[j] = "open"}}
  <1>1. /\ handles' = [i \in Ids |-> IF i \in set THEN {} ELSE handles[i]]
        /\ composed' = [i \in Ids |->
             [composed[i] EXCEPT !.aborted = @ \/ i \in hit]]
        /\ stream' = [g \in S!Numbers |->
             IF g \in gone THEN "closed" ELSE stream[g]]
        /\ asr' = [i \in Ids |-> IF i \in hit /\ asr[i] = "open" THEN "done"
                                 ELSE asr[i]]
    BY Zenon DEF S!CloseHandles
  <1>2. \A i \in Ids : i \in hit <=> i \in set /\ Consumed(i)
    BY Zenon DEF S!Aborts, Consumed
  <1>3. \A g \in S!Numbers, i \in set : <<"consumer", g>> \in handles[i] => g \in gone
    BY Zenon
  <1> HIDE DEF hit, gone
  <1>4. \A i \in Ids : Consumed(i)' <=> Consumed(i) /\ i \notin set
    BY <1>1, Zenon DEF Consumed
  <1>5. \A i \in Ids :
          /\ composed'[i] \in Compositions
          /\ composed'[i].frames = composed[i].frames
          /\ composed'[i].aborted = (composed[i].aborted \/ i \in hit)
    BY <1>1, ZenonT(30) DEF SInv, SessionsTyped, Compositions
  <1>6. SessionsTyped'
    BY <1>1, <1>5, Zenon DEF SInv, SessionsTyped, SameIds
  <1>7. Owned'
    BY <1>4, Zenon DEF SInv, Owned
  <1>8. ASSUME NEW g \in 1..Len(sessions'), stream'[g] = "open"
        PROVE  <<"consumer", g>> \in handles'[sessions'[g].id]
    <2>1. g \in S!Numbers /\ g \in 1..Len(sessions)
            /\ sessions[g].id \in Ids /\ sessions'[g].id = sessions[g].id
      BY SessionTyped, Zenon DEF SInv, SameIds
    <2>2. stream[g] = "open" /\ g \notin gone
      BY <1>1, <1>8, <2>1, Zenon
    <2>3. <<"consumer", g>> \in handles[sessions[g].id]
      BY <2>1, <2>2, Zenon DEF SInv, Tracked
    <2>4. sessions[g].id \notin set
      BY <1>3, <2>1, <2>2, <2>3, Zenon
    <2> QED
      BY <1>1, <2>1, <2>3, <2>4, Zenon
  <1>9. ASSUME NEW i \in Ids
        PROVE  /\ asr'[i] = "open" => Consumed(i)'
               /\ asr'[i] \in {"opening", "again"} => composed'[i].frames # 0
               /\ composed'[i].frames # 0 /\ ~composed'[i].aborted => Consumed(i)'
    <2>1. asr'[i] = "open" => asr[i] = "open" /\ i \notin hit
      BY <1>1, Zenon
    <2>2. asr'[i] \in {"opening", "again"} => asr[i] \in {"opening", "again"}
      BY <1>1, Zenon
    <2>3. i \notin hit /\ Consumed(i) => Consumed(i)'
      BY <1>2, <1>4, Zenon
    <2> QED
      BY <1>5, <2>1, <2>2, <2>3, ZenonT(30) DEF SInv, Tracked
  <1> QED
    BY <1>6, <1>7, <1>8, <1>9, Zenon DEF SInv, Tracked

\* Closing a session: its id is no longer registered or active, and its handles
\* are closed if the id was active.
LEMMA EndingKeeps ==
  ASSUME SInv, NEW i \in Ids, NEW reason, SameIds, now' = now,
         registry' = [registry EXCEPT ![i] = 0],
         plugin' = S!Observed(i, reason),
         S!CloseHandles({i} \cap plugin.active)
  PROVE  SInv'
  <1> DEFINE over == [plugin EXCEPT !.active = @ \ {i}]
             set == {i} \cap plugin.active
  <1>1. plugin \in Plugins /\ registry \in [Ids -> 0..Len(sessions)]
          /\ Len(sessions) \in Nat
    BY DEF SInv, SessionsTyped
  <1>2. /\ over \in Plugins /\ over.active = plugin.active \ {i}
        /\ over.aborted = plugin.aborted
    BY <1>1, Zenon DEF Plugins
  <1>3. plugin' \in {over, S!Degrade(over)}
    BY Zenon DEF S!Observed
  <1> HIDE DEF over
  <1>4. /\ plugin' \in Plugins /\ plugin'.active = plugin.active \ {i}
        /\ plugin'.aborted = plugin.aborted
    BY <1>2, <1>3, DegradeKeeps, Zenon
  <1>5. plugin.active \ {i} = plugin.active \ set /\ set \in SUBSET Ids
    BY Zenon
  <1>6. registry' \in [Ids -> 0..Len(sessions)]
          /\ \A j \in plugin.active \ set : registry'[j] # 0
    BY <1>1, <1>5, SMTT(30) DEF SInv, Owned, Plugins
  <1>7. plugin'.aborted => plugin'.active = {}
    BY <1>4, Zenon DEF SInv, Owned
  <1> HIDE DEF set
  <1> QED
    BY <1>4, <1>5, <1>6, <1>7, ClosingKeeps, Zenon DEF set

\* Ending a session keeps its id.
LEMMA EndedKeeps ==
  ASSUME NEW s \in Sessions
  PROVE  S!Ended(s) \in Sessions /\ S!Ended(s).id = s.id
  <1> DEFINE i == [s EXCEPT !.live = FALSE]
             j == [i EXCEPT !.extras = 0]
             k == [j EXCEPT !.response = S!Disposed(s.response)]
  <1>1. i \in Sessions /\ i.id = s.id /\ i.response = s.response
    BY Zenon DEF Sessions
  <1>2. S!Ended(s) = k
    BY Zenon DEF S!Ended, Sessions
  <1> HIDE DEF i
  <1>3. j \in Sessions /\ j.id = s.id
    BY <1>1, Zenon DEF Sessions
  <1>4. S!Disposed(s.response) \in {"open", "ended", "closed"}
    BY Zenon DEF S!Disposed, Sessions
  <1> HIDE DEF j
  <1>5. k \in Sessions /\ k.id = s.id
    BY <1>3, <1>4, Zenon DEF Sessions
  <1> QED
    BY <1>2, <1>5, Zenon

LEMMA SessionCloseKeeps ==
  ASSUME SInv, NEW g \in 1..Len(sessions), NEW reason, S!Close(g, reason)
  PROVE  SInv'
  <1>1. sessions[g] \in Sessions /\ S!IdOf(g) \in Ids
    BY SessionTyped, Zenon DEF SInv, S!IdOf
  <1>2. SameIds
    BY <1>1, EndedKeeps, OneSession, ZenonT(30) DEF SInv, S!Close
  <1> QED
    BY <1>1, <1>2, EndingKeeps, Zenon DEF S!Close

LEMMA ForceCloseKeeps ==
  ASSUME SInv, S!ForceClose
  PROVE  SInv'
  <1> DEFINE late == IF plugin.active = {} THEN plugin ELSE S!Degrade(plugin)
  <1>1. plugin \in Plugins /\ Len(sessions) \in Nat
          /\ \A g \in 1..Len(sessions) : sessions[g] \in Sessions
          /\ DOMAIN sessions = 1..Len(sessions)
    BY DEF SInv, SessionsTyped
  <1>2. late \in Plugins
    BY <1>1, DegradeKeeps, Zenon
  <1>3. plugin' = [late EXCEPT !.aborted = TRUE, !.active = {}]
    BY Zenon DEF S!ForceClose
  <1> HIDE DEF late
  <1>4. plugin' \in Plugins /\ plugin'.active = {}
    BY <1>2, <1>3, Zenon DEF Plugins
  <1> DEFINE e(g) == IF g \in {registry[i] : i \in S!Registered}
                       THEN S!Ended(sessions[g]) ELSE sessions[g]
  <1>5. sessions' = [g \in 1..Len(sessions) |-> e(g)]
    BY <1>1, SMTT(30) DEF S!ForceClose
  <1>6. \A g \in 1..Len(sessions) : e(g) \in Sessions /\ e(g).id = sessions[g].id
    BY <1>1, EndedKeeps, Zenon
  <1> HIDE DEF e
  <1>8. SameIds
    BY <1>1, <1>5, <1>6, SMTT(30) DEF SameIds
  <1>9. /\ S!CloseHandles(Ids) /\ now' = now
        /\ registry' \in [Ids -> 0..Len(sessions)]
    BY <1>1, SMTT(30) DEF S!ForceClose
  <1>10. plugin.active \ Ids = {}
    BY <1>1, Zenon DEF Plugins
  <1> QED
    BY <1>4, <1>8, <1>9, <1>10, ClosingKeeps, ZenonT(30)

LEMMA ResponseClosedKeeps ==
  ASSUME SInv, NEW g \in 1..Len(sessions), S!ResponseClosed(g)
  PROVE  SInv'
  <1> DEFINE h == registry[S!IdOf(g)]
             s == [sessions[g] EXCEPT !.response = "closed"]
             after == [sessions EXCEPT ![g] = s]
  <1>1. SessionsTyped /\ sessions[g] \in Sessions /\ S!IdOf(g) \in Ids
          /\ h \in 0..Len(sessions) /\ Len(sessions) \in Nat
    BY SessionTyped DEF SInv, SessionsTyped, S!IdOf
  <1>2. s \in Sessions /\ s.id = sessions[g].id
    BY <1>1, Zenon DEF Sessions
  <1>3. after = [sessions EXCEPT ![g].response = "closed"]
    BY Zenon
  <1> HIDE DEF s
  <1>4. /\ after \in Seq(Sessions) /\ Len(after) = Len(sessions)
        /\ \A k \in 1..Len(sessions) : after[k].id = sessions[k].id
    BY <1>1, <1>2, SMTT(30) DEF SessionsTyped
  <1>5. CASE h = 0
    <2>1. sessions' = after
            /\ UNCHANGED <<now, registry, plugin, handles, composed, stream, asr>>
      BY <1>3, <1>5, Zenon DEF S!ResponseClosed
    <2>2. SameIds
      BY <1>4, <2>1, Zenon DEF SameIds
    <2> QED
      BY <1>1, <2>1, <2>2, QuietKeeps, Zenon DEF SInv, SessionsTyped
  <1>6. CASE h # 0
    <2>1. /\ sessions' = [after EXCEPT ![h] = S!Ended(after[h])] /\ now' = now
          /\ registry' = [registry EXCEPT ![S!IdOf(g)] = 0]
          /\ plugin' = S!Observed(S!IdOf(g), "user_exit")
          /\ S!CloseHandles({S!IdOf(g)} \cap plugin.active)
      BY <1>3, <1>6, Zenon DEF S!ResponseClosed
    <2>2. h \in 1..Len(sessions)
      BY <1>1, <1>6, SMTT(30)
    <2>3. after[h] \in Sessions
      BY <1>4, <2>2, SMTT(30)
    <2> HIDE DEF after, h
    <2>4. SameIds
      BY <1>4, <2>1, <2>2, <2>3, EndedKeeps, SMTT(30) DEF SameIds
    <2> QED
      BY <1>1, <2>1, <2>4, EndingKeeps, Zenon
  <1> QED
    BY <1>5, <1>6, Zenon

\* A start that creates a session, with its output tracked at once.
LEMMA CreateKeeps ==
  ASSUME SInv, Inactivity \in Nat, TokenLives \subseteq Nat, NEW i \in Ids,
         NEW room \in Rooms, NEW life \in TokenLives, S!Create(i, room, life)
  PROVE  SInv'
  <1> DEFINE g == Len(sessions) + 1
             new == S!NewSession(i, room, life)
             admitted == [plugin EXCEPT !.active = @ \cup {i}]
  <1>1. /\ sessions' = Append(sessions, new)
        /\ registry' = [registry EXCEPT ![i] = g]
        /\ plugin' \in {admitted, S!Degrade(admitted)}
        /\ stream' \in {[stream EXCEPT ![g] = "joining"],
                        [stream EXCEPT ![g] = "none"]}
        /\ handles' = [handles EXCEPT ![i] = @ \cup {<<"output", g>>}]
        /\ g \in S!Numbers /\ ~plugin.aborted
        /\ UNCHANGED <<now, composed, asr>>
    BY Zenon DEF S!Create, S!Compose, S!CanStart
  <1>2. SessionsTyped /\ Len(sessions) \in Nat /\ g \in Nat /\ g # 0
          /\ plugin \in Plugins /\ now \in Nat /\ life \in Nat
    BY DEF SInv, SessionsTyped
  <1>3. new \in Sessions
    <2> DEFINE yes == TRUE
    <2>1. new = [id |-> i, room |-> room, live |-> yes, response |-> "open",
                 extras |-> 0, idleAt |-> now + Inactivity, tokenAt |-> now + life]
      BY Zenon DEF S!NewSession
    <2>2. yes \in BOOLEAN /\ now + Inactivity \in Nat /\ now + life \in Nat
      BY <1>2, SMTT(30)
    <2> HIDE DEF yes, new
    <2> QED
      BY <2>1, <2>2, Zenon DEF Sessions
  <1> HIDE DEF new
  <1>4. /\ admitted \in Plugins /\ admitted.active = plugin.active \cup {i}
        /\ admitted.aborted = plugin.aborted
    BY <1>2, Zenon DEF Plugins
  <1> HIDE DEF admitted
  <1>5. /\ plugin' \in Plugins /\ plugin'.active = plugin.active \cup {i}
        /\ ~plugin'.aborted
    <2>1. plugin' \in Plugins /\ plugin'.active = plugin.active \cup {i}
            /\ plugin'.aborted = plugin.aborted
      BY <1>1, <1>4, DegradeKeeps, Zenon
    <2> QED
      BY <1>1, <2>1, Zenon
  <1>6. /\ sessions' \in Seq(Sessions) /\ Len(sessions') = g
        /\ \A k \in 1..Len(sessions) : sessions'[k] = sessions[k]
    BY <1>1, <1>2, <1>3, SMTT(30) DEF SessionsTyped
  <1>7. \A k \in 1..g : k = g \/ k \in 1..Len(sessions)
    BY <1>2, SMTT(30)
  <1>8. /\ registry' \in [Ids -> 0..g] /\ registry'[i] = g
        /\ \A j \in Ids \ {i} : registry'[j] = registry[j]
    BY <1>1, <1>2, SMTT(30) DEF SessionsTyped
  <1>9. /\ DOMAIN handles' = Ids
        /\ handles'[i] = handles[i] \cup {<<"output", g>>}
        /\ \A j \in Ids \ {i} : handles'[j] = handles[j]
    BY <1>1, <1>2, Zenon DEF SessionsTyped
  <1>10. /\ DOMAIN stream' = S!Numbers /\ stream'[g] # "open"
         /\ \A k \in S!Numbers \ {g} : stream'[k] = stream[k]
    BY <1>1, <1>2, Zenon DEF SessionsTyped
  <1>11. 1..g \subseteq S!Numbers
    BY <1>1, <1>2, <1>7, Zenon DEF SessionsTyped
  <1> HIDE DEF g
  <1>12. SessionsTyped'
    BY <1>1, <1>2, <1>5, <1>6, <1>8, <1>9, <1>10, <1>11, ZenonT(30) DEF SessionsTyped
  <1>13. \A j \in Ids : Consumed(j)' <=> Consumed(j)
    BY <1>9, SMTT(30) DEF Consumed
  <1>14. Owned'
    BY <1>2, <1>5, <1>8, <1>13, Zenon DEF SInv, Owned, Plugins
  <1>15. ASSUME NEW k \in 1..Len(sessions'), stream'[k] = "open"
         PROVE  <<"consumer", k>> \in handles'[sessions'[k].id]
    <2>1. k \in 1..Len(sessions) /\ k # g
      BY <1>6, <1>7, <1>10, <1>15, Zenon
    <2>2. k \in S!Numbers /\ sessions[k].id \in Ids
      BY <1>2, <2>1, SessionTyped, Zenon
    <2>3. <<"consumer", k>> \in handles[sessions[k].id]
      BY <1>10, <1>15, <2>1, <2>2, Zenon DEF SInv, Tracked
    <2> QED
      BY <1>6, <1>9, <2>1, <2>2, <2>3, ZenonT(30)
  <1> QED
    BY <1>1, <1>12, <1>13, <1>14, <1>15, Zenon DEF SInv, Tracked

\* A join that is answered: the handle is tracked under an active id, or the
\* composition of the id is aborted.
LEMMA JoinedKeeps ==
  ASSUME SInv, NEW g \in 1..Len(sessions), S!Joined(g)
  PROVE  SInv'
  <1> SUFFICES ASSUME NEW i, i = sessions[g].id PROVE SInv'
    BY Zenon
  <1> DEFINE lost == composed[i].aborted \/ ~S!Tracks(i)
             read == IF composed[i].frames = 0 THEN g ELSE composed[i].frames
             c == [[composed[i] EXCEPT !.aborted = lost] EXCEPT !.frames = read]
  <1>1. SessionsTyped /\ g \in S!Numbers /\ i \in Ids /\ g \in Nat /\ g # 0
          /\ composed[i] \in Compositions /\ composed[i].frames \in Nat
    <2>1. SessionsTyped /\ g \in S!Numbers /\ i \in Ids
      BY SessionTyped, Zenon DEF SInv
    <2>2. g \in Nat /\ g # 0 /\ composed[i] \in Compositions
      BY <2>1, SMTT(30) DEF SessionsTyped
    <2> QED
      BY <2>1, <2>2, Zenon DEF Compositions
  <1>2. /\ stream' = [stream EXCEPT ![g] = IF S!Tracks(i) THEN "open" ELSE "closed"]
        /\ handles' = IF S!Tracks(i)
             THEN [handles EXCEPT ![i] = @ \cup {<<"consumer", g>>}] ELSE handles
        /\ asr' = IF S!PipelineStarts(i) THEN [asr EXCEPT ![i] = "opening"] ELSE asr
        /\ UNCHANGED <<now, sessions, registry, plugin>>
    BY Zenon DEF S!Joined, S!IdOf
  <1>3. composed' = [composed EXCEPT ![i] = c]
    BY <1>1, Zenon DEF S!Joined, S!IdOf, SessionsTyped
  <1>4. read \in Nat /\ read # 0 /\ lost \in BOOLEAN
    BY <1>1, Zenon
  <1>5. lost <=> composed[i].aborted \/ ~S!Tracks(i)
    BY Zenon
  <1> HIDE DEF lost, read
  <1>6. c \in Compositions /\ c.frames = read /\ c.aborted = lost
    BY <1>1, <1>4, Zenon DEF Compositions
  <1> HIDE DEF c
  <1>7. /\ composed' \in [Ids -> Compositions] /\ composed'[i] = c
        /\ \A j \in Ids \ {i} : composed'[j] = composed[j]
    BY <1>1, <1>3, <1>6, Zenon DEF SessionsTyped
  <1>8. /\ DOMAIN handles' = Ids /\ \A j \in Ids : handles[j] \subseteq handles'[j]
        /\ \A j \in Ids \ {i} : handles'[j] = handles[j]
        /\ S!Tracks(i) => handles'[i] = handles[i] \cup {<<"consumer", g>>}
        /\ ~S!Tracks(i) => handles' = handles
    BY <1>1, <1>2, Zenon DEF SessionsTyped
  <1>9. /\ DOMAIN stream' = S!Numbers
        /\ stream'[g] = IF S!Tracks(i) THEN "open" ELSE "closed"
        /\ \A k \in S!Numbers \ {g} : stream'[k] = stream[k]
    BY <1>1, <1>2, Zenon DEF SessionsTyped
  <1>10. /\ DOMAIN asr' = Ids /\ \A j \in Ids \ {i} : asr'[j] = asr[j]
         /\ asr'[i] = IF S!PipelineStarts(i) THEN "opening" ELSE asr[i]
    BY <1>1, <1>2, Zenon DEF SessionsTyped
  <1>11. S!Tracks(i) => i \in plugin.active
    BY Zenon DEF S!Tracks
  <1>12. SessionsTyped'
    BY <1>1, <1>2, <1>7, <1>8, <1>9, <1>10, ZenonT(30) DEF SessionsTyped
  <1>13. \A j \in Ids : Consumed(j) => Consumed(j)'
    BY <1>8, Zenon DEF Consumed
  <1>14. S!Tracks(i) => Consumed(i)'
    <2>1. <<"consumer", g>>[1] = "consumer"
      BY Zenon
    <2> QED
      BY <1>1, <1>8, <2>1, Zenon DEF Consumed
  <1>15. \A j \in Ids : Consumed(j)' => Consumed(j) \/ (j = i /\ S!Tracks(i))
    BY <1>8, Zenon DEF Consumed
  <1>16. Owned'
    BY <1>2, <1>11, <1>15, Zenon DEF SInv, Owned
  <1>17. ASSUME NEW k \in 1..Len(sessions'), stream'[k] = "open"
         PROVE  <<"consumer", k>> \in handles'[sessions'[k].id]
    <2>1. CASE k = g
      BY <1>1, <1>2, <1>8, <1>9, <1>17, <2>1, ZenonT(30)
    <2>2. CASE k # g
      <3>1. k \in S!Numbers /\ sessions[k].id \in Ids /\ k \in 1..Len(sessions)
        BY <1>1, <1>2, SessionTyped, Zenon
      <3>2. <<"consumer", k>> \in handles[sessions[k].id]
        BY <1>9, <1>17, <2>2, <3>1, Zenon DEF SInv, Tracked
      <3> QED
        BY <1>2, <1>8, <3>1, <3>2, ZenonT(30)
    <2> QED
      BY <2>1, <2>2, Zenon
  <1>18. ASSUME NEW j \in Ids
         PROVE  /\ asr'[j] = "open" => Consumed(j)'
                /\ asr'[j] \in {"opening", "again"} => composed'[j].frames # 0
                /\ composed'[j].frames # 0 /\ ~composed'[j].aborted => Consumed(j)'
    <2>1. CASE j = i
      <3>1. asr'[j] = "open" => Consumed(j)'
        BY <1>10, <1>13, <2>1, Zenon DEF SInv, Tracked
      <3>2. composed'[j].frames # 0
        BY <1>4, <1>6, <1>7, <2>1, Zenon
      <3>3. ~composed'[j].aborted => Consumed(j)'
        BY <1>5, <1>6, <1>7, <1>14, <2>1, Zenon
      <3> QED
        BY <3>1, <3>2, <3>3, Zenon
    <2>2. CASE j # i
      BY <1>7, <1>10, <1>13, <2>2, ZenonT(30) DEF SInv, Tracked
    <2> QED
      BY <2>1, <2>2, Zenon
  <1> QED
    BY <1>12, <1>16, <1>17, <1>18, Zenon DEF SInv, Tracked

\* What a step that changes the plugin's failures, its drain or its mount leaves.
LEMMA PluginKeeps ==
  ASSUME SInv, UNCHANGED <<now, sessions, registry, handles, composed>>,
         plugin' \in Plugins, plugin'.active = plugin.active,
         plugin'.aborted = plugin.aborted,
         DOMAIN stream' = S!Numbers, DOMAIN asr' = Ids,
         \A g \in S!Numbers : stream'[g] = "open" => stream[g] = "open",
         \A i \in Ids :
           /\ asr'[i] = "open" => asr[i] = "open"
           /\ asr'[i] \in {"opening", "again"} => asr[i] \in {"opening", "again"}
  PROVE  SInv'
  <1>1. SameIds
    BY ZenonT(30) DEF SInv, SessionsTyped, SameIds
  <1> QED
    BY <1>1, QuietKeeps, Zenon DEF SInv, SessionsTyped

\* The steps of the plugin and of the routes that touch neither sessions nor
\* handles.
LEMMA RoutesKeep ==
  ASSUME SInv, DrainTime \in Nat,
         \/ \E ok \in BOOLEAN : S!Mount(ok)
         \/ \E i \in Ids, room \in Rooms : S!Refuse(i, room)
         \/ S!Drain
  PROVE  SInv'
  <1>1. plugin \in Plugins /\ DOMAIN stream = S!Numbers /\ DOMAIN asr = Ids
          /\ now \in Nat
    BY Zenon DEF SInv, SessionsTyped
  <1>2. UNCHANGED <<now, sessions, registry, handles, composed, stream, asr>>
    BY Zenon DEF S!Mount, S!Refuse, S!Drain
  <1> DEFINE up == [plugin EXCEPT !.mounted = TRUE]
             draining == [plugin EXCEPT !.drain = now + DrainTime]
  <1>3. plugin' \in {S!Degrade(plugin), up, draining}
    BY Zenon DEF S!Mount, S!Refuse, S!Drain
  <1>4. /\ up \in Plugins /\ up.active = plugin.active
        /\ up.aborted = plugin.aborted
    BY <1>1, Zenon DEF Plugins
  <1>5. /\ draining \in Plugins /\ draining.active = plugin.active
        /\ draining.aborted = plugin.aborted
    BY <1>1, SMTT(30) DEF Plugins
  <1> HIDE DEF up, draining
  <1>6. plugin' \in Plugins /\ plugin'.active = plugin.active
          /\ plugin'.aborted = plugin.aborted
    BY <1>1, <1>3, <1>4, <1>5, DegradeKeeps, Zenon
  <1> QED
    BY <1>1, <1>2, <1>6, PluginKeeps, Zenon

\* A second writer comes or goes.
LEMMA WritersKeep ==
  ASSUME SInv, NEW g \in 1..Len(sessions), NEW n \in {0, 1},
         sessions' = [sessions EXCEPT ![g].extras = n],
         UNCHANGED <<now, registry, plugin, handles, composed, stream, asr>>
  PROVE  SInv'
  <1> DEFINE s == [sessions[g] EXCEPT !.extras = n]
  <1>1. SessionsTyped /\ sessions[g] \in Sessions
    BY SessionTyped, Zenon DEF SInv
  <1>2. s \in Sessions /\ s.id = sessions[g].id
    BY <1>1, Zenon DEF Sessions
  <1>3. sessions' = [sessions EXCEPT ![g] = s]
    BY Zenon
  <1> HIDE DEF s
  <1>4. SameIds
    BY <1>1, <1>2, <1>3, OneSession, ZenonT(30)
  <1> QED
    BY <1>1, <1>4, QuietKeeps, Zenon DEF SessionsTyped

LEMMA JoinFailsKeeps ==
  ASSUME SInv, NEW g \in 1..Len(sessions), S!JoinFails(g)
  PROVE  SInv'
  <1>1. plugin \in Plugins /\ DOMAIN stream = S!Numbers /\ DOMAIN asr = Ids
    BY Zenon DEF SInv, SessionsTyped
  <1>2. /\ stream' = [stream EXCEPT ![g] = "closed"]
        /\ plugin' = S!Degrade(plugin)
        /\ UNCHANGED <<now, sessions, registry, handles, composed, asr>>
    BY Zenon DEF S!JoinFails
  <1>3. DOMAIN stream' = S!Numbers
          /\ \A k \in S!Numbers : stream'[k] = "open" => stream[k] = "open"
    BY <1>1, <1>2, Zenon
  <1> QED
    BY <1>1, <1>2, <1>3, DegradeKeeps, PluginKeeps, Zenon

LEMMA AudioEndsKeeps ==
  ASSUME SInv, NEW g \in 1..Len(sessions), NEW error \in BOOLEAN,
         S!AudioEnds(g, error)
  PROVE  SInv'
  <1> SUFFICES ASSUME NEW i, i = sessions[g].id PROVE SInv'
    BY Zenon
  <1> DEFINE lost == composed[i].aborted \/ error
             c == [composed[i] EXCEPT !.aborted = lost]
  <1>1. SessionsTyped /\ i \in Ids /\ composed[i] \in Compositions
    BY SessionTyped, Zenon DEF SInv, SessionsTyped
  <1>2. /\ stream' = [stream EXCEPT ![g] = "closed"]
        /\ asr' = IF error THEN [asr EXCEPT ![i] = "done"] ELSE asr
        /\ UNCHANGED <<now, sessions, registry, plugin, handles>>
    BY Zenon DEF S!AudioEnds, S!IdOf
  <1>3. composed' = [composed EXCEPT ![i] = c]
    BY <1>1, Zenon DEF S!AudioEnds, S!IdOf, SessionsTyped
  <1>4. lost \in BOOLEAN /\ (composed[i].aborted => lost)
    BY Zenon
  <1> HIDE DEF lost
  <1>5. c \in Compositions /\ c.frames = composed[i].frames /\ c.aborted = lost
    BY <1>1, <1>4, Zenon DEF Compositions
  <1> HIDE DEF c
  <1>6. /\ composed' \in [Ids -> Compositions] /\ composed'[i] = c
        /\ \A j \in Ids \ {i} : composed'[j] = composed[j]
    BY <1>1, <1>3, <1>5, Zenon DEF SessionsTyped
  <1>7. \A j \in Ids : /\ composed'[j].frames = composed[j].frames
                       /\ composed[j].aborted => composed'[j].aborted
    BY <1>4, <1>5, <1>6, Zenon
  <1>8. /\ DOMAIN stream' = S!Numbers /\ DOMAIN asr' = Ids
        /\ \A k \in S!Numbers : stream'[k] = "open" => stream[k] = "open"
        /\ \A j \in Ids : asr'[j] \in {asr[j], "done"}
    BY <1>1, <1>2, Zenon DEF SessionsTyped
  <1>9. SameIds /\ now' \in Nat /\ plugin' \in Plugins
    BY <1>1, <1>2, Zenon DEF SessionsTyped, SameIds
  <1>10. \A j \in Ids :
           /\ asr'[j] = "open" => asr[j] = "open"
           /\ asr'[j] \in {"opening", "again"} => asr[j] \in {"opening", "again"}
    BY <1>8, Zenon
  <1>11. plugin'.active = plugin.active /\ plugin'.aborted = plugin.aborted
           /\ UNCHANGED <<registry, handles>>
    BY <1>2, Zenon
  <1> QED
    BY <1>6, <1>7, <1>8, <1>9, <1>10, <1>11, QuietKeeps, Zenon

\* openStream is answered: recognition opens only if it was not aborted.
LEMMA AsrOpenedKeeps ==
  ASSUME SInv, NEW i \in Ids, S!AsrOpened(i)
  PROVE  SInv'
  <1>1. SessionsTyped /\ composed[i] \in Compositions
    BY Zenon DEF SInv, SessionsTyped
  <1>2. /\ asr[i] \in {"opening", "again"}
        /\ asr' = [asr EXCEPT ![i] = IF composed[i].aborted THEN "done" ELSE "open"]
        /\ stream' \in {stream, [stream EXCEPT ![composed[i].frames] = "closed"]}
        /\ UNCHANGED <<now, sessions, registry, plugin, handles, composed>>
    BY Zenon DEF S!AsrOpened
  <1>3. composed[i].frames # 0
    BY <1>2, Zenon DEF SInv, Tracked
  <1>4. /\ DOMAIN stream' = S!Numbers /\ DOMAIN asr' = Ids
        /\ \A k \in S!Numbers : stream'[k] = "open" => stream[k] = "open"
    BY <1>1, <1>2, Zenon DEF SessionsTyped
  <1>5. \A j \in Ids :
           /\ asr'[j] = "open" => asr[j] = "open" \/
                (composed[j].frames # 0 /\ ~composed[j].aborted)
           /\ asr'[j] \in {"opening", "again"} => asr[j] \in {"opening", "again"}
    BY <1>1, <1>2, <1>3, Zenon DEF SessionsTyped
  <1>6. SameIds /\ now' \in Nat /\ plugin' \in Plugins
          /\ composed' \in [Ids -> Compositions]
    BY <1>1, <1>2, Zenon DEF SessionsTyped, SameIds
  <1>7. /\ plugin'.active = plugin.active /\ plugin'.aborted = plugin.aborted
        /\ UNCHANGED <<registry, handles>>
        /\ \A j \in Ids : /\ composed'[j].frames = composed[j].frames
                          /\ composed[j].aborted => composed'[j].aborted
    BY <1>2, Zenon
  <1> QED
    BY <1>4, <1>5, <1>6, <1>7, QuietKeeps, Zenon

\* A recognition that fails to open tries again, or is over.
LEMMA AsrOverKeeps ==
  ASSUME SInv, NEW i \in Ids,
         S!AsrOpenFails(i) \/ \E error \in BOOLEAN : S!AsrEnds(i, error)
  PROVE  SInv'
  <1>1. plugin \in Plugins /\ DOMAIN stream = S!Numbers /\ DOMAIN asr = Ids
    BY Zenon DEF SInv, SessionsTyped
  <1>2. /\ UNCHANGED <<now, sessions, registry, handles, composed, stream>>
        /\ plugin' \in {plugin, S!Degrade(plugin)}
    BY Zenon DEF S!AsrOpenFails, S!AsrEnds
  <1>3. \/ asr' = [asr EXCEPT ![i] = "done"]
        \/ asr' = [asr EXCEPT ![i] = "again"] /\ asr[i] \in {"opening", "again"}
    BY Zenon DEF S!AsrOpenFails, S!AsrEnds
  <1>4. DOMAIN asr' = Ids
          /\ \A j \in Ids :
               /\ asr'[j] = "open" => asr[j] = "open"
               /\ asr'[j] \in {"opening", "again"} => asr[j] \in {"opening", "again"}
    BY <1>1, <1>3, Zenon
  <1>5. plugin' \in Plugins /\ plugin'.active = plugin.active
          /\ plugin'.aborted = plugin.aborted
    BY <1>1, <1>2, DegradeKeeps, Zenon
  <1> QED
    BY <1>1, <1>2, <1>4, <1>5, PluginKeeps, Zenon

LEMMA TickKeeps ==
  ASSUME SInv, S!Tick \/ UNCHANGED S!vars
  PROVE  SInv'
  <1>1. /\ UNCHANGED <<sessions, registry, plugin, handles, composed, stream, asr>>
        /\ now' \in {now, now + 1}
    BY Zenon DEF S!Tick, S!vars
  <1>2. SessionsTyped /\ SameIds /\ now' \in Nat
    BY <1>1, SMTT(30) DEF SInv, SessionsTyped, SameIds
  <1> QED
    BY <1>1, <1>2, QuietKeeps, Zenon DEF SessionsTyped

LEMMA SInitHolds ==
  ASSUME S!Init
  PROVE  SInv
  <1> DEFINE no == FALSE
             p == [active |-> {}, failures |-> 0, aborted |-> no, drain |-> -1,
                   mounted |-> no]
             c == [aborted |-> no, frames |-> 0]
  <1>1. /\ now = 0 /\ sessions = <<>> /\ registry = [i \in Ids |-> 0]
        /\ plugin = p /\ handles = [i \in Ids |-> {}]
        /\ composed = [i \in Ids |-> c]
        /\ stream = [g \in S!Numbers |-> "none"] /\ asr = [i \in Ids |-> "none"]
    BY Zenon DEF S!Init
  <1>2. no \in BOOLEAN
    BY Zenon
  <1> HIDE DEF no
  <1>3. p \in Plugins /\ p.active = {}
    BY <1>2, SMTT(30) DEF Plugins
  <1>4. c \in Compositions /\ c.frames = 0
    BY <1>2, Zenon DEF Compositions
  <1> HIDE DEF p, c
  <1>5. SessionsTyped
    BY <1>1, <1>3, <1>4, SMTT(30) DEF SessionsTyped
  <1>6. Owned
    BY <1>1, <1>3, Zenon DEF Owned, Consumed
  <1>7. Tracked
    BY <1>1, <1>4, SMTT(30) DEF Tracked
  <1> QED
    BY <1>5, <1>6, <1>7, Zenon DEF SInv

LEMMA SNextKeeps ==
  ASSUME SInv, Inactivity \in Nat, DrainTime \in Nat, TokenLives \subseteq Nat,
         S!Next
  PROVE  SInv'
  <1>1. DOMAIN sessions = 1..Len(sessions)
          /\ registry \in [Ids -> 0..Len(sessions)] /\ Len(sessions) \in Nat
    BY DEF SInv, SessionsTyped
  <1>2. CASE \E ok \in BOOLEAN : S!Mount(ok)
    BY <1>2, RoutesKeep, Zenon
  <1>3. ASSUME NEW i \in Ids, NEW room \in Rooms,
               NEW life \in TokenLives, S!Create(i, room, life)
        PROVE  SInv'
    BY <1>3, CreateKeeps, Zenon
  <1>4. ASSUME NEW i \in Ids, NEW room \in Rooms, S!Duplicate(i, room)
        PROVE  SInv'
    <2>1. registry[i] \in 1..Len(sessions)
      BY <1>1, <1>4, SMTT(30) DEF S!Duplicate, S!Found, S!OwnerFree
    <2>2. /\ sessions' = [sessions EXCEPT ![registry[i]].extras = 1]
          /\ UNCHANGED <<now, registry, plugin, handles, composed, stream, asr>>
      BY <1>4, Zenon DEF S!Duplicate
    <2> QED
      BY <2>1, <2>2, WritersKeep, Zenon
  <1>5. ASSUME NEW i \in Ids, NEW room \in Rooms, S!Refuse(i, room)
        PROVE  SInv'
    BY <1>5, RoutesKeep, Zenon
  <1>6. ASSUME NEW i \in Ids, S!PlatformClose(i)
        PROVE  SInv'
    <2>1. registry[i] \in 1..Len(sessions) /\ S!Close(registry[i], "platform_close")
      BY <1>1, <1>6, SMTT(30) DEF S!PlatformClose
    <2> QED
      BY <2>1, SessionCloseKeeps, Zenon
  <1>7. ASSUME NEW i \in Ids, S!AsrOpened(i)
        PROVE  SInv'
    BY <1>7, AsrOpenedKeeps, Zenon
  <1>8. ASSUME NEW i \in Ids,
               S!AsrOpenFails(i) \/ \E error \in BOOLEAN : S!AsrEnds(i, error)
        PROVE  SInv'
    BY <1>8, AsrOverKeeps, Zenon
  <1>9. ASSUME NEW g \in 1..Len(sessions), S!ResponseClosed(g)
        PROVE  SInv'
    BY <1>9, ResponseClosedKeeps, Zenon
  <1>10. ASSUME NEW g \in 1..Len(sessions), S!Detach(g)
         PROVE  SInv'
    BY <1>10, WritersKeep, Zenon DEF S!Detach
  <1>11. ASSUME NEW g \in 1..Len(sessions), S!Timer(g)
         PROVE  SInv'
    BY <1>11, SessionCloseKeeps, Zenon DEF S!Timer
  <1>12. ASSUME NEW g \in 1..Len(sessions), S!Joined(g)
         PROVE  SInv'
    BY <1>12, JoinedKeeps, Zenon
  <1>13. ASSUME NEW g \in 1..Len(sessions), S!JoinFails(g)
         PROVE  SInv'
    BY <1>13, JoinFailsKeeps, Zenon
  <1>14. ASSUME NEW g \in 1..Len(sessions), NEW error \in BOOLEAN,
                S!AudioEnds(g, error)
         PROVE  SInv'
    BY <1>14, AudioEndsKeeps, Zenon
  <1>15. CASE S!Drain
    BY <1>15, RoutesKeep, Zenon
  <1>16. CASE S!ForceClose
    BY <1>16, ForceCloseKeeps, Zenon
  <1>17. CASE S!Tick
    BY <1>17, TickKeeps, Zenon
  <1> QED
    BY <1>1, <1>2, <1>3, <1>4, <1>5, <1>6, <1>7, <1>8, <1>9, <1>10, <1>11, <1>12,
       <1>13, <1>14, <1>15, <1>16, <1>17, ZenonT(30) DEF S!Next

\* A provider stream that is open, of a room or of recognition, has a tracked
\* handle under the id of a registered session: a join or an open answered late
\* (trackHandle, openStream) leaks nothing, whatever the ids, the rooms and the
\* number of sessions.
THEOREM StreamsHaveSessionHolds ==
  ASSUME Inactivity \in Nat, DrainTime \in Nat, TokenLives \subseteq Nat
  PROVE  S!Spec => []S!StreamsHaveSession
  <1>1. S!Init => SInv
    BY SInitHolds, Zenon
  <1>2. SInv /\ [S!Next]_(S!vars) => SInv'
    BY SNextKeeps, TickKeeps, Zenon
  <1>3. SInv => S!StreamsHaveSession
    <2>1. ASSUME SInv, NEW g \in DOMAIN sessions, stream[g] = "open"
          PROVE  /\ <<"consumer", g>> \in handles[S!IdOf(g)]
                 /\ registry[S!IdOf(g)] # 0
      <3>1. g \in 1..Len(sessions) /\ sessions[g].id \in Ids
        BY <2>1, SessionTyped, SMTT(30) DEF SInv, SessionsTyped
      <3>2. <<"consumer", g>> \in handles[sessions[g].id]
        BY <2>1, <3>1, Zenon DEF SInv, Tracked
      <3>3. <<"consumer", g>>[1] = "consumer"
        BY Zenon
      <3>4. Consumed(sessions[g].id)
        BY <3>2, <3>3, Zenon DEF Consumed
      <3> QED
        BY <2>1, <3>1, <3>2, <3>4, Zenon DEF SInv, Owned, S!IdOf
    <2>2. ASSUME SInv, NEW i \in Ids, asr[i] = "open"
          PROVE  registry[i] # 0
      BY <2>2, Zenon DEF SInv, Owned, Tracked
    <2> QED
      BY <2>1, <2>2, Zenon DEF S!StreamsHaveSession
  <1> QED
    BY <1>1, <1>2, <1>3, PTL DEF S!Spec

=============================================================================
