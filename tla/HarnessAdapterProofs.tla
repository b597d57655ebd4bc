------------------------- MODULE HarnessAdapterProofs -------------------------
(***************************************************************************)
(* Proofs about HarnessAdapter, for every set of jobs, attempts and        *)
(* sessions, every table an earlier adapter may have left and every bound: *)
(* a session has one outcome, and a disposed adapter leaves nothing open.  *)
(***************************************************************************)
EXTENDS HarnessAdapter, TLAPS

-----------------------------------------------------------------------------
(* The inductive invariant *)

SessionStates == [phase : {"fresh", "busy", "ended", "idle"}, reason : Reasons \cup {None}, events : Nat]
Handles == [session : Sessions, open : BOOLEAN]
Owners == [session : Sessions, handle : Nat, seen : SUBSET Nat,
           terminal : {"succeeded", "failed", None}, emitted : BOOLEAN, watched : BOOLEAN]
Creates == [step : {"opens", "resumes"}, key : Keys]
Resumes == [session : Sessions, status : Statuses, step : {"opens", "closes"}]
Recoveries == [step : {"known", "next", "waits", "ready"}, down : BOOLEAN,
               now : Mappings \cup {None}, queue : SUBSET Mappings]
Tallies == [outcomes : Nat, blind : BOOLEAN]

TypeOK ==
  /\ store \in [Keys -> Rows \cup {None}]
  /\ sessions \in [Sessions -> SessionStates]
  /\ handles \in Seq(Handles)
  /\ owners \in [Keys -> Owners \cup {None}]
  /\ latest \in [Jobs -> Attempts \cup {None}]
  /\ creates \in [Jobs -> Creates \cup {None}]
  /\ resumes \in [Keys -> Resumes \cup {None}]
  /\ recovery \in Recoveries
  /\ told \in [Jobs \X Sessions -> Tallies]
  /\ disposal \in {"no", "tasks", "idle", "events", "done"}

\* A job has one owner, its latest attempt, which is mapped, and a session has one.
OneOwner ==
  /\ \A k \in Keys : owners[k] # None => latest[k[1]] = k[2] /\ store[k] # None
  /\ \A j \in Jobs : latest[j] # None => owners[<<j, latest[j]>>] # None
  /\ \A k, l \in Keys :
       (owners[k] # None /\ owners[l] # None /\ owners[k].session = owners[l].session) => k = l

\* No attempt of k's job is newer than k, and no other one is under way.
Newest(k, table) ==
  \A l \in Keys :
    (l[1] = k[1] /\ table[l] # None) =>
      l[2] <= k[2] /\ (isActiveStatus(table[l].status) => l = k)

\* What the recovery still resumes: the newest attempts of jobs without an owner.
Queued ==
  /\ recovery.step = "known" =>
       /\ store \in Earlier
       /\ \A m \in recovery.queue : store[m.key] # None /\ store[m.key].status = m.status
  /\ recovery.step = "ready" => recovery.queue = {}
  /\ \A m \in recovery.queue :
       isActiveStatus(m.status) =>
         /\ Newest(m.key, store) /\ latest[m.key[1]] = None
         /\ \A n \in recovery.queue :
              (isActiveStatus(n.status) /\ n.key[1] = m.key[1]) => n = m
         /\ recovery.step = "waits" => recovery.now.key[1] # m.key[1]
  /\ recovery.step = "waits" => recovery.now # None
  /\ recovery.down => recovery.step \in {"known", "ready"} /\ recovery.queue = {}

\* A resume at work is the newest attempt of a job without an owner; once the
\* adapter is ready, it is the row of the table.
Resuming ==
  \A k \in Keys :
    resumes[k] # None =>
      /\ ~recovery.down /\ latest[k[1]] = None /\ Newest(k, store)
      /\ isActiveStatus(resumes[k].status)
      /\ recovery.step \in {"waits", "ready"}
      /\ recovery.step = "waits" => recovery.now.key = k
      /\ recovery.step = "ready" =>
           /\ store[k] # None /\ store[k].session = resumes[k].session
           /\ isActiveStatus(store[k].status)

\* A create that waits for its agent has a new attempt of a job without an
\* owner, whose attempts are over.
Creating ==
  \A j \in Jobs :
    creates[j] # None =>
      /\ Ready /\ ~recovery.down
      /\ creates[j].step = "opens" =>
           /\ latest[j] = None /\ creates[j].key[1] = j
           /\ \A l \in Keys :
                (l[1] = j /\ store[l] # None) =>
                  l[2] < creates[j].key[2] /\ ~isActiveStatus(store[l].status)

\* Before the recovery has asked its caller, nothing has happened; without the
\* table, nothing is attached.
Untouched ==
  /\ recovery.step = "known" =>
       lost = {} /\ \A x \in DOMAIN told : told[x].outcomes = 0
  /\ recovery.step = "known" \/ recovery.down => \A k \in Keys : owners[k] = None

\* A session the Harness may still give out was never heard of.
Unheard ==
  \A s \in Sessions :
    Unused(s) =>
      /\ \A k \in Keys : store[k] # None => store[k].session # s
      /\ \A k \in Keys : resumes[k] # None => resumes[k].session # s
      /\ \A m \in Known \cup recovery.queue : m.session # s
      /\ \A j \in Jobs : <<"session", j, s>> \notin lost

\* The session of job j has an owner; it has told its outcome.
Held(j, s) == \E k \in Keys : k[1] = j /\ owners[k] # None /\ owners[k].session = s
Settled(j, s) ==
  \E k \in Keys : k[1] = j /\ owners[k] # None /\ owners[k].session = s /\ owners[k].emitted

\* A session is reported lost once and settles once, and does both only when it
\* was reported blindly.
Outcomes ==
  ~Disposed =>
    \A j \in Jobs, s \in Sessions :
      /\ told[<<j, s>>].outcomes <=
           (IF <<"session", j, s>> \in lost THEN 1 ELSE 0) + (IF Settled(j, s) THEN 1 ELSE 0)
      /\ (<<"session", j, s>> \in lost /\ Held(j, s)) => told[<<j, s>>].blind
ResumesBlindly ==
  \A k \in Keys :
    (resumes[k] # None /\ <<"session", k[1], resumes[k].session>> \in lost) =>
      told[<<k[1], resumes[k].session>>].blind

\* An open handle has an owner until the disposal closes it.
OpenIsOwned ==
  /\ \A k \in Keys : owners[k] # None => owners[k].handle \in DOMAIN handles
  /\ \A h \in DOMAIN handles :
       handles[h].open =>
         /\ disposal \in {"no", "tasks"}
         /\ \E k \in Keys : owners[k] # None /\ owners[k].handle = h

SinksWait ==
  /\ \A t \in sinks :
       /\ DOMAIN t = {"event", "waits", "released"}
       /\ t.released => t.waits
  /\ disposal = "done" => \A t \in sinks : t.waits

Inv ==
  /\ TypeOK /\ RunningIsNewest(store) /\ OneOwner
  /\ Queued /\ Resuming /\ Creating /\ Untouched /\ Unheard
  /\ OneOutcome /\ Outcomes /\ ResumesBlindly
  /\ OpenIsOwned /\ SinksWait

-----------------------------------------------------------------------------
(* Types *)

\* What None is told apart from.
LEMMA NoneApart ==
  /\ None \notin Nat /\ None \notin Rows /\ None \notin Mappings /\ None \notin Creates
  /\ None \notin Resumes /\ None \notin Owners
  BY NoneAssumption, Zenon DEF Creates, Resumes, Owners

LEMMA KeyParts ==
  ASSUME NEW k \in Keys
  PROVE  /\ k[1] \in Jobs /\ k[2] \in Attempts /\ k[2] \in Nat /\ k[2] # None
         /\ k = <<k[1], k[2]>>
  <1>1. k \in Jobs \X Attempts
    BY Zenon DEF Keys
  <1>2. k[1] \in Jobs /\ k[2] \in Attempts /\ k = <<k[1], k[2]>>
    BY <1>1, SMTT(30)
  <1>3. k[2] \in Nat
    BY <1>2, AttemptsAssumption, Zenon
  <1> QED
    BY <1>2, <1>3, NoneApart, Zenon

LEMMA PartsKey ==
  ASSUME NEW j \in Jobs, NEW a \in Attempts
  PROVE  <<j, a>> \in Keys /\ <<j, a>>[1] = j /\ <<j, a>>[2] = a
  BY Zenon DEF Keys

LEMMA SameKey ==
  ASSUME NEW k \in Keys, NEW l \in Keys, k[1] = l[1], k[2] = l[2]
  PROVE  k = l
  BY KeyParts, Zenon

LEMMA RowFields ==
  ASSUME NEW r \in Rows
  PROVE  r.session \in Sessions /\ r.status \in Statuses
  BY Zenon DEF Rows

LEMMA RowOf ==
  ASSUME NEW s \in Sessions, NEW status \in Statuses
  PROVE  /\ [session |-> s, status |-> status] \in Rows
         /\ [session |-> s, status |-> status] # None
  BY NoneApart, SMTT(30) DEF Rows

LEMMA OwnerFields ==
  ASSUME NEW o \in Owners
  PROVE  /\ o.session \in Sessions /\ o.handle \in Nat /\ o.seen \in SUBSET Nat
         /\ o.terminal \in {"succeeded", "failed", None} /\ o.emitted \in BOOLEAN /\ o.watched \in BOOLEAN
  BY Zenon DEF Owners

LEMMA ResumeFields ==
  ASSUME NEW t \in Resumes
  PROVE  t.session \in Sessions /\ t.status \in Statuses /\ t.step \in {"opens", "closes"}
  BY Zenon DEF Resumes

LEMMA MappingFields ==
  ASSUME NEW m \in Mappings
  PROVE  m.key \in Keys /\ m.session \in Sessions /\ m.status \in Statuses
  BY Zenon DEF Mappings

LEMMA RecoveryFields ==
  ASSUME TypeOK
  PROVE  /\ recovery.step \in {"known", "next", "waits", "ready"} /\ recovery.down \in BOOLEAN
         /\ recovery.now \in Mappings \cup {None} /\ recovery.queue \in SUBSET Mappings
  BY Zenon DEF TypeOK, Recoveries

\* The tables at a key.
LEMMA AtKey ==
  ASSUME TypeOK, NEW k \in Keys
  PROVE  /\ store[k] # None => store[k] \in Rows
         /\ owners[k] # None => owners[k] \in Owners
         /\ resumes[k] # None => resumes[k] \in Resumes
  BY Zenon DEF TypeOK

LEMMA TallyAt ==
  ASSUME TypeOK, NEW j \in Jobs, NEW s \in Sessions
  PROVE  /\ <<j, s>> \in DOMAIN told /\ told[<<j, s>>] \in Tallies
         /\ told[<<j, s>>].outcomes \in Nat /\ told[<<j, s>>].blind \in BOOLEAN
  <1>1. <<j, s>> \in Jobs \X Sessions
    BY Zenon
  <1>2. <<j, s>> \in DOMAIN told /\ told[<<j, s>>] \in Tallies
    BY <1>1, Zenon DEF TypeOK
  <1> QED
    BY <1>2, Zenon DEF Tallies

LEMMA ActiveStatuses ==
  /\ isActiveStatus("running") /\ ~isActiveStatus("failed") /\ ~isActiveStatus("succeeded")
  /\ "running" \in Statuses /\ "failed" \in Statuses /\ "succeeded" \in Statuses
  BY StatusesAssumption, Zenon DEF isActiveStatus, TERMINAL_STATUSES

-----------------------------------------------------------------------------
(* The initial states *)

LEMMA ListedRows ==
  ASSUME store \in [Keys -> Rows \cup {None}], NEW m \in listNonterminalJobs
  PROVE  /\ m \in Mappings /\ store[m.key] # None
         /\ m = [key |-> m.key, session |-> store[m.key].session, status |-> store[m.key].status]
  <1>1. PICK k \in Keys :
          /\ store[k] # None
          /\ m = [key |-> k, session |-> store[k].session, status |-> store[k].status]
    BY Zenon DEF listNonterminalJobs, Mapped
  <1>2. store[k] \in Rows
    BY <1>1, Zenon
  <1> QED
    BY <1>1, <1>2, RowFields, Zenon DEF Mappings

LEMMA ListedOnce ==
  ASSUME store \in [Keys -> Rows \cup {None}], RunningIsNewest(store),
         NEW m \in listNonterminalJobs, NEW n \in listNonterminalJobs, n.key[1] = m.key[1],
         isActiveStatus(m.status), isActiveStatus(n.status)
  PROVE  n = m
  <1>1. /\ m.key \in Keys /\ isActiveStatus(store[m.key].status)
        /\ n.key \in Keys /\ isActiveStatus(store[n.key].status)
    BY ListedRows, MappingFields, SMTT(30)
  <1>2. m.key[2] <= n.key[2] /\ n.key[2] <= m.key[2]
    BY <1>1, ListedRows, Zenon DEF RunningIsNewest
  <1>3. m.key = n.key
    BY <1>1, <1>2, KeyParts, SameKey, SMTT(30)
  <1> QED
    BY <1>3, ListedRows, Zenon

\* An attempt under way is the newest one of its job.
LEMMA RunningNewest ==
  ASSUME RunningIsNewest(store), NEW k \in Keys, store[k] # None,
         isActiveStatus(store[k].status)
  PROVE  Newest(k, store)
  <1> SUFFICES ASSUME NEW l \in Keys, l[1] = k[1], store[l] # None
               PROVE  l[2] <= k[2] /\ (isActiveStatus(store[l].status) => l = k)
    BY Zenon DEF Newest
  <1>1. l[2] <= k[2]
    BY Zenon DEF RunningIsNewest
  <1>2. ASSUME isActiveStatus(store[l].status) PROVE l = k
    <2>1. k[2] <= l[2]
      BY <1>2, Zenon DEF RunningIsNewest
    <2> QED
      BY <1>1, <2>1, KeyParts, SameKey, SMTT(30)
  <1> QED
    BY <1>1, <1>2, Zenon

LEMMA InitInv ==
  Init => Inv
  <1> SUFFICES ASSUME Init PROVE Inv
    BY Zenon
  <1>1. store \in [Keys -> Rows \cup {None}] /\ RunningIsNewest(store)
    BY EarlierAssumption, Zenon DEF Init
  <1>2. PICK down \in BOOLEAN :
          recovery = [step |-> "known", down |-> down, now |-> None,
                      queue |-> IF down THEN {} ELSE listNonterminalJobs]
    BY Zenon DEF Init
  <1>3. /\ recovery.step = "known" /\ recovery.down = down /\ recovery.now = None
        /\ recovery.queue \in {{}, listNonterminalJobs}
    BY <1>2, Zenon
  <1>4. TypeOK
    <2>1. sessions \in [Sessions -> SessionStates]
      <3>1. [phase : {"fresh", "busy", "idle"}, reason : Reasons \cup {None}, events : {0}]
              \subseteq SessionStates
        BY SMTT(30) DEF SessionStates
      <3>2. sessions \in [Sessions -> [phase : {"fresh", "busy", "idle"},
                                       reason : Reasons \cup {None}, events : {0}]]
        BY Zenon DEF Init
      <3> QED
        BY <3>1, <3>2, Zenon
    <2>2. listNonterminalJobs \in SUBSET Mappings
      BY <1>1, ListedRows, Zenon
    <2>3. recovery \in Recoveries
      BY <1>2, <2>2, Zenon DEF Recoveries
    <2>4. told \in [Jobs \X Sessions -> Tallies]
      BY Zenon DEF Init, Tallies
    <2>5. /\ handles \in Seq(Handles)
          /\ owners \in [Keys -> Owners \cup {None}]
          /\ latest \in [Jobs -> Attempts \cup {None}]
          /\ creates \in [Jobs -> Creates \cup {None}]
          /\ resumes \in [Keys -> Resumes \cup {None}]
          /\ disposal \in {"no", "tasks", "idle", "events", "done"}
      BY SMTT(30) DEF Init
    <2> QED
      BY <1>1, <2>1, <2>3, <2>4, <2>5, Zenon DEF TypeOK
  <1>5. OneOwner
    BY Zenon DEF Init, OneOwner
  <1>6. Queued
    <2>1. ASSUME NEW m \in recovery.queue, isActiveStatus(m.status)
          PROVE  /\ Newest(m.key, store) /\ latest[m.key[1]] = None
                 /\ \A n \in recovery.queue :
                      (isActiveStatus(n.status) /\ n.key[1] = m.key[1]) => n = m
      <3>1. m \in listNonterminalJobs /\ recovery.queue = listNonterminalJobs
        BY <1>3, Zenon
      <3>2. m.key \in Keys /\ store[m.key] # None /\ isActiveStatus(store[m.key].status)
        BY <1>1, <2>1, <3>1, ListedRows, MappingFields, SMTT(30)
      <3>3. latest[m.key[1]] = None
        BY <3>2, KeyParts, Zenon DEF Init
      <3> QED
        BY <1>1, <2>1, <3>1, <3>2, <3>3, RunningNewest, ListedOnce, Zenon
    <2>2. store \in Earlier
      BY Zenon DEF Init
    <2>3. \A m \in recovery.queue : store[m.key] # None /\ store[m.key].status = m.status
      BY <1>1, <1>3, ListedRows, SMTT(30)
    <2>4. recovery.down => recovery.queue = {}
      BY <1>2, Zenon
    <2> QED
      BY <1>3, <2>1, <2>2, <2>3, <2>4, Zenon DEF Queued
  <1>7. Resuming /\ Creating /\ ResumesBlindly
    BY Zenon DEF Init, Resuming, Creating, ResumesBlindly
  <1>8. Untouched /\ OneOutcome
    BY SMTT(30) DEF Init, Untouched, OneOutcome
  <1>9. Unheard
    <2> SUFFICES ASSUME NEW s \in Sessions, Unused(s)
                 PROVE  /\ \A k \in Keys : store[k] # None => store[k].session # s
                        /\ \A k \in Keys : resumes[k] # None => resumes[k].session # s
                        /\ \A m \in Known \cup recovery.queue : m.session # s
                        /\ \A j \in Jobs : <<"session", j, s>> \notin lost
      BY Zenon DEF Unheard
    <2>1. /\ \A k \in Keys : ~(store[k] # None /\ store[k].session = s)
          /\ \A m \in Known : m.session # s
      BY Zenon DEF Unused, Init
    <2>2. \A m \in recovery.queue : m.session # s
      <3> SUFFICES ASSUME NEW m \in listNonterminalJobs PROVE m.session # s
        BY <1>3, Zenon
      <3>1. m.key \in Keys /\ store[m.key] # None /\ m.session = store[m.key].session
        BY <1>1, ListedRows, MappingFields, SMTT(30)
      <3> QED
        BY <2>1, <3>1, Zenon
    <2>3. /\ \A k \in Keys : resumes[k] = None
          /\ \A j \in Jobs : <<"session", j, s>> \notin lost
      BY Zenon DEF Init
    <2> QED
      BY <2>1, <2>2, <2>3, Zenon
  <1>10. Outcomes
    <2>1. \A j \in Jobs, s \in Sessions :
            told[<<j, s>>].outcomes = 0 /\ <<"session", j, s>> \notin lost /\ ~Settled(j, s)
      BY Zenon DEF Init, Settled
    <2>2. ASSUME NEW j \in Jobs, NEW s \in Sessions
          PROVE  told[<<j, s>>].outcomes <=
                   (IF <<"session", j, s>> \in lost THEN 1 ELSE 0)
                     + (IF Settled(j, s) THEN 1 ELSE 0)
      BY <2>1, <2>2, SMTT(30)
    <2> QED
      BY <2>1, <2>2, Zenon DEF Outcomes
  <1>11. OpenIsOwned /\ SinksWait
    BY SMTT(30) DEF Init, OpenIsOwned, SinksWait
  <1> QED
    BY <1>1, <1>4, <1>5, <1>6, <1>7, <1>8, <1>9, <1>10, <1>11, Zenon DEF Inv

-----------------------------------------------------------------------------
(* What a step leaves alone *)

\* A step in which no session becomes unused again, nothing new is mapped,
\* resumed or lost.
NothingNew ==
  /\ \A s \in Sessions : Unused(s)' => Unused(s)
  /\ \A k \in Keys : store'[k] # None => store[k] # None /\ store'[k].session = store[k].session
  /\ \A k \in Keys :
       resumes'[k] # None => resumes[k] # None /\ resumes'[k].session = resumes[k].session
  /\ recovery'.queue \subseteq recovery.queue /\ lost' = lost

LEMMA UnheardKept ==
  ASSUME Unheard, NothingNew
  PROVE  Unheard'
  <1> SUFFICES ASSUME NEW s \in Sessions, Unused(s)'
               PROVE  /\ \A k \in Keys : store'[k] # None => store'[k].session # s
                      /\ \A k \in Keys : resumes'[k] # None => resumes'[k].session # s
                      /\ \A m \in Known \cup recovery'.queue : m.session # s
                      /\ \A j \in Jobs : <<"session", j, s>> \notin lost'
    BY Zenon DEF Unheard
  <1>1. /\ \A k \in Keys : store[k] # None => store[k].session # s
        /\ \A k \in Keys : resumes[k] # None => resumes[k].session # s
        /\ \A m \in Known \cup recovery.queue : m.session # s
        /\ \A j \in Jobs : <<"session", j, s>> \notin lost
    BY Zenon DEF Unheard, NothingNew
  <1> QED
    BY <1>1, Zenon DEF NothingNew

\* Owners keep their sessions and their handles.
OwnersKept ==
  \A k \in Keys :
    /\ owners'[k] = None <=> owners[k] = None
    /\ owners[k] # None =>
         owners'[k].session = owners[k].session /\ owners'[k].handle = owners[k].handle

LEMMA OneOwnerKept ==
  ASSUME Inv, OwnersKept, latest' = latest, \A k \in Keys : store[k] # None => store'[k] # None
  PROVE  OneOwner'
  <1>1. \A k \in Keys : owners'[k] # None => latest'[k[1]] = k[2] /\ store'[k] # None
    BY Zenon DEF Inv, OneOwner, OwnersKept
  <1>2. \A j \in Jobs : latest'[j] # None => owners'[<<j, latest'[j]>>] # None
    <2> SUFFICES ASSUME NEW j \in Jobs, latest[j] # None PROVE owners'[<<j, latest[j]>>] # None
      BY Zenon
    <2>1. <<j, latest[j]>> \in Keys /\ owners[<<j, latest[j]>>] # None
      BY PartsKey, SMTT(30) DEF Inv, TypeOK, OneOwner
    <2> QED
      BY <2>1, Zenon DEF OwnersKept
  <1>3. \A k, l \in Keys :
          (owners'[k] # None /\ owners'[l] # None /\ owners'[k].session = owners'[l].session)
            => k = l
    BY SMTT(30) DEF Inv, OneOwner, OwnersKept
  <1> QED
    BY <1>1, <1>2, <1>3, Zenon DEF OneOwner

LEMMA UntouchedKept ==
  ASSUME Inv, OwnersKept, recovery' = recovery,
         recovery.step # "known" \/ UNCHANGED <<lost, told>>
  PROVE  Untouched'
  BY Zenon DEF Inv, Untouched, OwnersKept

LEMMA OpenIsOwnedKept ==
  ASSUME Inv, OwnersKept, handles' = handles,
         disposal' = disposal \/ (disposal' = "tasks" /\ disposal = "no")
  PROVE  OpenIsOwned'
  <1>1. \A k \in Keys : owners'[k] # None => owners'[k].handle \in DOMAIN handles'
    BY Zenon DEF Inv, OpenIsOwned, OwnersKept
  <1>2. ASSUME NEW h \in DOMAIN handles', handles'[h].open
        PROVE  /\ disposal' \in {"no", "tasks"}
               /\ \E k \in Keys : owners'[k] # None /\ owners'[k].handle = h
    <2>1. PICK k \in Keys : owners[k] # None /\ owners[k].handle = h
      BY <1>2, Zenon DEF Inv, OpenIsOwned
    <2>2. owners'[k] # None /\ owners'[k].handle = h
      BY <2>1, Zenon DEF OwnersKept
    <2>3. disposal' \in {"no", "tasks"}
      BY <1>2, Zenon DEF Inv, OpenIsOwned
    <2> QED
      BY <2>2, <2>3, Zenon
  <1> QED
    BY <1>1, <1>2, Zenon DEF OpenIsOwned

LEMMA HeldKept ==
  ASSUME OwnersKept, NEW j, NEW s
  PROVE  Held(j, s)' => Held(j, s)
  BY Zenon DEF Held, OwnersKept

\* A step that tells nothing, loses nothing and settles nothing.
LEMMA OutcomesKept ==
  ASSUME Inv, OwnersKept, UNCHANGED <<lost, told>>, Disposed => Disposed',
         \A k \in Keys : (owners[k] # None /\ owners[k].emitted) => owners'[k].emitted
  PROVE  Outcomes'
  <1> SUFFICES ASSUME ~Disposed', NEW j \in Jobs, NEW s \in Sessions
               PROVE  /\ told[<<j, s>>].outcomes <=
                           (IF <<"session", j, s>> \in lost THEN 1 ELSE 0)
                             + (IF Settled(j, s)' THEN 1 ELSE 0)
                      /\ (<<"session", j, s>> \in lost /\ Held(j, s)') => told[<<j, s>>].blind
    BY Zenon DEF Outcomes
  <1>1. /\ told[<<j, s>>].outcomes <=
             (IF <<"session", j, s>> \in lost THEN 1 ELSE 0) + (IF Settled(j, s) THEN 1 ELSE 0)
        /\ (<<"session", j, s>> \in lost /\ Held(j, s)) => told[<<j, s>>].blind
    BY Zenon DEF Inv, Outcomes
  <1>2. Settled(j, s) => Settled(j, s)'
    BY Zenon DEF Settled, OwnersKept
  <1>3. Held(j, s)' => Held(j, s)
    BY HeldKept, Zenon
  <1>4. told[<<j, s>>].outcomes \in Nat
    BY TallyAt, Zenon DEF Inv
  <1> QED
    BY <1>1, <1>2, <1>3, <1>4, SMTT(30)

\* A step that leaves the tables and the tasks alone, or ends a create.
LEMMA TasksKept ==
  ASSUME Inv, UNCHANGED <<store, latest, resumes, recovery, lost, told>>,
         \A j \in Jobs : creates'[j] \in {creates[j], None}
  PROVE  /\ RunningIsNewest(store)' /\ Queued' /\ Resuming' /\ Creating'
         /\ OneOutcome' /\ ResumesBlindly'
  <1>1. RunningIsNewest(store)' /\ OneOutcome' /\ ResumesBlindly'
    BY Zenon DEF Inv, RunningIsNewest, OneOutcome, ResumesBlindly
  <1>2. Queued' /\ Resuming'
    BY Zenon DEF Inv, Queued, Resuming, Newest
  <1>3. Creating'
    BY SMTT(30) DEF Inv, Creating, Ready
  <1> QED
    BY <1>1, <1>2, <1>3, Zenon

OwnersGoOn ==
  /\ owners' \in [Keys -> Owners \cup {None}] /\ OwnersKept
  /\ \A k \in Keys : (owners[k] # None /\ owners[k].emitted) => owners'[k].emitted

\* A step of the sessions and of the owners' turns, or the end of a create.
LEMMA TurnKeeps ==
  ASSUME Inv, UNCHANGED <<store, handles, latest, resumes, lost, recovery, disposal, told>>,
         sessions' \in [Sessions -> SessionStates],
         \A s \in Sessions : sessions[s].phase # "fresh" => sessions'[s].phase # "fresh",
         OwnersGoOn,
         creates' \in [Jobs -> Creates \cup {None}],
         \A j \in Jobs : creates'[j] \in {creates[j], None},
         SinksWait'
  PROVE  Inv'
  <1>1. TypeOK'
    BY Zenon DEF Inv, TypeOK, OwnersGoOn
  <1>2. OneOwner'
    BY OneOwnerKept, Zenon DEF OwnersGoOn
  <1>3. Untouched'
    BY UntouchedKept, Zenon DEF OwnersGoOn
  <1>4. Unheard'
    <2>1. NothingNew
      BY Zenon DEF NothingNew, Unused
    <2> QED
      BY <2>1, UnheardKept, Zenon DEF Inv
  <1>5. Outcomes'
    BY OutcomesKept, Zenon DEF Disposed, OwnersGoOn
  <1>6. OpenIsOwned'
    <2>1. handles' = handles /\ (disposal' = disposal \/ (disposal' = "tasks" /\ disposal = "no"))
      BY Zenon
    <2> QED
      BY <2>1, OpenIsOwnedKept, Zenon DEF OwnersGoOn
  <1> QED
    BY <1>1, <1>2, <1>3, <1>4, <1>5, <1>6, TasksKept, Zenon DEF Inv

LEMMA SameOwners ==
  ASSUME Inv, owners' = owners
  PROVE  OwnersGoOn
  BY Zenon DEF Inv, TypeOK, OwnersKept, OwnersGoOn

LEMMA SameSinks ==
  ASSUME Inv, UNCHANGED <<sinks, disposal>>
  PROVE  SinksWait'
  BY Zenon DEF Inv, SinksWait

LEMMA CreateEndsKeeps ==
  ASSUME Inv, NEW j \in Jobs, CreateEnds(j)
  PROVE  Inv'
  <1>1. /\ creates' \in [Jobs -> Creates \cup {None}]
        /\ \A i \in Jobs : creates'[i] \in {creates[i], None}
    BY Zenon DEF Inv, TypeOK, CreateEnds
  <1>2. /\ UNCHANGED <<store, sessions, handles, owners, latest, resumes, lost, recovery, disposal,
                       told>>
        /\ SinksWait'
    BY SameSinks, Zenon DEF CreateEnds
  <1>3. sessions' \in [Sessions -> SessionStates]
    BY <1>2, Zenon DEF Inv, TypeOK
  <1> QED
    BY <1>1, <1>2, <1>3, SameOwners, TurnKeeps, Zenon

\* One field of an owner that is neither its session nor its handle.
LEMMA CancelKeeps ==
  ASSUME Inv, NEW j \in Jobs, Cancel(j)
  PROVE  Inv'
  <1> DEFINE k == <<j, latest[j]>>
  <1>1. k \in Keys /\ owners[k] # None
    BY PartsKey, SMTT(30) DEF Inv, TypeOK, OneOwner, Cancel
  <1>2. owners[k] \in Owners
    BY <1>1, AtKey, Zenon DEF Inv
  <1>3. owners' = [owners EXCEPT ![k] = [owners[k] EXCEPT !.watched = TRUE]]
    BY Zenon DEF Cancel
  <1> HIDE DEF k
  <1> DEFINE o == [owners[k] EXCEPT !.watched = TRUE]
  <1>4. /\ o \in Owners /\ o.session = owners[k].session /\ o.handle = owners[k].handle
        /\ o.emitted = owners[k].emitted
    BY <1>2, Zenon DEF Owners
  <1> HIDE DEF o
  <1>5. OwnersGoOn
    BY <1>1, <1>3, <1>4, NoneApart, Zenon DEF Inv, TypeOK, OwnersKept, OwnersGoOn, o
  <1>6. /\ UNCHANGED <<store, sessions, handles, latest, creates, resumes, lost, recovery, disposal,
                       told>>
        /\ SinksWait'
    BY SameSinks, Zenon DEF Cancel
  <1>7. /\ sessions' \in [Sessions -> SessionStates] /\ creates' \in [Jobs -> Creates \cup {None}]
    BY <1>6, Zenon DEF Inv, TypeOK
  <1> QED
    BY <1>5, <1>6, <1>7, TurnKeeps, Zenon

LEMMA BecomesIdleKeeps ==
  ASSUME Inv, NEW s \in Sessions, BecomesIdle(s)
  PROVE  Inv'
  <1>1. sessions[s] \in SessionStates
    BY Zenon DEF Inv, TypeOK
  <1>2. [sessions[s] EXCEPT !.phase = "idle"] \in SessionStates
    BY <1>1, Zenon DEF SessionStates
  <1>3. sessions' = [sessions EXCEPT ![s] = [sessions[s] EXCEPT !.phase = "idle"]]
    BY Zenon DEF BecomesIdle
  <1>4. sessions' \in [Sessions -> SessionStates]
    BY <1>2, <1>3, Zenon DEF Inv, TypeOK
  <1>5. \A r \in Sessions : sessions[r].phase # "fresh" => sessions'[r].phase # "fresh"
    BY <1>1, <1>3, Zenon DEF Inv, TypeOK, SessionStates
  <1>6. /\ UNCHANGED <<store, handles, owners, latest, creates, resumes, lost, recovery, disposal,
                       told>>
        /\ SinksWait'
    BY SameSinks, Zenon DEF BecomesIdle
  <1>7. creates' \in [Jobs -> Creates \cup {None}]
    BY <1>6, Zenon DEF Inv, TypeOK
  <1> QED
    BY <1>4, <1>5, <1>6, <1>7, SameOwners, TurnKeeps, Zenon

\* What a turn of session s may change in the owners of its attempts.
LEMMA SessionEventKeeps ==
  ASSUME Inv, NEW s \in Sessions, NEW n \in 1 .. MaxEvents, SessionEvent(s, n)
  PROVE  Inv'
  <1>1. sessions[s] \in SessionStates
    BY Zenon DEF Inv, TypeOK
  <1>2. n \in Nat
    BY SMTT(30)
  <1> DEFINE e == IF n > sessions[s].events THEN n ELSE sessions[s].events
             x == [sessions[s] EXCEPT !.events = e]
  <1>3. x \in SessionStates /\ x.phase = sessions[s].phase
    BY <1>1, <1>2, Zenon DEF SessionStates
  <1>4. sessions' = [sessions EXCEPT ![s] = x]
    BY Zenon DEF SessionEvent
  <1> HIDE DEF e, x
  <1>5. /\ sessions' \in [Sessions -> SessionStates]
        /\ \A r \in Sessions : sessions[r].phase # "fresh" => sessions'[r].phase # "fresh"
    BY <1>3, <1>4, Zenon DEF Inv, TypeOK
  <1>6. OwnersGoOn
    <2>1. CASE owners' = owners
      BY <2>1, SameOwners, Zenon
    <2>2. ASSUME NEW k \in OwnersOf(s), owners' = [owners EXCEPT ![k].seen = @ \cup {n}]
          PROVE  OwnersGoOn
      <3>1. k \in Keys /\ owners[k] # None
        BY Zenon DEF OwnersOf
      <3>2. owners[k] \in Owners
        BY <3>1, AtKey, Zenon DEF Inv
      <3> DEFINE o == [owners[k] EXCEPT !.seen = @ \cup {n}]
      <3>3. /\ o \in Owners /\ o.session = owners[k].session /\ o.handle = owners[k].handle
            /\ o.emitted = owners[k].emitted
        BY <1>2, <3>2, Zenon DEF Owners
      <3>4. owners' = [owners EXCEPT ![k] = o]
        BY <2>2, Zenon
      <3> HIDE DEF o
      <3> QED
        BY <3>1, <3>3, <3>4, NoneApart, Zenon DEF Inv, TypeOK, OwnersKept, OwnersGoOn
    <2> QED
      BY <2>1, <2>2, Zenon DEF SessionEvent
  <1>7. SinksWait'
    <2>1. disposal' = disposal
      BY Zenon DEF SessionEvent
    <2>2. CASE sinks' = sinks
      BY <2>1, <2>2, SameSinks, Zenon
    <2>3. ASSUME NEW k \in OwnersOf(s), sinks' = Started({<<k[1], s, "progress", n>>}),
                 ~Disposed
          PROVE  SinksWait'
      <3>1. \A t \in sinks' : t \in sinks \/ t = NewTask(<<k[1], s, "progress", n>>)
        BY <2>3, Zenon DEF Started
      <3> QED
        BY <2>1, <2>3, <3>1, SMTT(30) DEF Inv, SinksWait, NewTask, Disposed
    <2> QED
      BY <2>2, <2>3, Zenon DEF SessionEvent, Heard
  <1>8. UNCHANGED <<store, handles, latest, creates, resumes, lost, recovery, disposal, told>>
    BY Zenon DEF SessionEvent
  <1>9. creates' \in [Jobs -> Creates \cup {None}]
    BY <1>8, Zenon DEF Inv, TypeOK
  <1> QED
    BY <1>5, <1>6, <1>7, <1>8, <1>9, TurnKeeps, Zenon

LEMMA TurnEndsKeeps ==
  ASSUME Inv, NEW s \in Sessions, TurnEnds(s)
  PROVE  Inv'
  <1>1. sessions[s] \in SessionStates
    BY Zenon DEF Inv, TypeOK
  <1>2. PICK reason \in Reasons :
          /\ sessions' = [sessions EXCEPT ![s].phase = "ended", ![s].reason = reason]
          /\ owners' = [k \in Keys |->
                IF k \in OwnersOf(s) /\ Heard(k, MaxEvents + 1) /\ TerminalFor(reason) # None
                THEN [owners[k] EXCEPT !.seen = @ \cup {MaxEvents + 1},
                                       !.terminal = TerminalFor(reason), !.watched = TRUE]
                ELSE owners[k]]
    BY Zenon DEF TurnEnds
  <1> DEFINE x == [sessions[s] EXCEPT !.phase = "ended", !.reason = reason]
  <1>3. x \in SessionStates /\ x.phase = "ended"
    BY <1>1, Zenon DEF SessionStates
  <1>4. sessions' = [sessions EXCEPT ![s] = x]
    BY <1>1, <1>2, Zenon DEF Inv, TypeOK
  <1> HIDE DEF x
  <1>5. /\ sessions' \in [Sessions -> SessionStates]
        /\ \A r \in Sessions : sessions[r].phase # "fresh" => sessions'[r].phase # "fresh"
    BY <1>3, <1>4, Zenon DEF Inv, TypeOK
  <1>6. OwnersGoOn
    <2>1. ASSUME NEW k \in Keys
          PROVE  \/ owners'[k] = owners[k]
                 \/ /\ owners[k] \in Owners /\ owners'[k] \in Owners
                    /\ owners'[k].session = owners[k].session
                    /\ owners'[k].handle = owners[k].handle
                    /\ owners'[k].emitted = owners[k].emitted
      <3>1. CASE k \in OwnersOf(s) /\ Heard(k, MaxEvents + 1) /\ TerminalFor(reason) # None
        <4> DEFINE v == TerminalFor(reason)
                   o == [owners[k] EXCEPT !.seen = @ \cup {MaxEvents + 1}, !.terminal = v,
                                          !.watched = TRUE]
        <4>1. owners'[k] = o
          BY <1>2, <3>1, Zenon
        <4>2. owners[k] \in Owners
          BY <3>1, AtKey, Zenon DEF Inv, OwnersOf
        <4>3. v \in {"succeeded", "failed", None}
          BY Zenon DEF TerminalFor
        <4>4. MaxEvents + 1 \in Nat
          BY MaxEventsAssumption, SMTT(30)
        <4> HIDE DEF v
        <4>5. /\ o \in Owners /\ o.session = owners[k].session /\ o.handle = owners[k].handle
              /\ o.emitted = owners[k].emitted
          BY <4>2, <4>3, <4>4, Zenon DEF Owners
        <4> QED
          BY <4>1, <4>2, <4>5, Zenon
      <3>2. CASE ~(k \in OwnersOf(s) /\ Heard(k, MaxEvents + 1) /\ TerminalFor(reason) # None)
        BY <1>2, <3>2, Zenon
      <3> QED
        BY <3>1, <3>2, Zenon
    <2>2. \A k \in Keys : owners'[k] \in Owners \cup {None}
      BY <2>1, Zenon DEF Inv, TypeOK
    <2>3. owners' \in [Keys -> Owners \cup {None}]
      BY <1>2, <2>2, Zenon
    <2>4. OwnersKept
      BY <2>1, NoneApart, Zenon DEF OwnersKept
    <2>5. \A l \in Keys : (owners[l] # None /\ owners[l].emitted) => owners'[l].emitted
      BY <2>1, Zenon
    <2> QED
      BY <2>3, <2>4, <2>5, Zenon DEF OwnersGoOn
  <1>7. /\ UNCHANGED <<store, handles, latest, creates, resumes, lost, recovery, disposal, told>>
        /\ SinksWait'
    BY SameSinks, Zenon DEF TurnEnds
  <1>8. creates' \in [Jobs -> Creates \cup {None}]
    BY <1>7, Zenon DEF Inv, TypeOK
  <1> QED
    BY <1>5, <1>6, <1>7, <1>8, TurnKeeps, Zenon

-----------------------------------------------------------------------------
(* Sinks and disposal *)

\* A step of the sinks, or the call of dispose.
LEMMA SinkKeeps ==
  ASSUME Inv, UNCHANGED <<store, sessions, handles, owners, latest, creates, resumes, lost,
                          recovery, told>>,
         disposal' = disposal \/ (disposal' = "tasks" /\ disposal = "no"), SinksWait'
  PROVE  Inv'
  <1>1. OwnersGoOn
    BY SameOwners, Zenon
  <1>2. TypeOK'
    BY Zenon DEF Inv, TypeOK
  <1>3. OneOwner' /\ Untouched'
    BY <1>1, OneOwnerKept, UntouchedKept, Zenon DEF OwnersGoOn
  <1>4. Unheard'
    <2>1. NothingNew
      BY Zenon DEF NothingNew, Unused
    <2> QED
      BY <2>1, UnheardKept, Zenon DEF Inv
  <1>5. Outcomes'
    <2>1. Disposed => Disposed'
      BY Zenon DEF Disposed
    <2> QED
      BY <1>1, <2>1, OutcomesKept, Zenon DEF OwnersGoOn
  <1>6. OpenIsOwned'
    <2>1. handles' = handles
      BY Zenon
    <2> QED
      BY <1>1, <2>1, OpenIsOwnedKept, Zenon DEF OwnersGoOn
  <1>7. \A j \in Jobs : creates'[j] \in {creates[j], None}
    BY Zenon
  <1> QED
    BY <1>2, <1>3, <1>4, <1>5, <1>6, <1>7, TasksKept, Zenon DEF Inv

LEMMA DisposeKeeps ==
  ASSUME Inv, Dispose
  PROVE  Inv'
  <1>1. disposal = "no" /\ disposal' = "tasks" /\ sinks' = sinks
    BY Zenon DEF Dispose, Disposed
  <1>2. SinksWait'
    BY <1>1, Zenon DEF Inv, SinksWait
  <1> QED
    BY <1>1, <1>2, SinkKeeps, Zenon DEF Dispose

LEMMA SinkDisposesKeeps ==
  ASSUME Inv, NEW t \in sinks, SinkDisposes(t)
  PROVE  Inv'
  <1>1. disposal' = disposal \/ (disposal' = "tasks" /\ disposal = "no")
    BY Zenon DEF SinkDisposes, Disposed
  <1>2. DOMAIN t = {"event", "waits", "released"}
    BY Zenon DEF Inv, SinksWait
  <1> DEFINE u == Released(t)
  <1>3. DOMAIN u = {"event", "waits", "released"} /\ u.waits
    BY <1>2, Zenon DEF Released
  <1>4. \A v \in sinks' : v \in sinks \/ v = u
    BY Zenon DEF SinkDisposes
  <1> HIDE DEF u
  <1>5. SinksWait'
    BY <1>1, <1>3, <1>4, Zenon DEF Inv, SinksWait
  <1> QED
    BY <1>1, <1>5, SinkKeeps, Zenon DEF SinkDisposes

LEMMA SinkReturnsKeeps ==
  ASSUME Inv, NEW t \in sinks, SinkReturns(t)
  PROVE  Inv'
  <1>1. sinks' \subseteq sinks /\ disposal' = disposal
    BY Zenon DEF SinkReturns
  <1>2. SinksWait'
    BY <1>1, Zenon DEF Inv, SinksWait
  <1> QED
    BY <1>1, <1>2, SinkKeeps, Zenon DEF SinkReturns

LEMMA DisposeGoesOnKeeps ==
  ASSUME Inv, DisposeGoesOn
  PROVE  Inv'
  <1>1. UNCHANGED <<store, sessions, creates, resumes, lost, recovery, sinks, told, faults>>
    BY Zenon DEF DisposeGoesOn
  <1>2. CASE /\ disposal = "tasks" /\ TasksSettled
             /\ disposal' = "idle"
             /\ handles' = [h \in DOMAIN handles |->
                   IF \E k \in Keys : owners[k] # None /\ owners[k].handle = h
                   THEN [handles[h] EXCEPT !.open = FALSE] ELSE handles[h]]
             /\ UNCHANGED <<owners, latest>>
    <2>1. OwnersGoOn
      BY <1>2, SameOwners, Zenon
    <2>2. ASSUME NEW h \in DOMAIN handles
          PROVE  /\ handles'[h] \in Handles /\ handles'[h].session = handles[h].session
                 /\ ~handles'[h].open
      <3>1. handles[h] \in Handles
        BY SMTT(30) DEF Inv, TypeOK
      <3>2. [handles[h] EXCEPT !.open = FALSE] \in Handles
            /\ [handles[h] EXCEPT !.open = FALSE].session = handles[h].session
            /\ [handles[h] EXCEPT !.open = FALSE].open = FALSE
        BY <3>1, Zenon DEF Handles
      <3>3. CASE \E k \in Keys : owners[k] # None /\ owners[k].handle = h
        BY <1>2, <3>2, <3>3, Zenon
      <3>4. CASE ~\E k \in Keys : owners[k] # None /\ owners[k].handle = h
        BY <1>2, <3>1, <3>4, Zenon DEF Inv, OpenIsOwned
      <3> QED
        BY <3>3, <3>4, Zenon
    <2>3. handles' \in Seq(Handles) /\ DOMAIN handles' = DOMAIN handles
      <3>1. DOMAIN handles = 1 .. Len(handles) /\ Len(handles) \in Nat
        BY SMTT(30) DEF Inv, TypeOK
      <3>2. DOMAIN handles' = DOMAIN handles
            /\ handles' = [h \in DOMAIN handles |-> handles'[h]]
        BY <1>2, Zenon
      <3> QED
        BY <2>2, <3>1, <3>2, SMTT(30)
    <2>4. TypeOK'
      BY <1>1, <1>2, <2>3, Zenon DEF Inv, TypeOK
    <2>5. OneOwner' /\ Untouched'
      BY <1>1, <1>2, <2>1, OneOwnerKept, UntouchedKept, Zenon DEF OwnersGoOn
    <2>6. Unheard'
      <3>1. \A s \in Sessions : Unused(s)' => Unused(s)
        BY <1>1, <2>2, <2>3, Zenon DEF Unused
      <3>2. NothingNew
        BY <1>1, <3>1, Zenon DEF NothingNew
      <3> QED
        BY <3>2, UnheardKept, Zenon DEF Inv
    <2>7. Outcomes'
      BY <1>2, Zenon DEF Outcomes, Disposed
    <2>8. OpenIsOwned'
      BY <1>2, <2>2, <2>3, Zenon DEF Inv, OpenIsOwned
    <2>9. SinksWait'
      BY <1>1, <1>2, Zenon DEF Inv, SinksWait
    <2>10. \A j \in Jobs : creates'[j] \in {creates[j], None}
      BY <1>1, Zenon
    <2> QED
      BY <1>1, <1>2, <2>4, <2>5, <2>6, <2>7, <2>8, <2>9, <2>10, TasksKept, Zenon DEF Inv
  <1>3. CASE /\ disposal = "idle"
             /\ disposal' = "events"
             /\ UNCHANGED <<handles, owners, latest>>
    <2>1. OwnersGoOn
      BY <1>3, SameOwners, Zenon
    <2>2. TypeOK'
      BY <1>1, <1>3, Zenon DEF Inv, TypeOK
    <2>3. OneOwner' /\ Untouched'
      BY <1>1, <1>3, <2>1, OneOwnerKept, UntouchedKept, Zenon DEF OwnersGoOn
    <2>4. Unheard'
      <3>1. NothingNew
        BY <1>1, <1>3, Zenon DEF NothingNew, Unused
      <3> QED
        BY <3>1, UnheardKept, Zenon DEF Inv
    <2>5. Outcomes'
      BY <1>3, Zenon DEF Outcomes, Disposed
    <2>6. OpenIsOwned' /\ SinksWait'
      BY <1>1, <1>3, Zenon DEF Inv, OpenIsOwned, SinksWait
    <2>7. \A j \in Jobs : creates'[j] \in {creates[j], None}
      BY <1>1, Zenon
    <2> QED
      BY <1>1, <1>3, <2>2, <2>3, <2>4, <2>5, <2>6, <2>7, TasksKept, Zenon DEF Inv
  <1>4. CASE /\ disposal = "events" /\ \A t \in sinks : t.released
             /\ disposal' = "done"
             /\ owners' = [k \in Keys |-> None]
             /\ latest' = Forgotten
             /\ UNCHANGED handles
    <2>1. latest' \in [Jobs -> Attempts \cup {None}] /\ \A j \in Jobs : latest'[j] = None
      BY <1>4, Zenon DEF Forgotten
    <2>2. TypeOK'
      BY <1>1, <1>4, <2>1, Zenon DEF Inv, TypeOK
    <2>3. OneOwner' /\ Untouched'
      BY <1>1, <1>4, <2>1, Zenon DEF Inv, OneOwner, Untouched
    <2>4. Unheard'
      <3>1. NothingNew
        BY <1>1, <1>4, Zenon DEF NothingNew, Unused
      <3> QED
        BY <3>1, UnheardKept, Zenon DEF Inv
    <2>5. Outcomes'
      BY <1>4, Zenon DEF Outcomes, Disposed
    <2>6. OpenIsOwned' /\ SinksWait'
      BY <1>1, <1>4, Zenon DEF Inv, OpenIsOwned, SinksWait
    <2>7. RunningIsNewest(store)' /\ OneOutcome' /\ ResumesBlindly'
      BY <1>1, Zenon DEF Inv, RunningIsNewest, OneOutcome, ResumesBlindly
    <2>8. Queued'
      <3>1. \A m \in recovery.queue : m.key[1] \in Jobs
        BY RecoveryFields, MappingFields, KeyParts, Zenon DEF Inv
      <3> QED
        BY <1>1, <2>1, <3>1, Zenon DEF Inv, Queued, Newest
    <2>9. Resuming'
      BY <1>1, <2>1, KeyParts, Zenon DEF Inv, Resuming, Newest
    <2>10. Creating'
      BY <1>1, <2>1, Zenon DEF Inv, Creating, Ready
    <2> QED
      BY <2>2, <2>3, <2>4, <2>5, <2>6, <2>7, <2>8, <2>9, <2>10, Zenon DEF Inv
  <1> QED
    BY <1>2, <1>3, <1>4, Zenon DEF DisposeGoesOn, DisposeStep

-----------------------------------------------------------------------------
(* Recovery *)

\* A step of the recovery after its caller was asked.
LEMMA RecoveryKeeps ==
  ASSUME Inv, UNCHANGED <<store, sessions, handles, owners, latest, creates, lost, sinks, disposal,
                          told>>,
         recovery.step \in {"next", "waits"}, recovery'.step \in {"next", "waits", "ready"},
         recovery' \in Recoveries, recovery'.down = recovery.down,
         resumes' \in [Keys -> Resumes \cup {None}],
         Queued', Resuming', Unheard', ResumesBlindly'
  PROVE  Inv'
  <1>1. OwnersGoOn
    BY SameOwners, Zenon
  <1>2. TypeOK'
    BY Zenon DEF Inv, TypeOK
  <1>3. OneOwner'
    BY <1>1, OneOwnerKept, Zenon DEF OwnersGoOn
  <1>4. Outcomes'
    BY <1>1, OutcomesKept, Zenon DEF OwnersGoOn, Disposed
  <1>5. OpenIsOwned'
    <2>1. handles' = handles /\ disposal' = disposal
      BY Zenon
    <2> QED
      BY <1>1, <2>1, OpenIsOwnedKept, Zenon DEF OwnersGoOn
  <1>6. Creating'
    BY Zenon DEF Inv, Creating, Ready
  <1>7. Untouched'
    BY Zenon DEF Inv, Untouched
  <1>8. RunningIsNewest(store)' /\ OneOutcome' /\ SinksWait'
    BY Zenon DEF Inv, RunningIsNewest, OneOutcome, SinksWait
  <1> QED
    BY <1>2, <1>3, <1>4, <1>5, <1>6, <1>7, <1>8, Zenon DEF Inv

\* What #startResume starts.
StartsOne(m) ==
  /\ resumes[m.key] = None /\ owners[m.key] = None
  /\ <<"session", m.key[1], m.session>> \notin lost
  /\ resumes' = [resumes EXCEPT ![m.key] = [session |-> m.session, status |-> m.status,
                                            step |-> "opens"]]

LEMMA StartResumeIs ==
  ASSUME TypeOK, NEW m \in Mappings, StartResume(m)
  PROVE  /\ resumes' \in [Keys -> Resumes \cup {None}]
         /\ resumes' = resumes \/ StartsOne(m)
  <1>1. m.key \in Keys /\ m.session \in Sessions /\ m.status \in Statuses
    BY MappingFields, Zenon
  <1>2. resumes' = resumes \/ StartsOne(m)
    BY Zenon DEF StartResume, StartsOne, IsLost, LostKeys
  <1>3. [session |-> m.session, status |-> m.status, step |-> "opens"] \in Resumes
    BY <1>1, Zenon DEF Resumes
  <1> QED
    BY <1>1, <1>2, <1>3, ZenonT(30) DEF TypeOK, StartsOne

LEMMA StartedAt ==
  ASSUME TypeOK, NEW m \in Mappings, StartsOne(m), NEW k \in Keys
  PROVE  /\ k # m.key => resumes'[k] = resumes[k]
         /\ k = m.key => resumes'[k].session = m.session /\ resumes'[k].status = m.status
  BY MappingFields, Zenon DEF TypeOK, StartsOne

LEMMA RecoverWaitsKeeps ==
  ASSUME Inv, RecoverWaits
  PROVE  Inv'
  <1>1. /\ recovery.step = "waits" /\ resumes[recovery.now.key] = None /\ resumes' = resumes
        /\ recovery' = [recovery EXCEPT !.step = "next", !.now = None]
    BY Zenon DEF RecoverWaits
  <1>2. /\ recovery' \in Recoveries /\ recovery'.step = "next" /\ recovery'.down = recovery.down
        /\ recovery'.queue = recovery.queue
    BY <1>1, Zenon DEF Inv, TypeOK, Recoveries
  <1>3. \A k \in Keys : resumes'[k] = None
    BY <1>1, Zenon DEF Inv, Resuming
  <1>4. UNCHANGED <<store, sessions, handles, owners, latest, creates, lost, sinks, disposal, told>>
    BY Zenon DEF RecoverWaits
  <1>5. Queued'
    BY <1>1, <1>2, <1>4, ZenonT(30) DEF Inv, Queued, Newest
  <1>6. Resuming' /\ ResumesBlindly'
    BY <1>3, Zenon DEF Resuming, ResumesBlindly
  <1>7. Unheard'
    <2>1. NothingNew
      BY <1>1, <1>2, <1>4, Zenon DEF NothingNew, Unused
    <2> QED
      BY <2>1, UnheardKept, Zenon DEF Inv
  <1>8. resumes' \in [Keys -> Resumes \cup {None}]
    BY <1>1, Zenon DEF Inv, TypeOK
  <1> QED
    BY <1>1, <1>2, <1>4, <1>5, <1>6, <1>7, <1>8, RecoveryKeeps, Zenon

LEMMA RecoverNextKeeps ==
  ASSUME Inv, RecoverNext
  PROVE  Inv'
  <1>1. /\ recovery.step = "next" /\ ~recovery.down
        /\ UNCHANGED <<store, sessions, handles, owners, latest, creates, lost, sinks, disposal,
                       told>>
    BY Zenon DEF RecoverNext, Inv, Queued
  <1>2. \A k \in Keys : resumes[k] = None
    BY <1>1, Zenon DEF Inv, Resuming
  <1>3. CASE /\ resumes' = resumes
             /\ \/ recovery.queue = {} /\ recovery' = [recovery EXCEPT !.step = "ready"]
                \/ \E m \in recovery.queue : recovery' = [recovery EXCEPT !.queue = @ \ {m}]
    <2>1. /\ recovery' \in Recoveries /\ recovery'.step \in {"next", "ready"}
          /\ recovery'.down = recovery.down /\ recovery'.queue \subseteq recovery.queue
          /\ recovery'.step = "ready" => recovery'.queue = {}
      <3>1. CASE recovery.queue = {} /\ recovery' = [recovery EXCEPT !.step = "ready"]
        BY <3>1, Zenon DEF Inv, TypeOK, Recoveries
      <3>2. ASSUME NEW m \in recovery.queue, recovery' = [recovery EXCEPT !.queue = @ \ {m}]
            PROVE  /\ recovery' \in Recoveries /\ recovery'.step \in {"next", "ready"}
                   /\ recovery'.down = recovery.down /\ recovery'.queue \subseteq recovery.queue
                   /\ recovery'.step = "ready" => recovery'.queue = {}
        BY <1>1, <3>2, Zenon DEF Inv, TypeOK, Recoveries
      <3> QED
        BY <1>3, <3>1, <3>2, Zenon
    <2>2. Queued'
      BY <1>1, <2>1, Zenon DEF Inv, Queued, Newest
    <2>3. Resuming' /\ ResumesBlindly'
      BY <1>2, <1>3, Zenon DEF Resuming, ResumesBlindly
    <2>4. Unheard'
      <3>1. NothingNew
        BY <1>1, <1>3, <2>1, Zenon DEF NothingNew, Unused
      <3> QED
        BY <3>1, UnheardKept, Zenon DEF Inv
    <2>5. resumes' \in [Keys -> Resumes \cup {None}]
      BY <1>3, Zenon DEF Inv, TypeOK
    <2> QED
      BY <1>1, <2>1, <2>2, <2>3, <2>4, <2>5, RecoveryKeeps, Zenon
  <1>4. ASSUME NEW m \in recovery.queue, isActiveStatus(m.status), StartResume(m),
               recovery' = [recovery EXCEPT !.step = "waits", !.queue = @ \ {m}, !.now = m]
        PROVE  Inv'
    <2>1. m \in Mappings /\ m.key \in Keys /\ m.key[1] \in Jobs /\ m # None
      BY RecoveryFields, MappingFields, KeyParts, NoneApart, Zenon DEF Inv
    <2>2. /\ recovery' \in Recoveries /\ recovery'.step = "waits" /\ ~recovery'.down
          /\ recovery'.queue = recovery.queue \ {m} /\ recovery'.now = m
          /\ recovery'.down = recovery.down
      BY <1>1, <1>4, <2>1, Zenon DEF Inv, TypeOK, Recoveries
    <2>3. /\ resumes' \in [Keys -> Resumes \cup {None}]
          /\ resumes' = resumes \/ StartsOne(m)
      BY <1>4, <2>1, StartResumeIs, Zenon DEF Inv
    <2>4. ASSUME NEW k \in Keys, resumes'[k] # None
          PROVE  /\ k = m.key /\ resumes'[k].session = m.session /\ resumes'[k].status = m.status
                 /\ <<"session", k[1], m.session>> \notin lost
      <3>1. StartsOne(m)
        BY <1>2, <2>3, <2>4, Zenon
      <3> QED
        BY <1>2, <2>1, <2>4, <3>1, StartedAt, Zenon DEF Inv, StartsOne
    <2>5. /\ Newest(m.key, store) /\ latest[m.key[1]] = None
          /\ \A n \in recovery.queue :
               (isActiveStatus(n.status) /\ n.key[1] = m.key[1]) => n = m
      BY <1>4, Zenon DEF Inv, Queued
    <2>6. Queued'
      <3>1. ASSUME NEW n \in recovery'.queue, isActiveStatus(n.status)
            PROVE  /\ Newest(n.key, store') /\ latest'[n.key[1]] = None
                   /\ \A o \in recovery'.queue :
                        (isActiveStatus(o.status) /\ o.key[1] = n.key[1]) => o = n
                   /\ recovery'.now.key[1] # n.key[1]
        <4>1. n \in recovery.queue /\ n # m
          BY <2>2, <3>1, Zenon
        <4>2. /\ Newest(n.key, store) /\ latest[n.key[1]] = None
              /\ \A o \in recovery.queue :
                   (isActiveStatus(o.status) /\ o.key[1] = n.key[1]) => o = n
          BY <3>1, <4>1, Zenon DEF Inv, Queued
        <4>3. m.key[1] # n.key[1]
          BY <2>5, <3>1, <4>1, Zenon
        <4>4. Newest(n.key, store')
          BY <1>1, <4>2, Zenon DEF Newest
        <4> QED
          BY <1>1, <2>2, <4>2, <4>3, <4>4, Zenon
      <3> QED
        BY <2>1, <2>2, <3>1, Zenon DEF Queued
    <2>7. Resuming'
      <3>1. Newest(m.key, store')
        BY <1>1, <2>5, Zenon DEF Newest
      <3> QED
        BY <1>1, <1>4, <2>2, <2>4, <2>5, <3>1, Zenon DEF Resuming
    <2>8. ResumesBlindly'
      BY <1>1, <2>4, Zenon DEF ResumesBlindly
    <2>9. Unheard'
      <3> SUFFICES ASSUME NEW s \in Sessions, Unused(s)'
                   PROVE  /\ \A k \in Keys : store'[k] # None => store'[k].session # s
                          /\ \A k \in Keys : resumes'[k] # None => resumes'[k].session # s
                          /\ \A n \in Known \cup recovery'.queue : n.session # s
                          /\ \A j \in Jobs : <<"session", j, s>> \notin lost'
        BY Zenon DEF Unheard
      <3>1. Unused(s)
        BY <1>1, Zenon DEF Unused
      <3>2. /\ \A k \in Keys : store[k] # None => store[k].session # s
            /\ \A n \in Known \cup recovery.queue : n.session # s
            /\ \A j \in Jobs : <<"session", j, s>> \notin lost
        BY <3>1, Zenon DEF Inv, Unheard
      <3> QED
        BY <1>1, <2>2, <2>4, <3>2, ZenonT(30)
    <2> QED
      BY <1>1, <2>2, <2>3, <2>6, <2>7, <2>8, <2>9, RecoveryKeeps, Zenon
  <1> QED
    BY <1>3, <1>4, Zenon DEF RecoverNext

\* Before the caller is asked, nothing is attached and no task is at work.
LEMMA KnownState ==
  ASSUME Inv, recovery.step = "known"
  PROVE  /\ \A k \in Keys : owners[k] = None /\ resumes[k] = None
         /\ \A j \in Jobs : latest[j] = None /\ creates[j] = None
         /\ lost = {} /\ \A x \in DOMAIN told : told[x].outcomes = 0
         /\ store \in Earlier
  <1>1. \A k \in Keys : owners[k] = None /\ resumes[k] = None
    BY Zenon DEF Inv, Untouched, Resuming
  <1>2. ASSUME NEW j \in Jobs PROVE latest[j] = None
    <2>1. CASE latest[j] # None
      <3>1. <<j, latest[j]>> \in Keys /\ owners[<<j, latest[j]>>] # None
        BY <2>1, PartsKey, SMTT(30) DEF Inv, TypeOK, OneOwner
      <3> QED
        BY <1>1, <3>1, Zenon
    <2> QED
      BY <2>1, Zenon
  <1>3. \A j \in Jobs : creates[j] = None
    BY Zenon DEF Inv, Creating, Ready
  <1> QED
    BY <1>1, <1>2, <1>3, Zenon DEF Inv, Untouched, Queued

\* The mappings of the caller join those of the table.
LEMMA KnownJoin ==
  ASSUME Inv, recovery.step = "known", ~recovery.down, NEW extra \in SUBSET Known,
         recovery' = [recovery EXCEPT !.step = "next",
                        !.queue = @ \cup {m \in extra : \A n \in recovery.queue : n.key # m.key}],
         UNCHANGED <<store, sessions, handles, owners, latest, creates, resumes, lost, sinks,
                     disposal, told>>
  PROVE  Inv'
  <1> DEFINE new == {m \in extra : \A n \in recovery.queue : n.key # m.key}
  <1>1. new \subseteq Known /\ new \subseteq Mappings
    BY KnownAssumption, Zenon
  <1>2. /\ recovery' \in Recoveries /\ recovery'.step = "next" /\ recovery'.down = recovery.down
        /\ recovery'.queue = recovery.queue \cup new
    BY <1>1, Zenon DEF Inv, TypeOK, Recoveries
  <1>3. \A m \in new, n \in recovery.queue : n.key # m.key
    BY Zenon
  <1> HIDE DEF new
  <1>4. TypeOK'
    BY <1>2, Zenon DEF Inv, TypeOK
  <1>5. Queued'
    <2>1. ASSUME NEW m \in recovery'.queue, isActiveStatus(m.status)
          PROVE  Newest(m.key, store) /\ latest[m.key[1]] = None
      <3>1. CASE m \in recovery.queue
        BY <2>1, <3>1, Zenon DEF Inv, Queued
      <3>2. CASE m \in new
        <4>1. m \in Known /\ m.key \in Keys /\ m.key[1] \in Jobs
          BY <1>1, <3>2, MappingFields, KeyParts, Zenon
        <4>2. Newest(m.key, store)
          BY <2>1, <4>1, KnownState, KnownAssumption, Zenon DEF Newest
        <4> QED
          BY <4>1, <4>2, KnownState, Zenon
      <3> QED
        BY <1>2, <3>1, <3>2, Zenon
    <2>2. ASSUME NEW m \in recovery'.queue, isActiveStatus(m.status),
                 NEW n \in recovery'.queue, isActiveStatus(n.status), n.key[1] = m.key[1]
          PROVE  n = m
      <3>1. CASE m \in recovery.queue /\ n \in recovery.queue
        BY <2>2, <3>1, Zenon DEF Inv, Queued
      <3>2. CASE m \in new /\ n \in new
        BY <1>1, <2>2, <3>2, KnownAssumption, Zenon
      <3>3. ASSUME NEW a \in recovery.queue, NEW b \in new, isActiveStatus(a.status),
                   isActiveStatus(b.status), a.key[1] = b.key[1]
            PROVE  FALSE
        <4>1. /\ a.key \in Keys /\ store[a.key] # None /\ isActiveStatus(store[a.key].status)
              /\ store \in Earlier /\ b \in Known
          BY <1>1, <3>3, RecoveryFields, MappingFields, Zenon DEF Inv, Queued
        <4>2. a.key = b.key
          BY <3>3, <4>1, KnownAssumption, Zenon
        <4> QED
          BY <1>3, <4>2, Zenon
      <3> QED
        BY <1>2, <2>2, <3>1, <3>2, <3>3, Zenon
    <2>3. \A m \in recovery'.queue : Newest(m.key, store)' <=> Newest(m.key, store)
      BY Zenon DEF Newest
    <2> QED
      BY <1>2, <2>1, <2>2, <2>3, Zenon DEF Queued
  <1>6. Resuming' /\ Creating' /\ ResumesBlindly'
    BY KnownState, Zenon DEF Resuming, Creating, ResumesBlindly
  <1>7. Untouched'
    BY <1>2, Zenon DEF Untouched
  <1>8. Unheard'
    <2>1. \A s \in Sessions : Unused(s)' => Unused(s)
      BY Zenon DEF Unused
    <2> QED
      BY <1>1, <1>2, <2>1, Zenon DEF Inv, Unheard
  <1>9. OneOwner' /\ Outcomes' /\ OpenIsOwned'
    <2>1. OwnersGoOn
      BY SameOwners, Zenon
    <2>2. handles' = handles /\ disposal' = disposal
      BY Zenon
    <2> QED
      BY <2>1, <2>2, OneOwnerKept, OutcomesKept, OpenIsOwnedKept, Zenon DEF OwnersGoOn, Disposed
  <1>10. RunningIsNewest(store)' /\ OneOutcome' /\ SinksWait'
    BY Zenon DEF Inv, RunningIsNewest, OneOutcome, SinksWait
  <1> QED
    BY <1>4, <1>5, <1>6, <1>7, <1>8, <1>9, <1>10, Zenon DEF Inv

LEMMA StartedWait ==
  ASSUME Inv, NEW E, sinks' = Started(E), disposal' = disposal
  PROVE  SinksWait'
  <1>1. CASE Disposed
    <2>1. sinks' = sinks
      BY <1>1, Zenon DEF Started
    <2> QED
      BY <2>1, SameSinks, Zenon
  <1>2. CASE ~Disposed
    <2>1. \A t \in sinks' : t \in sinks \/ \E e \in E : t = NewTask(e)
      BY <1>2, Zenon DEF Started
    <2>2. \A e \in E : DOMAIN NewTask(e) = {"event", "waits", "released"} /\ ~NewTask(e).released
      BY Zenon DEF NewTask
    <2>3. disposal' # "done"
      BY <1>2, Zenon DEF Disposed
    <2> QED
      BY <2>1, <2>2, <2>3, Zenon DEF Inv, SinksWait
  <1> QED
    BY <1>1, <1>2, Zenon

\* Without the table, every active mapping of the caller is reported lost.
LEMMA KnownLost ==
  ASSUME Inv, recovery.step = "known", recovery.down,
         NEW extra \in SUBSET Known, NEW writes \in BOOLEAN,
         NEW gone, gone = {m \in extra : isActiveStatus(m.status) /\ ~Disposed},
         lost' = lost \cup UNION {LostKeys(m.key[1], m.key[2], m.session) : m \in gone},
         store' = [k \in Keys |->
                     IF writes /\ \E m \in gone : m.key = k /\ Mappable(k, m.session)
                     THEN [session |-> (CHOOSE m \in gone : m.key = k).session,
                           status |-> "failed"]
                     ELSE store[k]],
         sinks' = Started({OutcomeEvent(m.key[1], m.session) : m \in gone}),
         told' = [x \in DOMAIN told |->
                    IF \E m \in gone : <<m.key[1], m.session>> = x
                    THEN [told[x] EXCEPT !.outcomes = @ + 1] ELSE told[x]],
         recovery' = [recovery EXCEPT !.step = "ready"],
         UNCHANGED <<sessions, handles, owners, latest, creates, resumes, disposal>>
  PROVE  Inv'
  <1>1. /\ recovery' \in Recoveries /\ recovery'.step = "ready" /\ recovery'.down
        /\ recovery'.queue = recovery.queue /\ recovery.queue = {}
    BY Zenon DEF Inv, TypeOK, Recoveries, Queued
  <1>2. gone \subseteq Known /\ gone \subseteq Mappings
    BY KnownAssumption, Zenon
  <1>3. ASSUME NEW k \in Keys
        PROVE  \/ store'[k] = store[k]
               \/ \E m \in gone : /\ m.key = k
                                  /\ store'[k] = [session |-> m.session, status |-> "failed"]
    <2>1. CASE writes /\ \E m \in gone : m.key = k /\ Mappable(k, m.session)
      <3> DEFINE c == CHOOSE m \in gone : m.key = k
      <3>1. c \in gone /\ c.key = k
        BY <2>1, Zenon
      <3>2. store'[k] = [session |-> c.session, status |-> "failed"]
        BY <2>1, Zenon
      <3> QED
        BY <3>1, <3>2, Zenon
    <2>2. CASE ~(writes /\ \E m \in gone : m.key = k /\ Mappable(k, m.session))
      BY <2>2, Zenon
    <2> QED
      BY <2>1, <2>2, Zenon
  <1>4. store' \in [Keys -> Rows \cup {None}]
    <2>1. \A k \in Keys : store'[k] \in Rows \cup {None}
      BY <1>2, <1>3, MappingFields, RowOf, ActiveStatuses, Zenon DEF Inv, TypeOK
    <2> QED
      BY <2>1, Zenon
  <1>5. ASSUME NEW x \in Jobs \X Sessions
        PROVE  /\ told'[x] \in Tallies /\ told'[x].blind = told[x].blind
               /\ told'[x].outcomes = IF \E m \in gone : <<m.key[1], m.session>> = x THEN 1 ELSE 0
    <2>1. told[x] \in Tallies /\ told[x].outcomes = 0 /\ x \in DOMAIN told
      BY KnownState, Zenon DEF Inv, TypeOK
    <2>2. /\ [told[x] EXCEPT !.outcomes = @ + 1] \in Tallies
          /\ [told[x] EXCEPT !.outcomes = @ + 1].outcomes = 1
          /\ [told[x] EXCEPT !.outcomes = @ + 1].blind = told[x].blind
      BY <2>1, SMTT(30) DEF Tallies
    <2>3. CASE \E m \in gone : <<m.key[1], m.session>> = x
      BY <2>1, <2>2, <2>3, Zenon
    <2>4. CASE ~\E m \in gone : <<m.key[1], m.session>> = x
      BY <2>1, <2>4, Zenon
    <2> QED
      BY <2>3, <2>4, Zenon
  <1>6. told' \in [Jobs \X Sessions -> Tallies]
    <2>1. DOMAIN told = Jobs \X Sessions
      BY Zenon DEF Inv, TypeOK
    <2> QED
      BY <1>5, <2>1, Zenon
  <1>7. TypeOK'
    BY <1>1, <1>4, <1>6, Zenon DEF Inv, TypeOK
  <1>8. RunningIsNewest(store)'
    <2> SUFFICES ASSUME NEW k \in Keys, NEW l \in Keys, k[1] = l[1], store'[k] # None,
                        store'[l] # None, isActiveStatus(store'[k].status)
                 PROVE  l[2] <= k[2]
      BY Zenon DEF RunningIsNewest
    <2>1. store'[k] = store[k]
      BY <1>3, ActiveStatuses, Zenon
    <2>2. CASE store[l] # None
      BY <2>1, <2>2, Zenon DEF Inv, RunningIsNewest
    <2>3. CASE store[l] = None
      <3>1. PICK m \in gone : m.key = l
        BY <1>3, <2>3, Zenon
      <3>2. m \in Known /\ isActiveStatus(m.status) /\ store \in Earlier
        BY <1>2, KnownState, Zenon
      <3>3. k = l
        BY <2>1, <3>1, <3>2, KnownAssumption, Zenon
      <3> QED
        BY <3>3, KeyParts, SMTT(30)
    <2> QED
      BY <2>2, <2>3, Zenon
  <1>9. OneOwner' /\ Untouched' /\ Resuming' /\ Creating' /\ ResumesBlindly'
    BY <1>1, KnownState, Zenon DEF OneOwner, Untouched, Resuming, Creating, ResumesBlindly
  <1>10. Queued'
    BY <1>1, Zenon DEF Queued
  <1>11. ASSUME NEW j \in Jobs, NEW s \in Sessions
         PROVE  <<"session", j, s>> \in lost' <=> \E m \in gone : m.key[1] = j /\ m.session = s
    <2>1. lost = {}
      BY KnownState, Zenon
    <2>2. ASSUME NEW m \in gone
          PROVE  <<"session", j, s>> \in LostKeys(m.key[1], m.key[2], m.session)
                   <=> m.key[1] = j /\ m.session = s
      BY Zenon DEF LostKeys
    <2> QED
      BY <2>1, <2>2, ZenonT(30)
  <1>12. Unheard'
    <2> SUFFICES ASSUME NEW s \in Sessions, Unused(s)'
                 PROVE  /\ \A k \in Keys : store'[k] # None => store'[k].session # s
                        /\ \A k \in Keys : resumes'[k] # None => resumes'[k].session # s
                        /\ \A n \in Known \cup recovery'.queue : n.session # s
                        /\ \A j \in Jobs : <<"session", j, s>> \notin lost'
      BY Zenon DEF Unheard
    <2>1. Unused(s)
      BY Zenon DEF Unused
    <2>2. /\ \A k \in Keys : store[k] # None => store[k].session # s
          /\ \A n \in Known : n.session # s
      BY <2>1, Zenon DEF Inv, Unheard
    <2>3. \A k \in Keys : store'[k] # None => store'[k].session # s
      BY <1>2, <1>3, <2>2, Zenon
    <2>4. \A j \in Jobs : <<"session", j, s>> \notin lost'
      BY <1>2, <1>11, <2>2, SMTT(30)
    <2> QED
      BY <1>1, <2>2, <2>3, <2>4, KnownState, Zenon
  <1>13. OneOutcome'
    <2>1. DOMAIN told' = Jobs \X Sessions
      BY <1>6, Zenon
    <2>2. ASSUME NEW x \in Jobs \X Sessions
          PROVE  told'[x].outcomes <= IF told'[x].blind THEN 2 ELSE 1
      <3>1. told'[x].outcomes \in {0, 1}
        BY <1>5, ZenonT(30)
      <3> QED
        BY <3>1, SMTT(30)
    <2> QED
      BY <2>1, <2>2, Zenon DEF OneOutcome
  <1>14. Outcomes'
    <2> SUFFICES ASSUME NEW j \in Jobs, NEW s \in Sessions
                 PROVE  /\ told'[<<j, s>>].outcomes <=
                             (IF <<"session", j, s>> \in lost' THEN 1 ELSE 0)
                               + (IF Settled(j, s)' THEN 1 ELSE 0)
                        /\ ~Held(j, s)'
      BY Zenon DEF Outcomes
    <2>1. ~Held(j, s)'
      BY KnownState, Zenon DEF Held
    <2>2. told'[<<j, s>>].outcomes =
            IF \E m \in gone : <<m.key[1], m.session>> = <<j, s>> THEN 1 ELSE 0
      BY <1>5, Zenon
    <2>3. told'[<<j, s>>].outcomes <= IF <<"session", j, s>> \in lost' THEN 1 ELSE 0
      BY <1>11, <2>2, SMTT(30)
    <2>4. told'[<<j, s>>].outcomes \in Nat
      BY <2>2, SMTT(30)
    <2>5. ASSUME NEW n \in Nat, NEW a \in {0, 1}, NEW b \in {0, 1}, n <= a
          PROVE  n <= a + b
      BY <2>5, SMTT(30)
    <2>6. /\ (IF <<"session", j, s>> \in lost' THEN 1 ELSE 0) \in {0, 1}
          /\ (IF Settled(j, s)' THEN 1 ELSE 0) \in {0, 1}
      BY Zenon
    <2> QED
      BY <2>1, <2>3, <2>4, <2>5, <2>6, Zenon
  <1>15. OpenIsOwned'
    BY Zenon DEF Inv, OpenIsOwned
  <1>16. SinksWait'
    BY StartedWait, Zenon
  <1> QED
    BY <1>7, <1>8, <1>9, <1>10, <1>12, <1>13, <1>14, <1>15, <1>16, Zenon DEF Inv

LEMMA RecoverKnownKeeps ==
  ASSUME Inv, RecoverKnown
  PROVE  Inv'
  <1>1. CASE recovery.down
    <2>1. PICK extra \in SUBSET Known, writes \in BOOLEAN :
            LET gone == {m \in extra : isActiveStatus(m.status) /\ ~Disposed}
            IN  /\ lost' = lost \cup UNION {LostKeys(m.key[1], m.key[2], m.session) : m \in gone}
                /\ store' = [k \in Keys |->
                       IF writes /\ \E m \in gone : m.key = k /\ Mappable(k, m.session)
                       THEN [session |-> (CHOOSE m \in gone : m.key = k).session,
                             status |-> "failed"]
                       ELSE store[k]]
                /\ sinks' = Started({OutcomeEvent(m.key[1], m.session) : m \in gone})
                /\ told' = [x \in DOMAIN told |->
                       IF \E m \in gone : <<m.key[1], m.session>> = x
                       THEN [told[x] EXCEPT !.outcomes = @ + 1] ELSE told[x]]
                /\ recovery' = [recovery EXCEPT !.step = "ready"]
      BY <1>1, Zenon DEF RecoverKnown
    <2>2. /\ recovery.step = "known"
          /\ UNCHANGED <<sessions, handles, owners, latest, creates, resumes, disposal>>
      BY Zenon DEF RecoverKnown
    <2> DEFINE gone == {m \in extra : isActiveStatus(m.status) /\ ~Disposed}
    <2>3. gone = {m \in extra : isActiveStatus(m.status) /\ ~Disposed}
      BY Zenon
    <2> HIDE DEF gone
    <2> QED
      BY <1>1, <2>1, <2>2, <2>3, KnownLost, Zenon
  <1>2. CASE ~recovery.down
    <2>1. PICK extra \in SUBSET Known :
            recovery' = [recovery EXCEPT !.step = "next",
                           !.queue = @ \cup {m \in extra : \A n \in recovery.queue : n.key # m.key}]
      BY <1>2, Zenon DEF RecoverKnown
    <2>2. /\ recovery.step = "known"
          /\ UNCHANGED <<store, sessions, handles, owners, latest, creates, resumes, lost, sinks,
                         disposal, told>>
      BY <1>2, Zenon DEF RecoverKnown
    <2> QED
      BY <1>2, <2>1, <2>2, KnownJoin, Zenon
  <1> QED
    BY <1>1, <1>2, Zenon

-----------------------------------------------------------------------------
(* One job at a time *)

\* A resume at work is the only task of its job.
LEMMA ResumeAlone ==
  ASSUME Inv, NEW k \in Keys, resumes[k] # None
  PROVE  /\ \A m \in recovery.queue : isActiveStatus(m.status) => m.key[1] # k[1]
         /\ \A l \in Keys : l[1] = k[1] /\ l # k => resumes[l] = None
         /\ creates[k[1]] # None => creates[k[1]].step # "opens"
         /\ \A l \in Keys : l[1] = k[1] => owners[l] = None
         /\ recovery.step # "known" /\ ~recovery.down
  <1>1. /\ ~recovery.down /\ latest[k[1]] = None /\ Newest(k, store)
        /\ recovery.step \in {"waits", "ready"}
        /\ recovery.step = "waits" => recovery.now.key = k
        /\ recovery.step = "ready" => store[k] # None /\ isActiveStatus(store[k].status)
    BY Zenon DEF Inv, Resuming
  <1>2. \A m \in recovery.queue : isActiveStatus(m.status) => m.key[1] # k[1]
    BY <1>1, Zenon DEF Inv, Queued
  <1>3. ASSUME NEW l \in Keys, l[1] = k[1], l # k PROVE resumes[l] = None
    <2>1. CASE recovery.step = "waits"
      BY <1>1, <1>3, <2>1, Zenon DEF Inv, Resuming
    <2>2. CASE recovery.step = "ready"
      BY <1>1, <1>3, <2>2, Zenon DEF Inv, Resuming, Newest
    <2> QED
      BY <1>1, <2>1, <2>2, Zenon
  <1>4. creates[k[1]] # None => creates[k[1]].step # "opens"
    BY <1>1, KeyParts, Zenon DEF Inv, Creating, Ready
  <1>5. \A l \in Keys : l[1] = k[1] => owners[l] = None
    BY <1>1, KeyParts, SMTT(30) DEF Inv, OneOwner
  <1> QED
    BY <1>1, <1>2, <1>3, <1>4, <1>5, Zenon

\* An owned job has no task.
LEMMA OwnerAlone ==
  ASSUME Inv, NEW k \in Keys, owners[k] # None
  PROVE  /\ \A m \in recovery.queue : isActiveStatus(m.status) => m.key[1] # k[1]
         /\ \A l \in Keys : l[1] = k[1] => resumes[l] = None
         /\ creates[k[1]] # None => creates[k[1]].step # "opens"
         /\ \A l \in Keys : l[1] = k[1] /\ l # k => owners[l] = None
         /\ recovery.step # "known" /\ ~recovery.down
  <1>1. latest[k[1]] = k[2] /\ latest[k[1]] # None /\ k[1] \in Jobs
    BY KeyParts, Zenon DEF Inv, OneOwner
  <1>2. \A m \in recovery.queue : isActiveStatus(m.status) => m.key[1] # k[1]
    BY <1>1, Zenon DEF Inv, Queued
  <1>3. \A l \in Keys : l[1] = k[1] => resumes[l] = None
    BY <1>1, Zenon DEF Inv, Resuming
  <1>4. creates[k[1]] # None => creates[k[1]].step # "opens"
    BY <1>1, Zenon DEF Inv, Creating
  <1>5. \A l \in Keys : l[1] = k[1] /\ l # k => owners[l] = None
    BY <1>1, SameKey, SMTT(30) DEF Inv, OneOwner
  <1>6. recovery.step # "known" /\ ~recovery.down
    BY Zenon DEF Inv, Untouched
  <1> QED
    BY <1>2, <1>3, <1>4, <1>5, <1>6, Zenon

\* A create that waits for its agent is the only task of its job.
LEMMA CreateAlone ==
  ASSUME Inv, NEW j \in Jobs, creates[j] # None, creates[j].step = "opens"
  PROVE  /\ recovery.queue = {} /\ recovery.step = "ready" /\ ~recovery.down
         /\ \A l \in Keys : l[1] = j => resumes[l] = None /\ owners[l] = None
         /\ creates[j].key \in Keys /\ creates[j].key[1] = j
         /\ \A l \in Keys :
              (l[1] = j /\ store[l] # None) =>
                l[2] < creates[j].key[2] /\ ~isActiveStatus(store[l].status)
  <1>1. /\ Ready /\ ~recovery.down /\ latest[j] = None /\ creates[j].key[1] = j
        /\ \A l \in Keys :
             (l[1] = j /\ store[l] # None) =>
               l[2] < creates[j].key[2] /\ ~isActiveStatus(store[l].status)
    BY Zenon DEF Inv, Creating
  <1>2. recovery.step = "ready" /\ recovery.queue = {}
    BY <1>1, Zenon DEF Inv, Queued, Ready
  <1>3. \A l \in Keys : l[1] = j => resumes[l] = None
    BY <1>1, <1>2, Zenon DEF Inv, Resuming
  <1>4. \A l \in Keys : l[1] = j => owners[l] = None
    BY <1>1, KeyParts, SMTT(30) DEF Inv, OneOwner
  <1>5. creates[j] \in Creates
    BY Zenon DEF Inv, TypeOK
  <1>6. creates[j].key \in Keys
    BY <1>5, Zenon DEF Creates
  <1> QED
    BY <1>1, <1>2, <1>3, <1>4, <1>6, Zenon

\* A step of k's job that leaves it without a resume.
LEMMA OneJobStep ==
  ASSUME Inv, NEW k \in Keys, recovery' = recovery, recovery.step # "known",
         \A m \in recovery.queue : isActiveStatus(m.status) => m.key[1] # k[1],
         \A l \in Keys : l[1] # k[1] => store'[l] = store[l] /\ resumes'[l] = resumes[l],
         \A l \in Keys : l[1] = k[1] => resumes'[l] = None,
         \A j \in Jobs : j # k[1] => latest'[j] = latest[j] /\ creates'[j] = creates[j],
         \/ creates'[k[1]] = None
         \/ creates'[k[1]] = creates[k[1]] /\ creates[k[1]].step # "opens"
  PROVE  Queued' /\ Resuming' /\ Creating'
  <1>1. ASSUME NEW l \in Keys, l[1] # k[1] PROVE Newest(l, store)' <=> Newest(l, store)
    BY <1>1, Zenon DEF Newest
  <1>2. Queued'
    <2>1. \A m \in recovery.queue : m.key \in Keys /\ m.key[1] \in Jobs
      BY RecoveryFields, MappingFields, KeyParts, Zenon DEF Inv
    <2> QED
      BY <1>1, <2>1, SMTT(30) DEF Inv, Queued
  <1>3. Resuming'
    <2> SUFFICES ASSUME NEW l \in Keys, resumes'[l] # None
                 PROVE  /\ ~recovery'.down /\ latest'[l[1]] = None /\ Newest(l, store)'
                        /\ isActiveStatus(resumes'[l].status)
                        /\ recovery'.step \in {"waits", "ready"}
                        /\ recovery'.step = "waits" => recovery'.now.key = l
                        /\ recovery'.step = "ready" =>
                             /\ store'[l] # None /\ store'[l].session = resumes'[l].session
                             /\ isActiveStatus(store'[l].status)
      BY Zenon DEF Resuming
    <2>1. l[1] # k[1] /\ resumes[l] # None /\ resumes'[l] = resumes[l] /\ l[1] \in Jobs
      BY KeyParts, Zenon
    <2> QED
      BY <1>1, <2>1, SMTT(30) DEF Inv, Resuming
  <1>4. Creating'
    <2> SUFFICES ASSUME NEW j \in Jobs, creates'[j] # None
                 PROVE  /\ Ready' /\ ~recovery'.down
                        /\ creates'[j].step = "opens" =>
                             /\ latest'[j] = None /\ creates'[j].key[1] = j
                             /\ \A l \in Keys :
                                  (l[1] = j /\ store'[l] # None) =>
                                    /\ l[2] < creates'[j].key[2]
                                    /\ ~isActiveStatus(store'[l].status)
      BY Zenon DEF Creating
    <2>1. creates'[j] = creates[j] /\ (creates[j].step = "opens" => j # k[1])
      BY Zenon
    <2> QED
      BY <2>1, SMTT(30) DEF Inv, Creating, Ready
  <1> QED
    BY <1>2, <1>3, <1>4, Zenon

-----------------------------------------------------------------------------
(* Writes of the table *)

\* mapJob writes row k or nothing, and never another session over it.
Written(k, s, status) ==
  /\ store' \in [Keys -> Rows \cup {None}]
  /\ \A l \in Keys : l # k => store'[l] = store[l]
  /\ \/ store'[k] = store[k]
     \/ /\ store'[k] = [session |-> s, status |-> status]
        /\ store[k] # None => store[k].session = s

LEMMA StoredWrites ==
  ASSUME Inv, NEW k \in Keys, NEW s \in Sessions, NEW status \in Statuses,
         store' = store \/ store' = Stored(k, s, status)
  PROVE  Written(k, s, status)
  <1>1. [session |-> s, status |-> status] \in Rows
    BY RowOf, Zenon
  <1> DEFINE row == [session |-> s, status |-> status]
  <1>2. \/ store' = store
        \/ store' = [store EXCEPT ![k] = row] /\ (store[k] # None => store[k].session = s)
    BY Zenon DEF Stored, Mappable
  <1> HIDE DEF row
  <1>3. /\ store' \in [Keys -> Rows \cup {None}]
        /\ \A l \in Keys : l # k => store'[l] = store[l]
        /\ store'[k] = store[k] \/ (store'[k] = row /\ (store[k] # None => store[k].session = s))
    BY <1>1, <1>2, Zenon DEF Inv, TypeOK, row
  <1> QED
    BY <1>3, Zenon DEF Written, row

LEMMA WrittenRows ==
  ASSUME NEW k \in Keys, NEW s \in Sessions, NEW status \in Statuses, Written(k, s, status),
         NEW l \in Keys
  PROVE  /\ store[l] # None => store'[l] # None
         /\ store'[l] # None =>
              \/ store[l] # None /\ store'[l].session = store[l].session
              \/ l = k /\ store'[l].session = s
  BY RowOf, SMTT(30) DEF Written

\* The end of an attempt keeps the newest one in front.
LEMMA EndWritten ==
  ASSUME Inv, NEW k \in Keys, NEW s \in Sessions, NEW status \in {"succeeded", "failed"},
         Written(k, s, status), store[k] # None \/ Newest(k, store)
  PROVE  RunningIsNewest(store)'
  <1> SUFFICES ASSUME NEW l \in Keys, NEW n \in Keys, l[1] = n[1], store'[l] # None,
                      store'[n] # None, isActiveStatus(store'[l].status)
               PROVE  n[2] <= l[2]
    BY Zenon DEF RunningIsNewest
  <1>1. store'[l] = store[l]
    BY ActiveStatuses, SMTT(30) DEF Written
  <1>2. CASE store[n] # None
    BY <1>1, <1>2, Zenon DEF Inv, RunningIsNewest
  <1>3. CASE store[n] = None
    <2>1. n = k /\ Newest(k, store)
      BY <1>3, Zenon DEF Written
    <2>2. l = k
      BY <1>1, <2>1, Zenon DEF Newest
    <2> QED
      BY <1>1, <1>3, <2>1, <2>2, Zenon
  <1> QED
    BY <1>2, <1>3, Zenon

-----------------------------------------------------------------------------
(* Outcomes *)

\* The sink is given one more outcome of session s of job j.
Tells(j, s, blind) ==
  /\ told' \in [Jobs \X Sessions -> Tallies]
  /\ \A x \in Jobs \X Sessions : x # <<j, s>> => told'[x] = told[x]
  /\ told'[<<j, s>>].outcomes = told[<<j, s>>].outcomes + 1
  /\ told'[<<j, s>>].blind = (told[<<j, s>>].blind \/ blind)

LEMMA CountedTells ==
  ASSUME Inv, NEW j \in Jobs, NEW s \in Sessions, ~Disposed
  PROVE  /\ told' = Counted(j, s) => Tells(j, s, FALSE)
         /\ told' = [Counted(j, s) EXCEPT ![<<j, s>>].blind = TRUE] => Tells(j, s, TRUE)
  <1>1. /\ <<j, s>> \in Jobs \X Sessions /\ told \in [Jobs \X Sessions -> Tallies]
        /\ told[<<j, s>>] \in Tallies
    BY Zenon DEF Inv, TypeOK
  <1> DEFINE x == <<j, s>>
             r == [told[x] EXCEPT !.outcomes = @ + 1]
             q == [r EXCEPT !.blind = TRUE]
  <1>2. /\ r \in Tallies /\ r.outcomes = told[x].outcomes + 1 /\ r.blind = told[x].blind
        /\ q \in Tallies /\ q.outcomes = told[x].outcomes + 1 /\ q.blind
        /\ told[x].blind \in BOOLEAN /\ q.blind \in BOOLEAN
    <2>1. told[x] \in Tallies /\ told[x].outcomes + 1 \in Nat /\ told[x].blind \in BOOLEAN
      BY <1>1, SMTT(30) DEF Tallies
    <2>2. r \in Tallies /\ r.outcomes = told[x].outcomes + 1 /\ r.blind = told[x].blind
      BY <2>1, Zenon DEF Tallies
    <2> HIDE DEF r
    <2>3. q \in Tallies /\ q.outcomes = r.outcomes /\ q.blind
      BY <2>2, Zenon DEF Tallies
    <2>4. q.blind \in BOOLEAN
      BY <2>3, Zenon DEF Tallies
    <2> QED
      BY <2>1, <2>2, <2>3, <2>4, Zenon
  <1>3. Counted(j, s) = [told EXCEPT ![x] = r]
    BY Zenon DEF Counted
  <1>4. [Counted(j, s) EXCEPT ![x].blind = TRUE] = [told EXCEPT ![x] = q]
    BY <1>1, <1>3, Zenon
  <1> HIDE DEF r, q
  <1>5. told' = [told EXCEPT ![x] = r] => Tells(j, s, FALSE)
    BY <1>1, <1>2, Zenon DEF Tells
  <1>6. told' = [told EXCEPT ![x] = q] => Tells(j, s, TRUE)
    BY <1>1, <1>2, Zenon DEF Tells
  <1> QED
    BY <1>3, <1>4, <1>5, <1>6, Zenon

\* The tally bounds what the sink hears.
LEMMA TalliedOnce ==
  ASSUME TypeOK', Outcomes', ~Disposed'
  PROVE  OneOutcome'
  <1>1. DOMAIN told' = Jobs \X Sessions
    BY Zenon DEF TypeOK
  <1>2. ASSUME NEW j \in Jobs, NEW s \in Sessions
        PROVE  told'[<<j, s>>].outcomes <= IF told'[<<j, s>>].blind THEN 2 ELSE 1
    <2>1. told'[<<j, s>>] \in Tallies
      BY Zenon DEF TypeOK
    <2>2. told'[<<j, s>>].outcomes \in Nat
      BY <2>1, Zenon DEF Tallies
    <2>3. /\ told'[<<j, s>>].outcomes <=
               (IF <<"session", j, s>> \in lost' THEN 1 ELSE 0)
                 + (IF Settled(j, s)' THEN 1 ELSE 0)
          /\ (<<"session", j, s>> \in lost' /\ Held(j, s)') => told'[<<j, s>>].blind
      BY Zenon DEF Outcomes
    <2>4. Settled(j, s)' => Held(j, s)'
      BY Zenon DEF Settled, Held
    <2> QED
      BY <2>2, <2>3, <2>4, SMTT(30)
  <1> QED
    BY <1>1, <1>2, SMTT(30) DEF OneOutcome

\* Session s of job j is reported lost for the first time: it has no owner and no
\* other resume, or it was reported blindly.
LEMMA LosingKeeps ==
  ASSUME Inv, NEW j \in Jobs, NEW s \in Sessions, NEW blind \in BOOLEAN,
         ~Disposed, recovery.step # "known",
         <<"session", j, s>> \notin lost, ~Unused(s),
         \A i \in Jobs, r \in Sessions :
           <<"session", i, r>> \in lost' <=> <<"session", i, r>> \in lost \/ (i = j /\ r = s),
         Tells(j, s, blind), Held(j, s) => blind,
         UNCHANGED <<sessions, handles, owners, latest, creates, recovery, disposal>>,
         resumes' \in [Keys -> Resumes \cup {None}],
         \A k \in Keys : resumes'[k] # None => resumes'[k] = resumes[k],
         \A k \in Keys : (resumes'[k] # None /\ k[1] = j /\ resumes'[k].session = s) => blind,
         store' \in [Keys -> Rows \cup {None}],
         \A k \in Keys : store[k] # None => store'[k] # None,
         \A k \in Keys : store'[k] # None => \/ store[k] # None /\ store'[k].session = store[k].session
                                             \/ store'[k].session = s,
         RunningIsNewest(store)', Queued', Resuming', Creating', SinksWait'
  PROVE  Inv'
  <1>1. OwnersGoOn
    BY SameOwners, Zenon
  <1>2. TypeOK'
    BY Zenon DEF Inv, TypeOK, Tells
  <1>3. OneOwner' /\ Untouched'
    BY <1>1, OneOwnerKept, UntouchedKept, Zenon DEF OwnersGoOn
  <1>4. Unheard'
    <2> SUFFICES ASSUME NEW q \in Sessions, Unused(q)'
                 PROVE  /\ \A k \in Keys : store'[k] # None => store'[k].session # q
                        /\ \A k \in Keys : resumes'[k] # None => resumes'[k].session # q
                        /\ \A n \in Known \cup recovery'.queue : n.session # q
                        /\ \A i \in Jobs : <<"session", i, q>> \notin lost'
      BY Zenon DEF Unheard
    <2>1. Unused(q) /\ q # s
      BY Zenon DEF Unused
    <2>2. /\ \A k \in Keys : store[k] # None => store[k].session # q
          /\ \A k \in Keys : resumes[k] # None => resumes[k].session # q
          /\ \A n \in Known \cup recovery.queue : n.session # q
          /\ \A i \in Jobs : <<"session", i, q>> \notin lost
      BY <2>1, Zenon DEF Inv, Unheard
    <2> QED
      BY <2>1, <2>2, Zenon
  <1>5. ResumesBlindly'
    <2> SUFFICES ASSUME NEW k \in Keys, resumes'[k] # None,
                        <<"session", k[1], resumes'[k].session>> \in lost'
                 PROVE  told'[<<k[1], resumes'[k].session>>].blind
      BY Zenon DEF ResumesBlindly
    <2> DEFINE r == resumes'[k].session
    <2>1. k[1] \in Jobs /\ r \in Sessions /\ resumes'[k] = resumes[k]
      BY KeyParts, ResumeFields, SMTT(30)
    <2>2. CASE k[1] = j /\ r = s
      BY <2>2, Zenon DEF Tells
    <2>3. CASE ~(k[1] = j /\ r = s)
      <3>1. <<"session", k[1], r>> \in lost /\ <<k[1], r>> # <<j, s>>
        BY <2>1, <2>3, Zenon
      <3>2. told[<<k[1], r>>].blind
        BY <2>1, <3>1, Zenon DEF Inv, ResumesBlindly
      <3> QED
        BY <2>1, <3>1, <3>2, Zenon DEF Tells
    <2> QED
      BY <2>2, <2>3, Zenon
  <1>6. Outcomes'
    <2> SUFFICES ASSUME NEW i \in Jobs, NEW r \in Sessions
                 PROVE  /\ told'[<<i, r>>].outcomes <=
                             (IF <<"session", i, r>> \in lost' THEN 1 ELSE 0)
                               + (IF Settled(i, r)' THEN 1 ELSE 0)
                        /\ (<<"session", i, r>> \in lost' /\ Held(i, r)') => told'[<<i, r>>].blind
      BY Zenon DEF Outcomes
    <2>1. /\ told[<<i, r>>].outcomes <=
               (IF <<"session", i, r>> \in lost THEN 1 ELSE 0) + (IF Settled(i, r) THEN 1 ELSE 0)
          /\ (<<"session", i, r>> \in lost /\ Held(i, r)) => told[<<i, r>>].blind
      BY Zenon DEF Inv, Outcomes
    <2>2. (Settled(i, r)' <=> Settled(i, r)) /\ (Held(i, r)' <=> Held(i, r))
      BY Zenon DEF Settled, Held
    <2>3. told[<<i, r>>].outcomes \in Nat
      BY TallyAt, Zenon DEF Inv
    <2>4. CASE i = j /\ r = s
      <3>1. <<"session", i, r>> \in lost' /\ <<"session", i, r>> \notin lost
        BY <2>4, Zenon
      <3>2. told'[<<i, r>>].outcomes = told[<<i, r>>].outcomes + 1
        BY <2>4, Zenon DEF Tells
      <3>3. Held(i, r)' => told'[<<i, r>>].blind
        BY <2>2, <2>4, Zenon DEF Tells
      <3> QED
        BY <2>1, <2>2, <2>3, <3>1, <3>2, <3>3, SMTT(30)
    <2>5. CASE ~(i = j /\ r = s)
      <3>1. (<<"session", i, r>> \in lost' <=> <<"session", i, r>> \in lost) /\ <<i, r>> # <<j, s>>
        BY <2>5, Zenon
      <3>2. told'[<<i, r>>] = told[<<i, r>>]
        BY <3>1, Zenon DEF Tells
      <3> QED
        BY <2>1, <2>2, <3>1, <3>2, Zenon
    <2> QED
      BY <2>4, <2>5, Zenon
  <1>7. OneOutcome'
    BY <1>2, <1>6, TalliedOnce, Zenon DEF Disposed
  <1>8. OpenIsOwned'
    <2>1. handles' = handles /\ disposal' = disposal
      BY Zenon
    <2> QED
      BY <1>1, <2>1, OpenIsOwnedKept, Zenon DEF OwnersGoOn
  <1> QED
    BY <1>2, <1>3, <1>4, <1>5, <1>6, <1>7, <1>8, Zenon DEF Inv

\* What #emitSessionLost adds to the lost keys.
LEMMA LostGrows ==
  ASSUME NEW j, NEW a, NEW s, ~IsLost(j, a, s), lost' = lost \cup LostKeys(j, a, s)
  PROVE  /\ <<"session", j, s>> \notin lost
         /\ \A i \in Jobs, r \in Sessions :
              <<"session", i, r>> \in lost' <=> <<"session", i, r>> \in lost \/ (i = j /\ r = s)
  <1>1. <<"session", j, s>> \in LostKeys(j, a, s)
    BY Zenon DEF LostKeys
  <1>2. \A i \in Jobs, r \in Sessions :
          <<"session", i, r>> \in LostKeys(j, a, s) <=> i = j /\ r = s
    BY Zenon DEF LostKeys
  <1> QED
    BY <1>1, <1>2, Zenon DEF IsLost

-----------------------------------------------------------------------------
(* Tasks that end without an owner *)

\* The handles given so far are kept, and a new one was closed again.
ClosedAgain ==
  /\ handles' \in Seq(Handles)
  /\ DOMAIN handles \subseteq DOMAIN handles'
  /\ \A h \in DOMAIN handles : handles'[h] = handles[h]
  /\ \A h \in DOMAIN handles' \ DOMAIN handles : ~handles'[h].open

LEMMA OpenedIs ==
  ASSUME Inv, NEW s \in Sessions, NEW open \in BOOLEAN, Opened(s, open)
  PROVE  /\ handles' \in Seq(Handles) /\ DOMAIN handles \subseteq DOMAIN handles'
         /\ DOMAIN handles' = DOMAIN handles \cup {Len(handles) + 1}
         /\ \A h \in DOMAIN handles : handles'[h] = handles[h]
         /\ handles'[Len(handles) + 1] = [session |-> s, open |-> open]
         /\ Len(handles) + 1 \in Nat /\ Len(handles) + 1 \notin DOMAIN handles
  <1> DEFINE h == [session |-> s, open |-> open]
  <1>1. h \in Handles
    BY Zenon DEF Handles
  <1>2. handles \in Seq(Handles) /\ handles' = Append(handles, h)
    BY Zenon DEF Inv, TypeOK, Opened
  <1> HIDE DEF h
  <1>3. /\ handles' \in Seq(Handles) /\ DOMAIN handles \subseteq DOMAIN handles'
        /\ DOMAIN handles' = DOMAIN handles \cup {Len(handles) + 1}
        /\ \A i \in DOMAIN handles : handles'[i] = handles[i]
        /\ handles'[Len(handles) + 1] = h
        /\ Len(handles) + 1 \in Nat /\ Len(handles) + 1 \notin DOMAIN handles
    BY <1>1, <1>2, SMTT(30)
  <1> QED
    BY <1>3, Zenon DEF h

LEMMA OpenedClosed ==
  ASSUME Inv, NEW s \in Sessions, Opened(s, FALSE)
  PROVE  ClosedAgain
  <1> DEFINE no == FALSE
  <1>1. no \in BOOLEAN /\ Opened(s, no) /\ ~no
    BY Zenon
  <1> HIDE DEF no
  <1>2. /\ handles' \in Seq(Handles) /\ DOMAIN handles \subseteq DOMAIN handles'
        /\ DOMAIN handles' = DOMAIN handles \cup {Len(handles) + 1}
        /\ \A h \in DOMAIN handles : handles'[h] = handles[h]
        /\ handles'[Len(handles) + 1] = [session |-> s, open |-> no]
    BY <1>1, OpenedIs, Zenon
  <1>3. ~handles'[Len(handles) + 1].open
    BY <1>1, <1>2, SMTT(30)
  <1> QED
    BY <1>2, <1>3, Zenon DEF ClosedAgain

LEMMA SameHandles ==
  ASSUME Inv, handles' = handles
  PROVE  ClosedAgain
  BY Zenon DEF Inv, TypeOK, ClosedAgain

LEMMA ClosedIsOwned ==
  ASSUME Inv, ClosedAgain, UNCHANGED <<owners, disposal>>
  PROVE  OpenIsOwned'
  <1>1. \A k \in Keys : owners'[k] # None => owners'[k].handle \in DOMAIN handles'
    BY Zenon DEF Inv, OpenIsOwned, ClosedAgain
  <1>2. ASSUME NEW h \in DOMAIN handles', handles'[h].open
        PROVE  /\ disposal' \in {"no", "tasks"}
               /\ \E k \in Keys : owners'[k] # None /\ owners'[k].handle = h
    <2>1. h \in DOMAIN handles /\ handles[h].open
      BY <1>2, Zenon DEF ClosedAgain
    <2> QED
      BY <2>1, Zenon DEF Inv, OpenIsOwned
  <1> QED
    BY <1>1, <1>2, Zenon DEF OpenIsOwned

LEMMA ClosedUsed ==
  ASSUME Inv, ClosedAgain, sessions' = sessions
  PROVE  \A s \in Sessions : Unused(s)' => Unused(s)
  BY Zenon DEF ClosedAgain, Unused

LEMMA TaskKeeps ==
  ASSUME Inv, UNCHANGED <<store, sessions, owners, latest, lost, recovery, sinks, disposal, told>>,
         resumes' \in [Keys -> Resumes \cup {None}],
         \A k \in Keys : resumes'[k] # None =>
                           /\ resumes[k] # None /\ resumes'[k].session = resumes[k].session
                           /\ resumes'[k].status = resumes[k].status,
         creates' \in [Jobs -> Creates \cup {None}],
         \A j \in Jobs : creates'[j] \in {creates[j], None},
         ClosedAgain
  PROVE  Inv'
  <1>1. OwnersGoOn
    BY SameOwners, Zenon
  <1>2. TypeOK'
    BY Zenon DEF Inv, TypeOK, ClosedAgain
  <1>3. OneOwner' /\ Untouched'
    BY <1>1, OneOwnerKept, UntouchedKept, Zenon DEF OwnersGoOn
  <1>4. Unheard'
    <2>1. NothingNew
      BY ClosedUsed, Zenon DEF NothingNew
    <2> QED
      BY <2>1, UnheardKept, Zenon DEF Inv
  <1>5. Outcomes'
    BY <1>1, OutcomesKept, Zenon DEF OwnersGoOn, Disposed
  <1>6. Queued'
    BY Zenon DEF Inv, Queued, Newest
  <1>7. Resuming'
    BY SMTT(30) DEF Inv, Resuming, Newest
  <1>8. Creating'
    BY SMTT(30) DEF Inv, Creating, Ready
  <1>9. ResumesBlindly'
    BY Zenon DEF Inv, ResumesBlindly
  <1>10. RunningIsNewest(store)' /\ OneOutcome' /\ SinksWait'
    BY Zenon DEF Inv, RunningIsNewest, OneOutcome, SinksWait
  <1>11. OpenIsOwned'
    BY ClosedIsOwned, Zenon
  <1> QED
    BY <1>2, <1>3, <1>4, <1>5, <1>6, <1>7, <1>8, <1>9, <1>10, <1>11, ZenonT(30) DEF Inv

LEMMA ResumeFailsKeeps ==
  ASSUME Inv, NEW k \in Keys, ResumeFails(k)
  PROVE  Inv'
  <1> DEFINE s == resumes[k].session
  <1>1. /\ resumes[k] # None /\ resumes' = [resumes EXCEPT ![k] = None]
        /\ UNCHANGED <<sessions, handles, owners, latest, creates, recovery, disposal>>
    BY Zenon DEF ResumeFails
  <1>2. PICK writes \in BOOLEAN : EmitSessionLost(k[1], k[2], s, writes)
    BY Zenon DEF ResumeFails
  <1>3. /\ resumes' \in [Keys -> Resumes \cup {None}] /\ resumes'[k] = None
        /\ \A l \in Keys : l # k => resumes'[l] = resumes[l]
    BY <1>1, Zenon DEF Inv, TypeOK
  <1>4. k[1] \in Jobs /\ k[2] # None /\ k = <<k[1], k[2]>> /\ s \in Sessions
    BY <1>1, KeyParts, AtKey, ResumeFields, Zenon DEF Inv
  <1>5. CASE UNCHANGED <<store, lost, sinks, told, faults>>
    <2>1. creates' \in [Jobs -> Creates \cup {None}] /\ ClosedAgain
      BY <1>1, SameHandles, ZenonT(30) DEF Inv, TypeOK
    <2> QED
      BY <1>1, <1>3, <1>5, <2>1, TaskKeeps, Zenon
  <1>6. CASE ~Disposed /\ ~IsLost(k[1], k[2], s)
    <2>1. /\ lost' = lost \cup LostKeys(k[1], k[2], s)
          /\ store' = store \/ store' = Stored(k, s, "failed")
          /\ sinks' = Started({OutcomeEvent(k[1], s)}) /\ told' = Counted(k[1], s)
      BY <1>2, <1>4, <1>6, Zenon DEF EmitSessionLost
    <2>2. Written(k, s, "failed")
      BY <1>4, <2>1, StoredWrites, ActiveStatuses, Zenon
    <2>3. /\ \A m \in recovery.queue : isActiveStatus(m.status) => m.key[1] # k[1]
          /\ \A l \in Keys : l[1] = k[1] /\ l # k => resumes[l] = None
          /\ creates[k[1]] # None => creates[k[1]].step # "opens"
          /\ \A l \in Keys : l[1] = k[1] => owners[l] = None
          /\ recovery.step # "known"
      BY <1>1, ResumeAlone, Zenon
    <2>4. RunningIsNewest(store)'
      <3>1. Newest(k, store)
        BY <1>1, Zenon DEF Inv, Resuming
      <3> QED
        BY <1>4, <2>2, <3>1, EndWritten, Zenon
    <2>5. Queued' /\ Resuming' /\ Creating'
      <3>1. /\ \A l \in Keys : l[1] # k[1] => store'[l] = store[l] /\ resumes'[l] = resumes[l]
            /\ \A l \in Keys : l[1] = k[1] => resumes'[l] = None
        BY <1>3, <2>2, <2>3, Zenon DEF Written
      <3>2. \/ creates'[k[1]] = None
            \/ creates'[k[1]] = creates[k[1]] /\ creates[k[1]].step # "opens"
        BY <1>1, <2>3, Zenon
      <3> QED
        BY <1>1, <2>3, <3>1, <3>2, OneJobStep, Zenon
    <2>6. SinksWait'
      BY <1>1, <2>1, StartedWait, Zenon
    <2>7. Tells(k[1], s, FALSE)
      BY <1>4, <1>6, <2>1, CountedTells, Zenon
    <2>8. ~Unused(s) /\ ~Held(k[1], s)
      BY <1>1, <1>4, <2>3, ZenonT(30) DEF Inv, Unheard, Held
    <2>9. /\ \A l \in Keys : resumes'[l] # None => resumes'[l] = resumes[l]
          /\ \A l \in Keys : (resumes'[l] # None /\ l[1] = k[1] /\ resumes'[l].session = s) => FALSE
      BY <1>3, <2>3, Zenon
    <2>10. /\ store' \in [Keys -> Rows \cup {None}]
           /\ \A l \in Keys : store[l] # None => store'[l] # None
           /\ \A l \in Keys : store'[l] # None =>
                \/ store[l] # None /\ store'[l].session = store[l].session
                \/ store'[l].session = s
      BY <1>4, <2>2, WrittenRows, ActiveStatuses, SMTT(30) DEF Written
    <2>11. /\ <<"session", k[1], s>> \notin lost
           /\ \A i \in Jobs, r \in Sessions :
                <<"session", i, r>> \in lost' <=> <<"session", i, r>> \in lost \/ (i = k[1] /\ r = s)
      BY <1>6, <2>1, LostGrows, Zenon
    <2> DEFINE no == FALSE
    <2>12. /\ no \in BOOLEAN /\ Tells(k[1], s, no) /\ (Held(k[1], s) => no)
           /\ \A l \in Keys : (resumes'[l] # None /\ l[1] = k[1] /\ resumes'[l].session = s) => no
      BY <2>7, <2>8, <2>9, Zenon
    <2> HIDE DEF no, s
    <2> QED
      BY <1>1, <1>3, <1>4, <1>6, <2>3, <2>4, <2>5, <2>6, <2>8, <2>9, <2>10, <2>11, <2>12, LosingKeeps, SMTT(30)
  <1> QED
    BY <1>2, <1>5, <1>6, Zenon DEF EmitSessionLost

-----------------------------------------------------------------------------
(* The caller's operations *)

\* A step that changes nothing the invariant speaks of.
LEMMA NothingKeeps ==
  ASSUME Inv, UNCHANGED <<store, sessions, handles, owners, latest, creates, resumes, lost,
                          recovery, sinks, disposal, told>>
  PROVE  Inv'
  <1>1. ClosedAgain
    BY SameHandles, Zenon
  <1>2. resumes' \in [Keys -> Resumes \cup {None}] /\ creates' \in [Jobs -> Creates \cup {None}]
    BY Zenon DEF Inv, TypeOK
  <1> QED
    BY <1>1, <1>2, TaskKeeps, Zenon

\* A task of the newest attempt of a job without an owner.
LEMMA StartsKeeps ==
  ASSUME Inv, NEW k \in Keys, NEW m, Ready, ~recovery.down, latest[k[1]] = None,
         store[k] # None, isActiveStatus(store[k].status),
         m = [key |-> k, session |-> store[k].session, status |-> store[k].status],
         StartResume(m),
         UNCHANGED <<store, sessions, handles, owners, latest, lost, recovery, sinks, disposal,
                     told>>,
         creates' \in [Jobs -> Creates \cup {None}], Creating'
  PROVE  Inv'
  <1>1. store[k] \in Rows
    BY AtKey, Zenon DEF Inv
  <1>2. /\ m \in Mappings /\ m.key = k /\ m.session = store[k].session
        /\ m.status = store[k].status
    BY <1>1, RowFields, Zenon DEF Mappings
  <1>3. resumes' \in [Keys -> Resumes \cup {None}] /\ (resumes' = resumes \/ StartsOne(m))
    BY <1>2, StartResumeIs, Zenon DEF Inv
  <1>4. ASSUME NEW l \in Keys, resumes'[l] # None
        PROVE  \/ resumes'[l] = resumes[l]
               \/ /\ l = k /\ resumes'[l].session = store[k].session
                  /\ resumes'[l].status = store[k].status
                  /\ <<"session", k[1], store[k].session>> \notin lost
    <2>1. CASE resumes' = resumes
      BY <2>1, Zenon
    <2>2. CASE StartsOne(m)
      BY <1>2, <2>2, StartedAt, SMTT(30) DEF Inv, StartsOne
    <2> QED
      BY <1>3, <2>1, <2>2, Zenon
  <1>5. TypeOK'
    BY <1>3, Zenon DEF Inv, TypeOK
  <1>6. Resuming'
    <2> SUFFICES ASSUME NEW l \in Keys, resumes'[l] # None
                 PROVE  /\ ~recovery.down /\ latest[l[1]] = None /\ Newest(l, store)
                        /\ isActiveStatus(resumes'[l].status)
                        /\ recovery.step \in {"waits", "ready"}
                        /\ recovery.step = "waits" => recovery.now.key = l
                        /\ recovery.step = "ready" =>
                             /\ store[l] # None /\ store[l].session = resumes'[l].session
                             /\ isActiveStatus(store[l].status)
      BY Zenon DEF Resuming, Newest
    <2>1. CASE resumes'[l] = resumes[l]
      BY <2>1, Zenon DEF Inv, Resuming
    <2>2. CASE resumes'[l] # resumes[l]
      <3>1. l = k /\ resumes'[l].session = store[k].session /\ resumes'[l].status = store[k].status
        BY <1>4, <2>2, Zenon
      <3>2. Newest(k, store)
        BY RunningNewest, Zenon DEF Inv
      <3> QED
        BY <3>1, <3>2, Zenon DEF Ready
    <2> QED
      BY <2>1, <2>2, Zenon
  <1>7. Unheard'
    <2> SUFFICES ASSUME NEW q \in Sessions, Unused(q)'
                 PROVE  /\ \A l \in Keys : store[l] # None => store[l].session # q
                        /\ \A l \in Keys : resumes'[l] # None => resumes'[l].session # q
                        /\ \A n \in Known \cup recovery.queue : n.session # q
                        /\ \A i \in Jobs : <<"session", i, q>> \notin lost
      BY Zenon DEF Unheard
    <2>1. Unused(q)
      BY Zenon DEF Unused
    <2>2. /\ \A l \in Keys : store[l] # None => store[l].session # q
          /\ \A l \in Keys : resumes[l] # None => resumes[l].session # q
          /\ \A n \in Known \cup recovery.queue : n.session # q
          /\ \A i \in Jobs : <<"session", i, q>> \notin lost
      BY <2>1, Zenon DEF Inv, Unheard
    <2> QED
      BY <1>4, <2>2, Zenon
  <1>8. ResumesBlindly'
    BY <1>4, Zenon DEF Inv, ResumesBlindly
  <1>9. OwnersGoOn
    BY SameOwners, Zenon
  <1>10. OneOwner' /\ Untouched' /\ Outcomes'
    BY <1>9, OneOwnerKept, UntouchedKept, OutcomesKept, Zenon DEF OwnersGoOn, Disposed
  <1>11. OpenIsOwned' /\ ClosedAgain
    BY ClosedIsOwned, SameHandles, Zenon
  <1>12. RunningIsNewest(store)' /\ OneOutcome' /\ SinksWait' /\ Queued'
    BY Zenon DEF Inv, RunningIsNewest, OneOutcome, SinksWait, Queued, Newest
  <1> QED
    BY <1>5, <1>6, <1>7, <1>8, <1>10, <1>11, <1>12, Zenon DEF Inv

LEMMA FoundJob ==
  ASSUME Inv, NEW j \in Jobs, NEW k \in findJob(j)
  PROVE  /\ k \in Keys /\ k[1] = j /\ store[k] # None
         /\ \A l \in Keys : (l[1] = j /\ store[l] # None) => l[2] <= k[2]
  BY Zenon DEF findJob, Attempted, Mapped

\* create opens an attempt after every one that is over.
LEMMA OpenAttemptKeeps ==
  ASSUME Inv, NEW j \in Jobs, NEW a, OpenAttempt(j, a), Ready, ~recovery.down, latest[j] = None,
         \A l \in Keys : (l[1] = j /\ store[l] # None) =>
                           l[2] < a /\ ~isActiveStatus(store[l].status),
         UNCHANGED <<store, sessions, handles, owners, latest, lost, recovery, sinks, disposal,
                     told>>
  PROVE  Inv'
  <1> DEFINE c == [step |-> "opens", key |-> <<j, a>>]
  <1>1. /\ a \in Attempts /\ resumes' = resumes /\ creates' = [creates EXCEPT ![j] = c]
    BY Zenon DEF OpenAttempt
  <1>2. /\ c \in Creates /\ c.step = "opens" /\ c.key = <<j, a>> /\ c.key[1] = j /\ c.key[2] = a
    BY <1>1, PartsKey, Zenon DEF Creates
  <1> HIDE DEF c
  <1>3. /\ creates' \in [Jobs -> Creates \cup {None}] /\ creates'[j] = c
        /\ \A i \in Jobs : i # j => creates'[i] = creates[i]
    BY <1>1, <1>2, Zenon DEF Inv, TypeOK
  <1>4. TypeOK'
    BY <1>1, <1>3, Zenon DEF Inv, TypeOK
  <1>5. Creating'
    <2> SUFFICES ASSUME NEW i \in Jobs, creates'[i] # None
                 PROVE  /\ Ready' /\ ~recovery.down
                        /\ creates'[i].step = "opens" =>
                             /\ latest[i] = None /\ creates'[i].key[1] = i
                             /\ \A l \in Keys :
                                  (l[1] = i /\ store[l] # None) =>
                                    /\ l[2] < creates'[i].key[2]
                                    /\ ~isActiveStatus(store[l].status)
      BY Zenon DEF Creating
    <2>1. CASE i = j
      BY <1>2, <1>3, <2>1, ZenonT(30) DEF Ready
    <2>2. CASE i # j
      BY <1>3, <2>2, SMTT(30) DEF Inv, Creating, Ready
    <2> QED
      BY <2>1, <2>2, Zenon
  <1>6. OwnersGoOn /\ ClosedAgain
    BY SameOwners, SameHandles, Zenon
  <1>7. OneOwner' /\ Untouched' /\ Outcomes' /\ OpenIsOwned'
    BY <1>6, OneOwnerKept, UntouchedKept, OutcomesKept, ClosedIsOwned, Zenon DEF OwnersGoOn, Disposed
  <1>8. Unheard'
    <2>1. NothingNew
      BY <1>1, <1>6, ClosedUsed, ZenonT(30) DEF NothingNew
    <2> QED
      BY <2>1, UnheardKept, Zenon DEF Inv
  <1>9. Queued' /\ Resuming'
    BY <1>1, SMTT(30) DEF Inv, Queued, Resuming, Newest
  <1>10. RunningIsNewest(store)' /\ OneOutcome' /\ SinksWait' /\ ResumesBlindly'
    BY <1>1, Zenon DEF Inv, RunningIsNewest, OneOutcome, SinksWait, ResumesBlindly
  <1> QED
    BY <1>4, <1>5, <1>7, <1>8, <1>9, <1>10, Zenon DEF Inv

LEMMA CreateKeeps ==
  ASSUME Inv, NEW j \in Jobs, Create(j)
  PROVE  Inv'
  <1>1. /\ Ready /\ ~recovery.down /\ latest[j] = None
        /\ UNCHANGED <<store, sessions, handles, owners, latest, lost, recovery, sinks, disposal,
                       told>>
    BY Zenon DEF Create
  <1>2. CASE Attempted(j) = {} /\ OpenAttempt(j, 1)
    <2>1. \A l \in Keys : ~(l[1] = j /\ store[l] # None)
      BY <1>2, Zenon DEF Attempted, Mapped
    <2> QED
      BY <1>1, <1>2, <2>1, OpenAttemptKeeps, ZenonT(30)
  <1>3. ASSUME NEW k \in findJob(j), ~isActiveStatus(store[k].status), OpenAttempt(j, k[2] + 1)
        PROVE  Inv'
    <2>1. /\ k \in Keys /\ k[1] = j /\ store[k] # None
          /\ \A l \in Keys : (l[1] = j /\ store[l] # None) => l[2] <= k[2]
      BY FoundJob, Zenon
    <2>2. ASSUME NEW l \in Keys, l[1] = j, store[l] # None
          PROVE  l[2] < k[2] + 1 /\ ~isActiveStatus(store[l].status)
      <3>1. l[2] <= k[2] /\ l[2] \in Nat /\ k[2] \in Nat
        BY <2>1, <2>2, KeyParts, Zenon
      <3>2. ASSUME isActiveStatus(store[l].status) PROVE FALSE
        <4>1. k[2] <= l[2]
          BY <2>1, <2>2, <3>2, Zenon DEF Inv, RunningIsNewest
        <4>2. k = l
          BY <2>1, <2>2, <3>1, <4>1, SameKey, SMTT(30)
        <4> QED
          BY <1>3, <3>2, <4>2, Zenon
      <3> QED
        BY <3>1, <3>2, SMTT(30)
    <2> QED
      BY <1>1, <1>3, <2>2, OpenAttemptKeeps, Zenon
  <1>4. ASSUME NEW k \in findJob(j), isActiveStatus(store[k].status),
               StartResume([key |-> k, session |-> store[k].session, status |-> store[k].status]),
               creates' = [creates EXCEPT ![j] = [step |-> "resumes", key |-> k]]
        PROVE  Inv'
    <2>1. k \in Keys /\ k[1] = j /\ store[k] # None
      BY FoundJob, Zenon
    <2> DEFINE c == [step |-> "resumes", key |-> k]
    <2>2. c \in Creates /\ c.step = "resumes"
      BY <2>1, Zenon DEF Creates
    <2> HIDE DEF c
    <2>3. creates' = [creates EXCEPT ![j] = c]
      BY <1>4, Zenon DEF c
    <2>4. /\ creates' \in [Jobs -> Creates \cup {None}] /\ creates'[j] = c
          /\ \A i \in Jobs : i # j => creates'[i] = creates[i]
      BY <2>2, <2>3, Zenon DEF Inv, TypeOK
    <2>5. Creating'
      <3> SUFFICES ASSUME NEW i \in Jobs, creates'[i] # None
                   PROVE  /\ Ready' /\ ~recovery'.down
                          /\ creates'[i].step = "opens" =>
                               /\ latest'[i] = None /\ creates'[i].key[1] = i
                               /\ \A l \in Keys :
                                    (l[1] = i /\ store'[l] # None) =>
                                      /\ l[2] < creates'[i].key[2]
                                      /\ ~isActiveStatus(store'[l].status)
        BY Zenon DEF Creating
      <3>1. CASE i = j
        BY <1>1, <2>2, <2>4, <3>1, Zenon DEF Ready
      <3>2. CASE i # j
        BY <1>1, <2>4, <3>2, ZenonT(30) DEF Inv, Creating, Ready
      <3> QED
        BY <3>1, <3>2, Zenon
    <2> QED
      BY <1>1, <1>4, <2>1, <2>4, <2>5, StartsKeeps, Zenon
  <1> QED
    BY <1>2, <1>3, <1>4, Zenon DEF Create

\* An explicit resume of a session that is not the job's own.
LEMMA ReportedKeeps ==
  ASSUME Inv, NEW j \in Jobs, NEW s \in Sessions, NEW blind \in BOOLEAN,
         Ready, ~Disposed, ~Unused(s),
         ~IsLost(j, None, s), lost' = lost \cup LostKeys(j, None, s),
         sinks' = Started({OutcomeEvent(j, s)}), Tells(j, s, blind),
         Held(j, s) => blind,
         \A k \in Keys : (resumes[k] # None /\ k[1] = j /\ resumes[k].session = s) => blind,
         UNCHANGED <<store, resumes, sessions, handles, owners, latest, creates, recovery, disposal>>
  PROVE  Inv'
  <1>1. /\ <<"session", j, s>> \notin lost
        /\ \A i \in Jobs, r \in Sessions :
             <<"session", i, r>> \in lost' <=> <<"session", i, r>> \in lost \/ (i = j /\ r = s)
    BY LostGrows, SMTT(30)
  <1>2. SinksWait'
    BY StartedWait, Zenon
  <1>3. RunningIsNewest(store)' /\ Queued' /\ Resuming' /\ Creating'
    BY Zenon DEF Inv, RunningIsNewest, Queued, Resuming, Creating, Newest, Ready
  <1>4. /\ resumes' \in [Keys -> Resumes \cup {None}] /\ store' \in [Keys -> Rows \cup {None}]
        /\ recovery.step # "known"
        /\ \A k \in Keys : resumes'[k] # None => resumes'[k] = resumes[k]
        /\ \A k \in Keys : (resumes'[k] # None /\ k[1] = j /\ resumes'[k].session = s) => blind
        /\ \A k \in Keys : store[k] # None => store'[k] # None
        /\ \A k \in Keys : store'[k] # None => \/ store[k] # None /\ store'[k].session = store[k].session
                                               \/ store'[k].session = s
    BY Zenon DEF Inv, TypeOK, Ready
  <1> QED
    BY <1>1, <1>2, <1>3, <1>4, LosingKeeps, SMTT(30)

\* The session is neither owned nor resumed by the job.
Foreign(j, s) ==
  /\ ~Held(j, s)
  /\ \A k \in Keys : k[1] = j /\ resumes[k] # None => resumes[k].session # s

LEMMA EmitKeeps ==
  ASSUME Inv, NEW j \in Jobs, NEW s \in Sessions, Ready, ~Disposed, ~Unused(s), Foreign(j, s),
         EmitSessionLost(j, None, s, TRUE),
         UNCHANGED <<resumes, sessions, handles, owners, latest, creates, recovery, disposal>>
  PROVE  Inv'
  <1>1. CASE IsLost(j, None, s)
    BY <1>1, NothingKeeps, ZenonT(30) DEF EmitSessionLost
  <1>2. CASE ~IsLost(j, None, s)
    <2>1. /\ lost' = lost \cup LostKeys(j, None, s) /\ store' = store
          /\ sinks' = Started({OutcomeEvent(j, s)}) /\ told' = Counted(j, s)
      BY <1>2, Zenon DEF EmitSessionLost
    <2> DEFINE no == FALSE
    <2>2. no \in BOOLEAN /\ Tells(j, s, no) /\ (Held(j, s) => no)
      BY <2>1, CountedTells, Zenon DEF Foreign
    <2>3. \A k \in Keys : (resumes[k] # None /\ k[1] = j /\ resumes[k].session = s) => no
      BY Zenon DEF Foreign
    <2> HIDE DEF no
    <2> QED
      BY <1>2, <2>1, <2>2, <2>3, ReportedKeeps, SMTT(30)
  <1> QED
    BY <1>1, <1>2, Zenon

LEMMA ResumeKeeps ==
  ASSUME Inv, NEW j \in Jobs, NEW s \in Sessions, Resume(j, s)
  PROVE  Inv'
  <1>1. /\ Ready /\ ~Disposed /\ ~Unused(s)
        /\ UNCHANGED <<sessions, handles, owners, latest, creates, recovery, disposal>>
    BY Zenon DEF Resume, Unused
  <1>2. CASE EmitSessionLost(j, None, s, TRUE) /\ UNCHANGED resumes /\ Foreign(j, s)
    BY <1>1, <1>2, EmitKeeps, Zenon
  <1>3. CASE UNCHANGED <<store, lost, sinks, told, resumes>>
    BY <1>1, <1>3, NothingKeeps, Zenon
  <1>4. latest[j] = None => ~Held(j, s)
    BY KeyParts, SMTT(30) DEF Inv, OneOwner, Held
  <1>5. CASE recovery.down
    <2>1. Foreign(j, s)
      BY <1>5, Zenon DEF Foreign, Inv, Untouched, Resuming, Held
    <2> QED
      BY <1>2, <1>5, <2>1, Zenon DEF Resume
  <1>6. CASE ~recovery.down /\ latest[j] # None
    <2>1. <<j, latest[j]>> \in Keys /\ <<j, latest[j]>>[1] = j /\ owners[<<j, latest[j]>>] # None
      BY <1>6, PartsKey, SMTT(30) DEF Inv, TypeOK, OneOwner
    <2>2. owners[<<j, latest[j]>>].session # s => Foreign(j, s)
      <3>1. /\ \A l \in Keys : l[1] = j => resumes[l] = None
            /\ \A l \in Keys : l[1] = j /\ l # <<j, latest[j]>> => owners[l] = None
        BY <2>1, OwnerAlone, Zenon
      <3> QED
        BY <3>1, Zenon DEF Foreign, Held
    <2> QED
      BY <1>2, <1>3, <1>6, <2>2, Zenon DEF Resume
  <1>7. CASE ~recovery.down /\ latest[j] = None
    <2>1. ASSUME ~IsLost(j, None, s), lost' = lost \cup LostKeys(j, None, s),
                 sinks' = Started({OutcomeEvent(j, s)}),
                 told' = [Counted(j, s) EXCEPT ![<<j, s>>].blind = TRUE],
                 UNCHANGED <<store, resumes>>
          PROVE  Inv'
      <3> DEFINE yes == TRUE
      <3>1. yes \in BOOLEAN /\ Tells(j, s, yes) /\ yes
        BY <1>1, <2>1, CountedTells, Zenon
      <3> HIDE DEF yes
      <3> QED
        BY <1>1, <2>1, <3>1, ReportedKeeps, Zenon
    <2>2. ASSUME Attempted(j) = {} PROVE Foreign(j, s)
      <3>1. \A l \in Keys : l[1] = j => store[l] = None
        BY <2>2, Zenon DEF Attempted, Mapped
      <3>2. \A l \in Keys : l[1] = j => resumes[l] = None
        BY <1>1, <3>1, Zenon DEF Inv, Resuming, Ready
      <3> QED
        BY <1>4, <1>7, <3>2, Zenon DEF Foreign
    <2>3. ASSUME NEW k \in findJob(j), store[k].session # s PROVE Foreign(j, s)
      <3>1. /\ k \in Keys /\ k[1] = j /\ store[k] # None
            /\ \A l \in Keys : (l[1] = j /\ store[l] # None) => l[2] <= k[2]
        BY FoundJob, Zenon
      <3>2. ASSUME NEW l \in Keys, l[1] = j, resumes[l] # None PROVE resumes[l].session # s
        <4>1. /\ Newest(l, store) /\ store[l] # None /\ store[l].session = resumes[l].session
          BY <1>1, <3>2, Zenon DEF Inv, Resuming, Ready
        <4>2. k[2] <= l[2] /\ l[2] <= k[2]
          BY <3>1, <3>2, <4>1, Zenon DEF Newest
        <4>3. l = k
          BY <3>1, <3>2, <4>2, KeyParts, SameKey, SMTT(30)
        <4> QED
          BY <2>3, <4>1, <4>3, Zenon
      <3> QED
        BY <1>4, <1>7, <3>2, Zenon DEF Foreign
    <2>4. ASSUME NEW k \in findJob(j), store[k].session = s, isActiveStatus(store[k].status),
                 StartResume([key |-> k, session |-> s, status |-> store[k].status]),
                 UNCHANGED <<store, lost, sinks, told>>
          PROVE  Inv'
      <3>1. k \in Keys /\ k[1] = j /\ store[k] # None
        BY FoundJob, Zenon
      <3>2. creates' \in [Jobs -> Creates \cup {None}] /\ Creating'
        BY <1>1, <2>4, Zenon DEF Inv, TypeOK, Creating, Ready
      <3> QED
        BY <1>1, <1>7, <2>4, <3>1, <3>2, StartsKeeps, Zenon
    <2>5. \/ UNCHANGED <<store, lost, sinks, told, resumes>>
          \/ /\ ~IsLost(j, None, s) /\ lost' = lost \cup LostKeys(j, None, s)
             /\ sinks' = Started({OutcomeEvent(j, s)})
             /\ told' = [Counted(j, s) EXCEPT ![<<j, s>>].blind = TRUE]
             /\ UNCHANGED <<store, resumes>>
          \/ Attempted(j) = {} /\ EmitSessionLost(j, None, s, TRUE) /\ UNCHANGED resumes
          \/ \E k \in findJob(j) :
               \/ store[k].session # s /\ EmitSessionLost(j, None, s, TRUE) /\ UNCHANGED resumes
               \/ /\ store[k].session = s /\ isActiveStatus(store[k].status)
                  /\ StartResume([key |-> k, session |-> s, status |-> store[k].status])
                  /\ UNCHANGED <<store, lost, sinks, told>>
      BY <1>7, Zenon DEF Resume
    <2> QED
      BY <1>2, <1>3, <2>1, <2>2, <2>3, <2>4, <2>5, ZenonT(30)
  <1> QED
    BY <1>5, <1>6, <1>7, Zenon DEF Resume

-----------------------------------------------------------------------------
(* An attempt settles *)

LEMMA SettleKeeps ==
  ASSUME Inv, NEW k \in Keys, Settle(k)
  PROVE  Inv'
  <1> DEFINE s == owners[k].session
             o == IF Settles(k) THEN [owners[k] EXCEPT !.emitted = TRUE, !.watched = FALSE]
                  ELSE [owners[k] EXCEPT !.watched = FALSE]
  <1>1. /\ owners[k] # None /\ owners[k] \in Owners /\ s \in Sessions /\ k[1] \in Jobs
        /\ UNCHANGED <<sessions, handles, latest, creates, resumes, lost, recovery, disposal>>
    BY AtKey, OwnerFields, KeyParts, Zenon DEF Inv, Settle
  <1>2. owners' = [owners EXCEPT ![k] = o]
    BY <1>1, Zenon DEF Settle, Inv, TypeOK
  <1>3. /\ o \in Owners /\ o.session = s /\ o.handle = owners[k].handle
        /\ owners[k].emitted => o.emitted
        /\ Settles(k) => o.emitted
    <2>1. CASE Settles(k)
      <3> DEFINE p == [owners[k] EXCEPT !.emitted = TRUE]
      <3>1. p \in Owners /\ p.session = s /\ p.handle = owners[k].handle /\ p.emitted
        BY <1>1, Zenon DEF Owners
      <3>2. o = [p EXCEPT !.watched = FALSE]
        BY <2>1, <1>1, Zenon DEF Owners
      <3> HIDE DEF p
      <3> QED
        BY <3>1, <3>2, Zenon DEF Owners
    <2>2. CASE ~Settles(k)
      BY <1>1, <2>2, Zenon DEF Owners
    <2> QED
      BY <2>1, <2>2, Zenon
  <1>4. o # None
    BY <1>3, NoneApart, Zenon
  <1> HIDE DEF o
  <1>5. /\ owners' \in [Keys -> Owners \cup {None}] /\ owners'[k] = o
        /\ \A l \in Keys : l # k => owners'[l] = owners[l]
    BY <1>2, <1>3, Zenon DEF Inv, TypeOK
  <1>6. OwnersGoOn
    BY <1>1, <1>3, <1>4, <1>5, Zenon DEF OwnersGoOn, OwnersKept
  <1>7. CASE ~Settles(k)
    <2>1. store' = store /\ told' = told /\ sinks' = sinks
      BY <1>7, Zenon DEF Settle
    <2>2. /\ sessions' \in [Sessions -> SessionStates] /\ creates' \in [Jobs -> Creates \cup {None}]
          /\ \A r \in Sessions : sessions[r].phase # "fresh" => sessions'[r].phase # "fresh"
          /\ \A j \in Jobs : creates'[j] \in {creates[j], None}
      BY <1>1, Zenon DEF Inv, TypeOK
    <2>3. SinksWait'
      BY <1>1, <2>1, SameSinks, Zenon
    <2> QED
      BY <1>1, <1>6, <2>1, <2>2, <2>3, TurnKeeps, Zenon
  <1>8. CASE Settles(k)
    <2>1. /\ store' = store \/ store' = Stored(k, s, owners[k].terminal)
          /\ sinks' = Started({OutcomeEvent(k[1], s)}) /\ told' = Counted(k[1], s)
          /\ ~Disposed /\ ~owners[k].emitted /\ owners[k].terminal # None
      BY <1>8, Zenon DEF Settle, Settles
    <2>2. owners[k].terminal \in {"succeeded", "failed"} /\ owners[k].terminal \in Statuses
      BY <1>1, <2>1, OwnerFields, ActiveStatuses, Zenon
    <2>3. Written(k, s, owners[k].terminal)
      BY <1>1, <2>1, <2>2, StoredWrites, Zenon
    <2>4. store[k] # None
      BY <1>1, Zenon DEF Inv, OneOwner
    <2>5. RunningIsNewest(store)'
      BY <1>1, <2>2, <2>3, <2>4, EndWritten, Zenon
    <2>6. /\ \A m \in recovery.queue : isActiveStatus(m.status) => m.key[1] # k[1]
          /\ \A l \in Keys : l[1] = k[1] => resumes[l] = None
          /\ creates[k[1]] # None => creates[k[1]].step # "opens"
          /\ recovery.step # "known"
      BY <1>1, OwnerAlone, Zenon
    <2>7. Queued' /\ Resuming' /\ Creating'
      <3>1. /\ \A l \in Keys : l[1] # k[1] => store'[l] = store[l] /\ resumes'[l] = resumes[l]
            /\ \A l \in Keys : l[1] = k[1] => resumes'[l] = None
        BY <1>1, <2>3, <2>6, Zenon DEF Written
      <3>2. \/ creates'[k[1]] = None
            \/ creates'[k[1]] = creates[k[1]] /\ creates[k[1]].step # "opens"
        BY <1>1, <2>6, Zenon
      <3> QED
        BY <1>1, <2>6, <3>1, <3>2, OneJobStep, Zenon
    <2>8. SinksWait'
      BY <1>1, <2>1, StartedWait, Zenon
    <2>9. Tells(k[1], s, FALSE)
      BY <1>1, <2>1, CountedTells, Zenon
    <2>10. /\ \A l \in Keys : store[l] # None => store'[l] # None
           /\ \A l \in Keys : store'[l] # None =>
                store[l] # None /\ store'[l].session = store[l].session
      BY <1>1, <2>2, <2>3, <2>4, RowOf, SMTT(30) DEF Written
    <2>11. TypeOK'
      BY <1>1, <1>5, <2>3, <2>9, ZenonT(30) DEF Inv, TypeOK, Written, Tells
    <2>12. OneOwner' /\ Untouched'
      BY <1>1, <1>6, <2>6, <2>10, OneOwnerKept, UntouchedKept, Zenon DEF OwnersGoOn
    <2>13. OpenIsOwned'
      <3>1. handles' = handles /\ disposal' = disposal
        BY <1>1, Zenon
      <3> QED
        BY <1>6, <3>1, OpenIsOwnedKept, Zenon DEF OwnersGoOn
    <2>14. Unheard'
      <3>1. NothingNew
        BY <1>1, <2>10, Zenon DEF NothingNew, Unused
      <3> QED
        BY <3>1, UnheardKept, Zenon DEF Inv
    <2>15. ResumesBlindly'
      <3> SUFFICES ASSUME NEW l \in Keys, resumes[l] # None,
                          <<"session", l[1], resumes[l].session>> \in lost
                   PROVE  told'[<<l[1], resumes[l].session>>].blind
        BY <1>1, Zenon DEF ResumesBlindly
      <3>1. /\ l[1] # k[1] /\ l[1] \in Jobs /\ resumes[l].session \in Sessions
            /\ told[<<l[1], resumes[l].session>>].blind
        BY <2>6, AtKey, ResumeFields, KeyParts, ZenonT(30) DEF Inv, ResumesBlindly
      <3>2. told'[<<l[1], resumes[l].session>>] = told[<<l[1], resumes[l].session>>]
        BY <2>9, <3>1, Zenon DEF Tells
      <3> QED
        BY <3>1, <3>2, Zenon
    <2>16. Outcomes'
      <3> SUFFICES ASSUME NEW j \in Jobs, NEW r \in Sessions
                   PROVE  /\ told'[<<j, r>>].outcomes <=
                               (IF <<"session", j, r>> \in lost' THEN 1 ELSE 0)
                                 + (IF Settled(j, r)' THEN 1 ELSE 0)
                          /\ (<<"session", j, r>> \in lost' /\ Held(j, r)') => told'[<<j, r>>].blind
        BY Zenon DEF Outcomes
      <3>1. /\ told[<<j, r>>].outcomes <=
                 (IF <<"session", j, r>> \in lost THEN 1 ELSE 0)
                   + (IF Settled(j, r) THEN 1 ELSE 0)
            /\ (<<"session", j, r>> \in lost /\ Held(j, r)) => told[<<j, r>>].blind
        BY <2>1, Zenon DEF Inv, Outcomes
      <3>2. (Held(j, r)' => Held(j, r)) /\ (Settled(j, r) => Settled(j, r)')
        BY <1>6, HeldKept, Zenon DEF OwnersGoOn, OwnersKept, Settled
      <3>3. told[<<j, r>>].outcomes \in Nat /\ lost' = lost
        BY <1>1, TallyAt, Zenon DEF Inv
      <3>4. CASE j = k[1] /\ r = s
        <4>1. ~Settled(j, r)
          BY <1>1, <2>1, <3>4, Zenon DEF Inv, OneOwner, Settled
        <4>2. Settled(j, r)'
          BY <1>3, <1>4, <1>5, <1>8, <3>4, Zenon DEF Settled
        <4>3. /\ told'[<<j, r>>].outcomes = told[<<j, r>>].outcomes + 1
              /\ told[<<j, r>>].blind => told'[<<j, r>>].blind
          BY <2>9, <3>4, Zenon DEF Tells
        <4> QED
          BY <3>1, <3>2, <3>3, <4>1, <4>2, <4>3, SMTT(30)
      <3>5. CASE ~(j = k[1] /\ r = s)
        <4>1. told'[<<j, r>>] = told[<<j, r>>]
          BY <2>9, <3>5, Zenon DEF Tells
        <4> QED
          BY <3>1, <3>2, <3>3, <4>1, SMTT(30)
      <3> QED
        BY <3>4, <3>5, Zenon
    <2>17. OneOutcome'
      BY <1>1, <2>1, <2>11, <2>16, TalliedOnce, Zenon DEF Disposed
    <2> QED
      BY <2>5, <2>7, <2>8, <2>11, <2>12, <2>13, <2>14, <2>15, <2>16, <2>17, ZenonT(30) DEF Inv
  <1> QED
    BY <1>7, <1>8, Zenon

-----------------------------------------------------------------------------
(* An agent is attached *)

\* The newest attempt may be written with any status.
LEMMA NewestWritten ==
  ASSUME Inv, NEW k \in Keys, NEW s \in Sessions, NEW status \in Statuses,
         Written(k, s, status), Newest(k, store)
  PROVE  RunningIsNewest(store)'
  <1> SUFFICES ASSUME NEW l \in Keys, NEW n \in Keys, l[1] = n[1], store'[l] # None,
                      store'[n] # None, isActiveStatus(store'[l].status)
               PROVE  n[2] <= l[2]
    BY Zenon DEF RunningIsNewest
  <1>1. n[2] \in Nat
    BY KeyParts, Zenon
  <1>2. CASE n = l
    BY <1>1, <1>2, SMTT(30)
  <1>3. CASE l = k /\ n # l
    BY <1>3, Zenon DEF Written, Newest
  <1>4. CASE l # k
    <2>1. store'[l] = store[l] /\ (l[1] = k[1] => l = k)
      BY <1>4, Zenon DEF Written, Newest
    <2>2. n # k /\ store'[n] = store[n]
      BY <1>4, <2>1, Zenon DEF Written
    <2> QED
      BY <2>1, <2>2, Zenon DEF Inv, RunningIsNewest
  <1> QED
    BY <1>2, <1>3, <1>4, Zenon

LEMMA StoredRow ==
  ASSUME Inv, NEW k \in Keys, NEW s \in Sessions, NEW status \in Statuses,
         Mappable(k, s), store' = Stored(k, s, status)
  PROVE  Written(k, s, status) /\ store'[k] = [session |-> s, status |-> status]
  <1>1. Written(k, s, status)
    BY StoredWrites, Zenon
  <1> DEFINE row == [session |-> s, status |-> status]
  <1>2. store' = [store EXCEPT ![k] = row]
    BY Zenon DEF Stored
  <1> HIDE DEF row
  <1>3. store'[k] = row
    BY <1>2, Zenon DEF Inv, TypeOK
  <1> QED
    BY <1>1, <1>3, Zenon DEF row

\* What a task that ends leaves behind.
TasksShrink ==
  /\ resumes' \in [Keys -> Resumes \cup {None}]
  /\ \A l \in Keys : resumes'[l] \in {resumes[l], None}
  /\ creates' \in [Jobs -> Creates \cup {None}]

LEMMA OwnerMade ==
  ASSUME Inv, NEW k \in Keys, NEW s \in Sessions, NEW terminal \in {"succeeded", "failed", None},
         Opened(s, TRUE), owners' = [owners EXCEPT ![k] = NewOwner(s, Len(handles) + 1, terminal)]
  PROVE  /\ owners' \in [Keys -> Owners \cup {None}]
         /\ \A l \in Keys : l # k => owners'[l] = owners[l]
         /\ owners'[k] # None /\ owners'[k].session = s /\ owners'[k].handle = Len(handles) + 1
  <1>1. Len(handles) + 1 \in Nat
    BY SMTT(30) DEF Inv, TypeOK
  <1> DEFINE o == NewOwner(s, Len(handles) + 1, terminal)
  <1>2. o \in Owners
    BY <1>1, Zenon DEF Owners, NewOwner
  <1>3. o.session = s /\ o.handle = Len(handles) + 1
    BY Zenon DEF NewOwner
  <1> HIDE DEF o
  <1>4. owners' = [owners EXCEPT ![k] = o]
    BY Zenon DEF o
  <1> QED
    BY <1>2, <1>3, <1>4, NoneApart, SMTT(30) DEF Inv, TypeOK

LEMMA AttachKeeps ==
  ASSUME Inv, NEW k \in Keys, NEW s \in Sessions, NEW status \in Statuses,
         NEW terminal \in {"succeeded", "failed", None},
         ~Disposed, recovery.step # "known", ~recovery.down, ~Owned(s),
         \A l \in Keys : l[1] = k[1] => owners[l] = None,
         Opened(s, TRUE), owners' = [owners EXCEPT ![k] = NewOwner(s, Len(handles) + 1, terminal)],
         latest' = [latest EXCEPT ![k[1]] = k[2]],
         Written(k, s, status), store'[k] = [session |-> s, status |-> status], Newest(k, store),
         sessions' \in [Sessions -> SessionStates],
         \A r \in Sessions : sessions[r].phase # "fresh" => sessions'[r].phase # "fresh",
         TasksShrink, UNCHANGED <<lost, recovery, sinks, disposal, told>>,
         <<"session", k[1], s>> \in lost => told[<<k[1], s>>].blind,
         Queued', Resuming', Creating'
  PROVE  Inv'
  <1>1. /\ owners' \in [Keys -> Owners \cup {None}]
        /\ \A l \in Keys : l # k => owners'[l] = owners[l]
        /\ owners'[k] # None /\ owners'[k].session = s /\ owners'[k].handle = Len(handles) + 1
    BY OwnerMade, ZenonT(30)
  <1>2. /\ handles' \in Seq(Handles) /\ DOMAIN handles \subseteq DOMAIN handles'
        /\ DOMAIN handles' = DOMAIN handles \cup {Len(handles) + 1}
        /\ \A h \in DOMAIN handles : handles'[h] = handles[h]
        /\ handles'[Len(handles) + 1].session = s
    <2> DEFINE yes == TRUE
    <2>1. yes \in BOOLEAN /\ Opened(s, yes)
      BY Zenon
    <2> HIDE DEF yes
    <2>2. /\ handles' \in Seq(Handles) /\ DOMAIN handles \subseteq DOMAIN handles'
          /\ DOMAIN handles' = DOMAIN handles \cup {Len(handles) + 1}
          /\ \A h \in DOMAIN handles : handles'[h] = handles[h]
          /\ handles'[Len(handles) + 1] = [session |-> s, open |-> yes]
      BY <2>1, OpenedIs, Zenon
    <2> QED
      BY <2>2, SMTT(30)
  <1>3. /\ latest' \in [Jobs -> Attempts \cup {None}] /\ latest'[k[1]] = k[2]
        /\ \A j \in Jobs : j # k[1] => latest'[j] = latest[j]
        /\ k[1] \in Jobs /\ k = <<k[1], k[2]>>
    BY KeyParts, Zenon DEF Inv, TypeOK
  <1>4. TypeOK'
    BY <1>1, <1>2, <1>3, Zenon DEF Inv, TypeOK, Written, TasksShrink
  <1>5. RunningIsNewest(store)'
    BY NewestWritten, Zenon
  <1>6. \A l \in Keys : store[l] # None => store'[l] # None
    BY WrittenRows, Zenon
  <1>7. OneOwner'
    <2>1. ASSUME NEW l \in Keys, owners'[l] # None PROVE latest'[l[1]] = l[2] /\ store'[l] # None
      <3>1. CASE l = k
        BY <1>3, <3>1, RowOf, SMTT(30)
      <3>2. CASE l # k
        <4>1. owners[l] # None /\ l[1] # k[1] /\ l[1] \in Jobs
          BY <1>1, <2>1, <3>2, KeyParts, Zenon
        <4> QED
          BY <1>3, <1>6, <4>1, Zenon DEF Inv, OneOwner
      <3> QED
        BY <3>1, <3>2, Zenon
    <2>2. ASSUME NEW j \in Jobs, latest'[j] # None PROVE owners'[<<j, latest'[j]>>] # None
      <3>1. CASE j = k[1]
        BY <1>1, <1>3, <3>1, Zenon
      <3>2. CASE j # k[1]
        <4>1. /\ latest'[j] = latest[j] /\ owners[<<j, latest[j]>>] # None
              /\ <<j, latest[j]>> \in Keys /\ <<j, latest[j]>>[1] = j
          <5>1. latest'[j] = latest[j] /\ latest[j] # None /\ latest[j] \in Attempts
            BY <1>3, <2>2, <3>2, Zenon DEF Inv, TypeOK
          <5> QED
            BY <5>1, PartsKey, Zenon DEF Inv, OneOwner
        <4>2. <<j, latest[j]>> # k
          <5>1. ASSUME NEW l, l[1] = j PROVE l # k
            BY <3>2, <5>1, Zenon
          <5> QED
            BY <4>1, <5>1, Zenon
        <4> QED
          BY <1>1, <4>1, <4>2, Zenon
      <3> QED
        BY <3>1, <3>2, Zenon
    <2>3. ASSUME NEW l \in Keys, NEW n \in Keys, owners'[l] # None, owners'[n] # None,
                 owners'[l].session = owners'[n].session
          PROVE  l = n
      <3>1. \A m \in Keys : owners[m] # None => owners[m].session # s
        BY Zenon DEF Owned, OwnersOf
      <3>2. CASE l # k /\ n # k
        BY <1>1, <2>3, <3>2, Zenon DEF Inv, OneOwner
      <3>3. CASE l = k /\ n # k
        BY <1>1, <2>3, <3>1, <3>3, Zenon
      <3>4. CASE l # k /\ n = k
        BY <1>1, <2>3, <3>1, <3>4, Zenon
      <3> QED
        BY <3>2, <3>3, <3>4, Zenon
    <2> QED
      BY <2>1, <2>2, <2>3, Zenon DEF OneOwner
  <1>8. Untouched'
    BY Zenon DEF Untouched
  <1>9. Unheard'
    <2> SUFFICES ASSUME NEW q \in Sessions, Unused(q)'
                 PROVE  /\ \A l \in Keys : store'[l] # None => store'[l].session # q
                        /\ \A l \in Keys : resumes'[l] # None => resumes'[l].session # q
                        /\ \A m \in Known \cup recovery.queue : m.session # q
                        /\ \A j \in Jobs : <<"session", j, q>> \notin lost
      BY Zenon DEF Unheard
    <2>1. q # s /\ Unused(q)
      BY <1>2, Zenon DEF Unused
    <2>2. /\ \A l \in Keys : store[l] # None => store[l].session # q
          /\ \A l \in Keys : resumes[l] # None => resumes[l].session # q
          /\ \A m \in Known \cup recovery.queue : m.session # q
          /\ \A j \in Jobs : <<"session", j, q>> \notin lost
      BY <2>1, Zenon DEF Inv, Unheard
    <2>3. \A l \in Keys : store'[l] # None => store'[l].session # q
      BY <2>1, <2>2, WrittenRows, SMTT(30)
    <2>4. \A l \in Keys : resumes'[l] # None => resumes'[l].session # q
      BY <2>2, Zenon DEF TasksShrink
    <2> QED
      BY <2>2, <2>3, <2>4, Zenon
  <1>10. Outcomes'
    <2> SUFFICES ASSUME NEW j \in Jobs, NEW r \in Sessions
                 PROVE  /\ told[<<j, r>>].outcomes <=
                             (IF <<"session", j, r>> \in lost THEN 1 ELSE 0)
                               + (IF Settled(j, r)' THEN 1 ELSE 0)
                        /\ (<<"session", j, r>> \in lost /\ Held(j, r)') => told[<<j, r>>].blind
      BY Zenon DEF Outcomes
    <2>1. /\ told[<<j, r>>].outcomes <=
               (IF <<"session", j, r>> \in lost THEN 1 ELSE 0) + (IF Settled(j, r) THEN 1 ELSE 0)
          /\ (<<"session", j, r>> \in lost /\ Held(j, r)) => told[<<j, r>>].blind
      BY Zenon DEF Inv, Outcomes
    <2>2. Settled(j, r) => Settled(j, r)'
      BY <1>1, Zenon DEF Settled
    <2>3. Held(j, r)' => Held(j, r) \/ (j = k[1] /\ r = s)
      BY <1>1, Zenon DEF Held
    <2>4. told[<<j, r>>].outcomes \in Nat
      BY TallyAt, Zenon DEF Inv
    <2> QED
      BY <2>1, <2>2, <2>3, <2>4, SMTT(30)
  <1>11. ResumesBlindly' /\ OneOutcome' /\ SinksWait'
    BY Zenon DEF Inv, ResumesBlindly, OneOutcome, SinksWait, TasksShrink
  <1>12. OpenIsOwned'
    <2>1. \A l \in Keys : owners'[l] # None => owners'[l].handle \in DOMAIN handles'
      BY <1>1, <1>2, ZenonT(30) DEF Inv, OpenIsOwned
    <2>2. ASSUME NEW h \in DOMAIN handles', handles'[h].open
          PROVE  \E l \in Keys : owners'[l] # None /\ owners'[l].handle = h
      <3>1. CASE h = Len(handles) + 1
        BY <1>1, <3>1, Zenon
      <3>2. CASE h \in DOMAIN handles
        <4>1. PICK l \in Keys : owners[l] # None /\ owners[l].handle = h
          BY <1>2, <2>2, <3>2, Zenon DEF Inv, OpenIsOwned
        <4>2. l # k
          BY <4>1, Zenon
        <4> QED
          BY <1>1, <4>1, <4>2, Zenon
      <3> QED
        BY <1>2, <3>1, <3>2, Zenon
    <2>3. disposal' = "no"
      BY Zenon DEF Disposed
    <2> QED
      BY <2>1, <2>2, <2>3, ZenonT(30) DEF OpenIsOwned
  <1> QED
    BY <1>4, <1>5, <1>7, <1>8, <1>9, <1>10, <1>11, <1>12, ZenonT(30) DEF Inv

LEMMA CaptureIs ==
  ASSUME NEW s
  PROVE  Capture(s) \in {"succeeded", "failed", None}
  BY Zenon DEF Capture, TerminalFor

LEMMA ResumeOpenedKeeps ==
  ASSUME Inv, NEW k \in Keys, ResumeOpened(k)
  PROVE  Inv'
  <1> DEFINE t == resumes[k]
             closes == resumes' = [resumes EXCEPT ![k].step = "closes"]
  <1>1. /\ t # None /\ t.step = "opens"
        /\ UNCHANGED <<sessions, creates, lost, recovery, sinks, disposal, told>>
    BY Zenon DEF ResumeOpened
  <1>2. PICK s \in Sessions, writes \in BOOLEAN :
          IF Disposed \/ s # t.session \/ ~Attachable(k, s)
          THEN /\ writes
               /\ Opened(s, FALSE) /\ closes
               /\ UNCHANGED <<store, owners, latest, faults>>
          ELSE /\ StoreCall(~writes)
               /\ IF writes /\ Mappable(k, s)
                  THEN /\ store' = Stored(k, s, t.status)
                       /\ Attach(k, s, Len(handles) + 1, Capture(s))
                       /\ Opened(s, TRUE)
                       /\ resumes' = [resumes EXCEPT ![k] = None]
                  ELSE Detached(k, s) /\ closes /\ UNCHANGED store
    BY Zenon DEF ResumeOpened
  <1>3. /\ t \in Resumes /\ t.session \in Sessions /\ t.status \in Statuses
        /\ creates' \in [Jobs -> Creates \cup {None}]
    BY <1>1, AtKey, ResumeFields, Zenon DEF Inv, TypeOK
  <1>4. CASE closes /\ Opened(s, FALSE) /\ UNCHANGED <<store, owners, latest>>
    <2> DEFINE c == [t EXCEPT !.step = "closes"]
    <2>1. c \in Resumes /\ c.session = t.session /\ c.status = t.status
      BY <1>3, Zenon DEF Resumes
    <2>2. resumes' = [resumes EXCEPT ![k] = c]
      BY <1>4, Zenon DEF Inv, TypeOK
    <2> HIDE DEF c
    <2>3. /\ resumes' \in [Keys -> Resumes \cup {None}] /\ resumes'[k] = c
          /\ \A l \in Keys : l # k => resumes'[l] = resumes[l]
      BY <2>1, <2>2, Zenon DEF Inv, TypeOK
    <2>4. \A l \in Keys : resumes'[l] # None =>
            /\ resumes[l] # None /\ resumes'[l].session = resumes[l].session
            /\ resumes'[l].status = resumes[l].status
      BY <1>1, <2>1, <2>3, Zenon
    <2>5. ClosedAgain /\ \A j \in Jobs : creates'[j] \in {creates[j], None}
      BY <1>1, <1>4, OpenedClosed, Zenon
    <2> QED
      BY <1>1, <1>3, <1>4, <2>3, <2>4, <2>5, TaskKeeps, Zenon
  <1>5. CASE /\ ~Disposed /\ s = t.session /\ Attachable(k, s) /\ Mappable(k, s)
             /\ store' = Stored(k, s, t.status) /\ Attach(k, s, Len(handles) + 1, Capture(s))
             /\ Opened(s, TRUE) /\ resumes' = [resumes EXCEPT ![k] = None]
    <2>1. /\ \A m \in recovery.queue : isActiveStatus(m.status) => m.key[1] # k[1]
          /\ \A l \in Keys : l[1] = k[1] /\ l # k => resumes[l] = None
          /\ creates[k[1]] # None => creates[k[1]].step # "opens"
          /\ \A l \in Keys : l[1] = k[1] => owners[l] = None
          /\ recovery.step # "known" /\ ~recovery.down
      BY <1>1, ResumeAlone, Zenon
    <2>2. /\ ~Owned(s)
          /\ owners' = [owners EXCEPT ![k] = NewOwner(s, Len(handles) + 1, Capture(s))]
          /\ latest' = [latest EXCEPT ![k[1]] = k[2]]
      BY <1>5, <2>1, Zenon DEF Attach, Attachable
    <2>3. Written(k, s, t.status) /\ store'[k] = [session |-> s, status |-> t.status]
      BY <1>3, <1>5, StoredRow, Zenon
    <2>4. /\ resumes' \in [Keys -> Resumes \cup {None}] /\ resumes'[k] = None
          /\ \A l \in Keys : l # k => resumes'[l] = resumes[l]
      BY <1>5, Zenon DEF Inv, TypeOK
    <2>5. TasksShrink
      BY <1>3, <2>4, Zenon DEF TasksShrink
    <2>6. Newest(k, store) /\ (<<"session", k[1], s>> \in lost => told[<<k[1], s>>].blind)
      BY <1>1, <1>5, Zenon DEF Inv, Resuming, ResumesBlindly
    <2>7. Queued' /\ Resuming' /\ Creating'
      <3>1. /\ \A l \in Keys : l[1] # k[1] => store'[l] = store[l] /\ resumes'[l] = resumes[l]
            /\ \A l \in Keys : l[1] = k[1] => resumes'[l] = None
        BY <2>1, <2>3, <2>4, SMTT(30) DEF Written
      <3>2. \A j \in Jobs : j # k[1] => latest'[j] = latest[j] /\ creates'[j] = creates[j]
        BY <1>1, <2>2, Zenon DEF Inv, TypeOK
      <3>3. \/ creates'[k[1]] = None
            \/ creates'[k[1]] = creates[k[1]] /\ creates[k[1]].step # "opens"
        BY <1>1, <2>1, Zenon
      <3> QED
        BY <1>1, <2>1, <3>1, <3>2, <3>3, OneJobStep, ZenonT(30)
    <2>8. /\ sessions' \in [Sessions -> SessionStates] /\ Capture(s) \in {"succeeded", "failed", None}
          /\ \A r \in Sessions : sessions[r].phase # "fresh" => sessions'[r].phase # "fresh"
      BY <1>1, CaptureIs, Zenon DEF Inv, TypeOK
    <2> HIDE DEF t
    <2> QED
      BY <1>1, <1>3, <1>5, <2>1, <2>2, <2>3, <2>5, <2>6, <2>7, <2>8, AttachKeeps, ZenonT(30)
  <1> QED
    BY <1>2, <1>4, <1>5, Zenon DEF Detached

\* The attempt a create opens is the newest one.
LEMMA CreatesNewest ==
  ASSUME Inv, NEW j \in Jobs, creates[j] # None, creates[j].step = "opens"
  PROVE  Newest(creates[j].key, store)
  <1> SUFFICES ASSUME NEW l \in Keys, l[1] = j, store[l] # None
               PROVE  l[2] <= creates[j].key[2] /\ ~isActiveStatus(store[l].status)
    BY CreateAlone, Zenon DEF Newest
  <1>1. /\ creates[j].key \in Keys /\ l[2] < creates[j].key[2]
        /\ ~isActiveStatus(store[l].status)
    BY CreateAlone, Zenon
  <1>2. l[2] \in Nat /\ creates[j].key[2] \in Nat
    BY <1>1, KeyParts, Zenon
  <1> QED
    BY <1>1, <1>2, SMTT(30)

\* The agent does not take the request: its row stays, its handle is closed.
LEMMA UnacceptedKeeps ==
  ASSUME Inv, NEW k \in Keys, NEW s \in Sessions, NEW status \in Statuses,
         Written(k, s, status), Newest(k, store), Opened(s, FALSE), recovery.step # "known",
         creates' \in [Jobs -> Creates \cup {None}],
         UNCHANGED <<sessions, owners, latest, resumes, lost, recovery, sinks, disposal, told>>,
         Queued', Resuming', Creating'
  PROVE  Inv'
  <1>1. RunningIsNewest(store)'
    BY NewestWritten, Zenon
  <1>2. ClosedAgain
    BY OpenedClosed, Zenon
  <1>3. TypeOK'
    BY <1>2, Zenon DEF Inv, TypeOK, Written, ClosedAgain
  <1>4. OwnersGoOn /\ \A l \in Keys : store[l] # None => store'[l] # None
    BY SameOwners, WrittenRows, Zenon
  <1>5. OneOwner' /\ Untouched' /\ Outcomes'
    BY <1>4, OneOwnerKept, UntouchedKept, OutcomesKept, Zenon DEF OwnersGoOn, Disposed
  <1>6. OpenIsOwned'
    BY <1>2, ClosedIsOwned, Zenon
  <1>7. Unheard'
    <2> SUFFICES ASSUME NEW q \in Sessions, Unused(q)'
                 PROVE  /\ \A l \in Keys : store'[l] # None => store'[l].session # q
                        /\ \A l \in Keys : resumes[l] # None => resumes[l].session # q
                        /\ \A m \in Known \cup recovery.queue : m.session # q
                        /\ \A j \in Jobs : <<"session", j, q>> \notin lost
      BY Zenon DEF Unheard
    <2>1. q # s
      <3> DEFINE no == FALSE
      <3>1. no \in BOOLEAN /\ Opened(s, no)
        BY Zenon
      <3> HIDE DEF no
      <3>2. /\ Len(handles) + 1 \in DOMAIN handles'
            /\ handles'[Len(handles) + 1] = [session |-> s, open |-> no]
        BY <3>1, OpenedIs, Zenon
      <3>3. handles'[Len(handles) + 1].session = s
        BY <3>2, SMTT(30)
      <3> QED
        BY <3>2, <3>3, Zenon DEF Unused
    <2>2. Unused(q)
      BY <1>2, ClosedUsed, Zenon
    <2>3. /\ \A l \in Keys : store[l] # None => store[l].session # q
          /\ \A l \in Keys : resumes[l] # None => resumes[l].session # q
          /\ \A m \in Known \cup recovery.queue : m.session # q
          /\ \A j \in Jobs : <<"session", j, q>> \notin lost
      BY <2>2, Zenon DEF Inv, Unheard
    <2>4. \A l \in Keys : store'[l] # None => store'[l].session # q
      BY <2>1, <2>3, WrittenRows, SMTT(30)
    <2> QED
      BY <2>3, <2>4, Zenon
  <1>8. ResumesBlindly' /\ OneOutcome' /\ SinksWait'
    BY Zenon DEF Inv, ResumesBlindly, OneOutcome, SinksWait
  <1> QED
    BY <1>1, <1>3, <1>5, <1>6, <1>7, <1>8, Zenon DEF Inv

LEMMA CreateOpenedKeeps ==
  ASSUME Inv, NEW j \in Jobs, CreateOpened(j)
  PROVE  Inv'
  <1> DEFINE k == creates[j].key
  <1>1. /\ creates[j] # None /\ creates[j].step = "opens"
        /\ creates' = [creates EXCEPT ![j] = None]
        /\ UNCHANGED <<resumes, lost, recovery, sinks, disposal, told>>
    BY Zenon DEF CreateOpened
  <1>2. PICK s \in Sessions, writes \in BOOLEAN, accepts \in BOOLEAN, again \in BOOLEAN :
          /\ Unused(s) \/ Owned(s)
          /\ IF Disposed \/ ~Attachable(k, s)
             THEN /\ writes /\ accepts /\ again
                  /\ Opened(s, FALSE)
                  /\ UNCHANGED <<store, sessions, owners, latest, faults>>
             ELSE IF writes /\ Mappable(k, s)
             THEN IF accepts
                  THEN /\ again
                       /\ store' = Stored(k, s, "running")
                       /\ Attach(k, s, Len(handles) + 1, None)
                       /\ Opened(s, TRUE)
                       /\ sessions' = [sessions EXCEPT ![s].phase = "busy"]
                       /\ UNCHANGED faults
                  ELSE /\ StoreCall(~again)
                       /\ store' = Stored(k, s, IF again THEN "failed" ELSE "running")
                       /\ Detached(k, s)
                       /\ UNCHANGED sessions
             ELSE /\ accepts /\ again
                  /\ StoreCall(~writes)
                  /\ Detached(k, s)
                  /\ UNCHANGED <<store, sessions>>
    BY Zenon DEF CreateOpened
  <1>3. /\ recovery.queue = {} /\ recovery.step = "ready" /\ ~recovery.down
        /\ \A l \in Keys : l[1] = j => resumes[l] = None /\ owners[l] = None
        /\ k \in Keys /\ k[1] = j /\ Newest(k, store)
    BY <1>1, CreateAlone, CreatesNewest, Zenon
  <1> HIDE DEF k
  <1>4. /\ creates' \in [Jobs -> Creates \cup {None}] /\ creates'[j] = None
        /\ \A i \in Jobs : i # j => creates'[i] = creates[i]
    BY <1>1, Zenon DEF Inv, TypeOK
  <1>5. resumes' \in [Keys -> Resumes \cup {None}] /\ resumes' = resumes
    BY <1>1, Zenon DEF Inv, TypeOK
  <1>6. ASSUME NEW status \in Statuses, Written(k, s, status),
               \A i \in Jobs : i # j => latest'[i] = latest[i]
        PROVE  Queued' /\ Resuming' /\ Creating'
    <2>1. /\ \A l \in Keys : l[1] # k[1] => store'[l] = store[l] /\ resumes'[l] = resumes[l]
          /\ \A l \in Keys : l[1] = k[1] => resumes'[l] = None
      BY <1>3, <1>5, <1>6, Zenon DEF Written
    <2>2. \A m \in recovery.queue : isActiveStatus(m.status) => m.key[1] # k[1]
      BY <1>3, Zenon
    <2> QED
      BY <1>1, <1>3, <1>4, <1>6, <2>1, <2>2, OneJobStep, SMTT(30)
  <1>7. CASE Opened(s, FALSE) /\ UNCHANGED <<store, sessions, owners, latest>>
    <2>1. ClosedAgain /\ \A i \in Jobs : creates'[i] \in {creates[i], None}
      BY <1>4, <1>7, OpenedClosed, Zenon
    <2>2. \A l \in Keys : resumes'[l] # None =>
            /\ resumes[l] # None /\ resumes'[l].session = resumes[l].session
            /\ resumes'[l].status = resumes[l].status
      BY <1>5, Zenon
    <2> QED
      BY <1>1, <1>4, <1>5, <1>7, <2>1, <2>2, TaskKeeps, Zenon
  <1>8. CASE /\ ~Disposed /\ Attachable(k, s) /\ Mappable(k, s)
             /\ store' = Stored(k, s, "running") /\ Attach(k, s, Len(handles) + 1, None)
             /\ Opened(s, TRUE) /\ sessions' = [sessions EXCEPT ![s].phase = "busy"]
    <2>1. owners[k] = None
      BY <1>3, Zenon
    <2>2. /\ ~Owned(s) /\ Unused(s)
          /\ owners' = [owners EXCEPT ![k] = NewOwner(s, Len(handles) + 1, None)]
          /\ latest' = [latest EXCEPT ![k[1]] = k[2]]
      BY <1>2, <1>8, <2>1, Zenon DEF Attach, Attachable
    <2>3. Written(k, s, "running") /\ store'[k] = [session |-> s, status |-> "running"]
      BY <1>3, <1>8, StoredRow, ActiveStatuses, Zenon
    <2>4. TasksShrink
      BY <1>4, <1>5, Zenon DEF TasksShrink
    <2>5. <<"session", k[1], s>> \notin lost
      BY <1>3, <2>2, Zenon DEF Inv, Unheard
    <2>6. \A i \in Jobs : i # j => latest'[i] = latest[i]
      BY <1>3, <2>2, Zenon DEF Inv, TypeOK
    <2>7. Queued' /\ Resuming' /\ Creating'
      BY <1>6, <2>3, <2>6, ActiveStatuses, Zenon
    <2>8. /\ sessions' \in [Sessions -> SessionStates]
          /\ \A r \in Sessions : sessions[r].phase # "fresh" => sessions'[r].phase # "fresh"
      <3> DEFINE b == [sessions[s] EXCEPT !.phase = "busy"]
      <3>1. b \in SessionStates /\ b.phase = "busy"
        BY Zenon DEF Inv, TypeOK, SessionStates
      <3>2. sessions' = [sessions EXCEPT ![s] = b]
        BY <1>8, Zenon DEF Inv, TypeOK
      <3> HIDE DEF b
      <3> QED
        BY <3>1, <3>2, Zenon DEF Inv, TypeOK
    <2>9. \A l \in Keys : l[1] = k[1] => owners[l] = None
      BY <1>3, Zenon
    <2>10. "running" \in Statuses /\ None \in {"succeeded", "failed", None} /\ recovery.step # "known"
      BY <1>3, ActiveStatuses, Zenon
    <2> QED
      BY <1>1, <1>3, <1>8, <2>2, <2>3, <2>4, <2>5, <2>7, <2>8, <2>9, <2>10, AttachKeeps, Zenon
  <1>9. CASE /\ store' = Stored(k, s, IF again THEN "failed" ELSE "running")
             /\ Detached(k, s) /\ UNCHANGED sessions
    <2> DEFINE status == IF again THEN "failed" ELSE "running"
    <2>1. status \in Statuses
      BY ActiveStatuses, Zenon
    <2>2. Written(k, s, status)
      BY <1>3, <1>9, <2>1, StoredWrites, Zenon
    <2> HIDE DEF status
    <2>3. Opened(s, FALSE) /\ UNCHANGED <<owners, latest>>
      BY <1>9, Zenon DEF Detached
    <2>4. Queued' /\ Resuming' /\ Creating'
      BY <1>6, <2>1, <2>2, <2>3, Zenon
    <2>5. recovery.step # "known"
      BY <1>3, Zenon
    <2> QED
      BY <1>1, <1>3, <1>4, <1>9, <2>1, <2>2, <2>3, <2>4, <2>5, UnacceptedKeeps, ZenonT(30)
  <1> QED
    BY <1>2, <1>7, <1>8, <1>9, Zenon DEF Detached

-----------------------------------------------------------------------------
(* The theorems *)

LEMMA NextKeeps ==
  Inv /\ [Next]_vars => Inv'
  <1> SUFFICES ASSUME Inv, [Next]_vars PROVE Inv'
    BY Zenon
  <1>1. CASE UNCHANGED vars
    BY <1>1, NothingKeeps, Zenon DEF vars
  <1>2. CASE Recovers
    BY <1>2, RecoverKnownKeeps, RecoverNextKeeps, RecoverWaitsKeeps, Zenon DEF Recovers
  <1>3. CASE \E k \in Keys : ResumeOpened(k) \/ ResumeFails(k) \/ Settle(k)
    BY <1>3, ResumeOpenedKeeps, ResumeFailsKeeps, SettleKeeps, Zenon
  <1>4. CASE \E j \in Jobs : Create(j) \/ CreateOpened(j) \/ CreateEnds(j) \/ Cancel(j)
    BY <1>4, CreateKeeps, CreateOpenedKeeps, CreateEndsKeeps, CancelKeeps, Zenon
  <1>5. CASE \E j \in Jobs, s \in Sessions : Resume(j, s)
    BY <1>5, ResumeKeeps, Zenon
  <1>6. CASE \E s \in Sessions : TurnEnds(s) \/ BecomesIdle(s)
    BY <1>6, TurnEndsKeeps, BecomesIdleKeeps, Zenon
  <1>7. CASE \E s \in Sessions, n \in 1 .. MaxEvents : SessionEvent(s, n)
    BY <1>7, SessionEventKeeps, Zenon
  <1>8. CASE \E t \in sinks : SinkDisposes(t) \/ SinkReturns(t)
    BY <1>8, SinkDisposesKeeps, SinkReturnsKeeps, Zenon
  <1>9. CASE Dispose \/ DisposeGoesOn
    BY <1>9, DisposeKeeps, DisposeGoesOnKeeps, Zenon
  <1> QED
    BY <1>1, <1>2, <1>3, <1>4, <1>5, <1>6, <1>7, <1>8, <1>9, ZenonT(30) DEF Next

LEMMA InvAlways ==
  Spec => []Inv
  BY InitInv, NextKeeps, PTL DEF Spec

\* Whatever resumes, creates, losses, turns and recoveries interleave, the event
\* sink is given at most one outcome of a job's session (terminalEmitted and
\* #lostIdentityKeys), and a second one only for a session that was reported
\* lost because the table could not be read.
THEOREM OneOutcomeHolds ==
  Spec => []OneOutcome
  <1>1. Inv => OneOutcome
    BY ZenonT(30) DEF Inv
  <1> QED
    BY <1>1, InvAlways, PTL

\* When dispose has resolved, every agent a create, a resume or the recovery was
\* given is closed, and only sinks that wait for the disposal are at work.
THEOREM DisposedIsQuietHolds ==
  Spec => []DisposedIsQuiet
  <1>1. Inv => DisposedIsQuiet
    BY Zenon DEF Inv, OpenIsOwned, SinksWait, DisposedIsQuiet
  <1> QED
    BY <1>1, InvAlways, PTL

\* The mapping table an adapter leaves, at whatever point it stops, is again one
\* in which a running attempt is the newest of its job: what the adapter assumes
\* of the tables of earlier ones.
THEOREM LeavesRunningNewest ==
  Spec => [](store \in [Keys -> Rows \cup {None}] /\ RunningIsNewest(store))
  <1>1. Inv => store \in [Keys -> Rows \cup {None}] /\ RunningIsNewest(store)
    BY Zenon DEF Inv, TypeOK
  <1> QED
    BY <1>1, InvAlways, PTL

\* A job has at most one agent attached, that of its latest attempt, which has a
\* row in the table, and no two attempts share a session: #ownedByAttempt,
\* #ownedBySession and #latestByJob agree.
THEOREM OneOwnerHolds ==
  Spec => []OneOwner
  <1>1. Inv => OneOwner
    BY Zenon DEF Inv
  <1> QED
    BY <1>1, InvAlways, PTL
=============================================================================
