---------------------------- MODULE PlanSyncProofs ----------------------------
(***************************************************************************)
(* Proofs about management synchronization, for every set of plans, pull   *)
(* requests and agents and every bound: the dependency graph is well       *)
(* founded, no task ever has two Issues, and the labels of a run nobody    *)
(* interfered with agree with the lifecycle controller.                    *)
(***************************************************************************)
EXTENDS PlanSync, FiniteSetTheorems, TLAPS

-----------------------------------------------------------------------------
(* The dependency graph *)

\* A task is a plan and a number within it.
LEMMA TaskParts ==
    ASSUME NEW t \in Tasks
    PROVE  /\ t[1] \in 1 .. Len(Plans)
           /\ Plans[t[1]] \in Nat \ {0}
           /\ t[2] \in 1 .. Plans[t[1]]
           /\ t = <<t[1], t[2]>>
<1>1. PICK p \in 1 .. Len(Plans) : t \in {p} \X (1 .. Plans[p])
    BY Zenon DEF Tasks
<1>2. Plans[p] \in Nat \ {0}
    BY PlansAssumption
<1> QED
    BY <1>1, <1>2

\* Conversely, such a pair is a task.
LEMMA PartsTask ==
    ASSUME NEW p \in 1 .. Len(Plans), NEW n \in 1 .. Plans[p]
    PROVE  <<p, n>> \in Tasks
BY DEF Tasks

\* The connector plan's table only names smaller task numbers.
LEMMA ConnectorDepsEarlier ==
    ASSUME NEW n \in 2 .. 7, NEW m \in ConnectorDeps(n)
    PROVE  m \in 1 .. (n - 1)
BY DEF ConnectorDeps

\* buildPlanIssueGraph resolves every prerequisite: it is a task of the
\* plans, so issueForTask finds its marker, and it comes before the task it
\* blocks.  The graph has no cycle, so some open task is always ready.
THEOREM DependenciesEarlier ==
    \A t \in Tasks : \A d \in BlockedBy(t) : d \in Tasks /\ Before(d, t)
<1> SUFFICES ASSUME NEW t \in Tasks, NEW d \in BlockedBy(t)
             PROVE  d \in Tasks /\ Before(d, t)
    BY Zenon
<1>1. /\ t[1] \in 1 .. Len(Plans)
      /\ Plans[t[1]] \in Nat \ {0}
      /\ t[2] \in 1 .. Plans[t[1]]
    BY TaskParts, Zenon
<1>2. CASE t[1] = ConnectorPlan /\ t[2] \in 2 .. 7
  <2>1. PICK n \in ConnectorDeps(t[2]) : d = <<t[1], n>>
      BY <1>2, Zenon DEF BlockedBy
  <2>2. n \in 1 .. (t[2] - 1)
      BY <1>2, <2>1, ConnectorDepsEarlier, Zenon
  <2>3. n \in 1 .. Plans[t[1]] /\ n < t[2]
      BY <1>1, <2>2, SMTT(30)
  <2> QED
      BY <1>1, <2>1, <2>3, PartsTask, Zenon DEF Before
<1>3. CASE ~(t[1] = ConnectorPlan /\ t[2] \in 2 .. 7) /\ t[2] > 1
  <2>1. d = <<t[1], t[2] - 1>>
      BY <1>3, Zenon DEF BlockedBy
  <2>2. t[2] - 1 \in 1 .. Plans[t[1]] /\ t[2] - 1 < t[2]
      BY <1>1, <1>3, SMTT(30)
  <2> QED
      BY <1>1, <2>1, <2>2, PartsTask, Zenon DEF Before
<1>4. CASE ~(t[1] = ConnectorPlan /\ t[2] \in 2 .. 7) /\ ~(t[2] > 1)
  <2>1. t[1] \in 2 .. LastGatedPlan /\ d = <<t[1] - 1, Plans[t[1] - 1]>>
      BY <1>4, Zenon DEF BlockedBy
  <2>2. t[1] - 1 \in 1 .. Len(Plans) /\ t[1] - 1 < t[1]
      BY <1>1, <2>1, PlansAssumption, SMTT(30) DEF LastGatedPlan
  <2>3. Plans[t[1] - 1] \in 1 .. Plans[t[1] - 1]
      BY <2>2, PlansAssumption
  <2> QED
      BY <2>1, <2>2, <2>3, PartsTask, Zenon DEF Before
<1> QED
    BY <1>2, <1>3, <1>4, Zenon

\* The experimental plan and every plan after it stay apart: no task of a
\* gated plan waits for one of them, and they wait for no gated plan.
THEOREM ExperimentalApart ==
    \A t \in Tasks : \A d \in BlockedBy(t) :
        (t[1] > LastGatedPlan \/ d[1] > LastGatedPlan) => t[1] = d[1]
<1> SUFFICES ASSUME NEW t \in Tasks, NEW d \in BlockedBy(t),
                    t[1] > LastGatedPlan \/ d[1] > LastGatedPlan
             PROVE  t[1] = d[1]
    BY Zenon
<1>1. t[1] \in 1 .. Len(Plans) /\ Len(Plans) \in Nat
    BY TaskParts, PlansAssumption
<1>2. CASE t[1] = ConnectorPlan /\ t[2] \in 2 .. 7
    BY <1>2 DEF BlockedBy
<1>3. CASE ~(t[1] = ConnectorPlan /\ t[2] \in 2 .. 7) /\ t[2] > 1
    BY <1>3 DEF BlockedBy
<1>4. CASE ~(t[1] = ConnectorPlan /\ t[2] \in 2 .. 7) /\ ~(t[2] > 1)
  <2>1. t[1] \in 2 .. LastGatedPlan /\ d = <<t[1] - 1, Plans[t[1] - 1]>>
      BY <1>4, Zenon DEF BlockedBy
  <2>2. ~(t[1] > LastGatedPlan) /\ ~(t[1] - 1 > LastGatedPlan)
      BY <1>1, <2>1, SMTT(30) DEF LastGatedPlan
  <2> QED
      BY <2>1, <2>2, Zenon
<1> QED
    BY <1>2, <1>3, <1>4, Zenon

-----------------------------------------------------------------------------
(* The inductive invariant *)

Bodies ==
    [decls : Seq(SUBSET Nat), long : BOOLEAN, sections : BOOLEAN, plan : BOOLEAN, note : BOOLEAN]
Issues ==
    [task : Tasks, open : BOOLEAN, reason : {"none", "completed", "not_planned"}, closed : Nat,
     labels : SUBSET Status, owners : SUBSET Agents, body : Bodies]
PullRequests ==
    [state : {"none", "open", "merged"}, closes : Nat, by : SUBSET Agents, merged : Nat,
     reachable : BOOLEAN]

SyncFields == {"pc", "dry", "at", "catalog", "issues", "opened", "history", "wants"}

\* Where a run may be in the walk over the tasks.
Position(at) == at \in Nat \X Nat /\ (at \in Tasks \/ at[1] > Len(Plans))

SyncOK ==
    /\ DOMAIN sync = SyncFields
    /\ sync.dry \in BOOLEAN
    /\ Position(sync.at)
    /\ sync.issues \in Seq(Issues)
    /\ sync.opened \in SUBSET Pulls
    /\ sync.pc = "verify" => ~sync.dry

TypeOK ==
    /\ issues \in Seq(Issues)
    /\ pulls \in [Pulls -> PullRequests]
    /\ events \in Nat
    /\ SyncOK

\* No two Issues carry the marker of one task.
OneEach == \A m, n \in DOMAIN issues : issues[m].task = issues[n].task => m = n

\* A pull request names an Issue of the repository.
PullsClose == \A p \in Pulls : pulls[p].state # "none" => pulls[p].closes \in DOMAIN issues

HasRead == sync.pc \in {"pulls", "history", "create", "update"}

\* While a run is at work, nobody else creates or removes a plan Issue.
ReadTasks ==
    HasRead =>
        /\ DOMAIN sync.issues = DOMAIN issues
        /\ \A n \in DOMAIN issues : sync.issues[n].task = issues[n].task

ReadAll == sync.pc = "update" => Missing(sync.issues) = {}

\* What a run nobody interferes with has read is still so.
ReadQuietly ==
    quiet =>
        /\ HasRead =>
             \A n \in DOMAIN issues : /\ sync.issues[n].open = issues[n].open
                                      /\ sync.issues[n].reason = issues[n].reason
        /\ sync.pc \in {"history", "create", "update"} =>
             sync.opened = {p \in Pulls : pulls[p].state = "open"}

\* The label of an Issue that nobody works on is the controller's answer.
Agrees(n) ==
    issues[n].labels \cap {"ready", "waiting"} # {} =>
        (issues[n].labels = {"ready"} <=> Claimable(n))

\* The labels agree as far as the walk of the second pass has come.
Agreed ==
    (quiet /\ ~sync.dry /\ sync.pc \in {"update", "verify", "done"}) =>
        \A n \in DOMAIN issues :
            (sync.pc = "update" => Before(issues[n].task, sync.at)) => Agrees(n)

Inv ==
    /\ TypeOK /\ OneEach /\ PullsClose
    /\ ReadTasks /\ ReadAll /\ ReadQuietly /\ Agreed

-----------------------------------------------------------------------------
(* The walk over the tasks *)

LEMMA LenPlans ==
    Len(Plans) \in Nat /\ DOMAIN Plans = 1 .. Len(Plans)
BY PlansAssumption

LEMMA FirstPosition ==
    /\ Position(FirstTask)
    /\ \A t \in Tasks : ~Before(t, FirstTask)
<1>1. Position(FirstTask)
  <2>1. CASE Len(Plans) = 0
      BY <2>1 DEF Position, FirstTask
  <2>2. CASE Len(Plans) > 0
    <3>1. 1 \in 1 .. Len(Plans)
        BY <2>2, LenPlans, SMTT(30)
    <3>2. 1 \in 1 .. Plans[1]
        BY <3>1, PlansAssumption
    <3>3. <<1, 1>> \in Tasks
        BY <3>1, <3>2, PartsTask, Zenon
    <3> QED
        BY <3>3, Zenon DEF Position, FirstTask
  <2> QED
      BY <2>1, <2>2, LenPlans, SMTT(30)
<1>2. ASSUME NEW t \in Tasks PROVE ~Before(t, FirstTask)
  <2>1. t[1] \in Nat /\ t[1] >= 1 /\ t[2] \in Nat /\ t[2] >= 1
      BY TaskParts, LenPlans
  <2> QED
      BY <2>1 DEF Before, FirstTask
<1> QED
    BY <1>1, <1>2, Zenon

LEMMA NextPosition ==
    ASSUME NEW t \in Tasks
    PROVE  /\ Position(TaskAfter(t))
           /\ \A d \in Tasks : Before(d, TaskAfter(t)) => Before(d, t) \/ d = t
<1>1. /\ t[1] \in 1 .. Len(Plans) /\ Plans[t[1]] \in Nat \ {0} /\ t[2] \in 1 .. Plans[t[1]]
      /\ t = <<t[1], t[2]>> /\ Len(Plans) \in Nat
    BY TaskParts, LenPlans, Zenon
<1>2. CASE t[2] < Plans[t[1]]
  <2>1. TaskAfter(t) = <<t[1], t[2] + 1>>
      BY <1>2, Zenon DEF TaskAfter
  <2>2. t[2] + 1 \in 1 .. Plans[t[1]]
      BY <1>1, <1>2
  <2>3. <<t[1], t[2] + 1>> \in Tasks
      BY <1>1, <2>2, PartsTask, Zenon
  <2>4. Position(TaskAfter(t))
      BY <1>1, <2>1, <2>2, <2>3, SMTT(30) DEF Position
  <2>5. ASSUME NEW d \in Tasks, Before(d, TaskAfter(t)) PROVE Before(d, t) \/ d = t
    <3>1. d[1] \in Nat /\ d[2] \in Nat /\ d = <<d[1], d[2]>>
        BY TaskParts, LenPlans, SMTT(30)
    <3>2. d[1] < t[1] \/ (d[1] = t[1] /\ d[2] < t[2] + 1)
        BY <2>1, <2>5, SMTT(30) DEF Before
    <3>3. d[1] < t[1] \/ (d[1] = t[1] /\ (d[2] < t[2] \/ d[2] = t[2]))
        BY <1>1, <3>1, <3>2, SMTT(30)
    <3> QED
        BY <1>1, <3>1, <3>3, Zenon DEF Before
  <2> QED
      BY <2>4, <2>5, Zenon
<1>3. CASE ~(t[2] < Plans[t[1]])
  <2>1. TaskAfter(t) = <<t[1] + 1, 1>> /\ t[2] = Plans[t[1]]
      BY <1>1, <1>3, SMTT(30) DEF TaskAfter
  <2>2. Position(<<t[1] + 1, 1>>)
    <3>1. CASE t[1] = Len(Plans)
        BY <1>1, <3>1, SMTT(30) DEF Position
    <3>2. CASE t[1] < Len(Plans)
      <4>1. t[1] + 1 \in 1 .. Len(Plans)
          BY <1>1, <3>2, SMTT(30)
      <4>2. 1 \in 1 .. Plans[t[1] + 1]
          BY <4>1, PlansAssumption, SMTT(30)
      <4>3. <<t[1] + 1, 1>> \in Tasks
          BY <4>1, <4>2, PartsTask, Zenon
      <4> QED
          BY <1>1, <4>3, SMTT(30) DEF Position
    <3> QED
        BY <1>1, <3>1, <3>2, SMTT(30)
  <2>3. ASSUME NEW d \in Tasks, Before(d, TaskAfter(t)) PROVE Before(d, t) \/ d = t
    <3>1. /\ d[1] \in Nat /\ d[2] \in Nat /\ d[2] >= 1 /\ d[2] <= Plans[d[1]]
          /\ d = <<d[1], d[2]>>
        BY TaskParts, LenPlans, SMTT(30)
    <3>2. d[1] < t[1] + 1
        BY <1>1, <2>1, <2>3, <3>1, SMTT(30) DEF Before
    <3>3. CASE d[1] < t[1]
        BY <3>3, Zenon DEF Before
    <3>4. CASE d[1] = t[1]
      <4>1. d[2] < t[2] \/ d[2] = t[2]
          BY <1>1, <2>1, <3>1, <3>4, SMTT(30)
      <4> QED
          BY <1>1, <3>1, <3>4, <4>1, Zenon DEF Before
    <3> QED
        BY <1>1, <3>1, <3>2, <3>3, <3>4, SMTT(30)
  <2> QED
      BY <2>1, <2>2, <2>3, Zenon
<1> QED
    BY <1>2, <1>3, Zenon

\* After the walk, every task is behind it.
LEMMA WalkedAll ==
    ASSUME NEW at, Position(at), at[1] > Len(Plans), NEW t \in Tasks
    PROVE  Before(t, at)
<1>1. t[1] \in Nat /\ t[1] <= Len(Plans) /\ Len(Plans) \in Nat /\ at[1] \in Nat
    BY TaskParts, LenPlans DEF Position
<1> QED
    BY <1>1 DEF Before

-----------------------------------------------------------------------------
(* Types *)

LEMMA IssueFields ==
    ASSUME NEW i \in Issues
    PROVE  /\ i.task \in Tasks /\ i.open \in BOOLEAN /\ i.labels \subseteq Status
           /\ i.owners \subseteq Agents /\ i.body \in Bodies
           /\ i.reason \in {"none", "completed", "not_planned"} /\ i.closed \in Nat
BY Zenon DEF Issues

LEMMA IssueAt ==
    ASSUME NEW list \in Seq(Issues), NEW n \in DOMAIN list
    PROVE  list[n] \in Issues /\ n \in Nat
OBVIOUS

LEMMA NewIssueOK ==
    ASSUME NEW t \in Tasks
    PROVE  NewIssue(t) \in Issues /\ NewIssue(t).task = t
<1>1. StubBody \in Bodies
    BY DEF StubBody, Bodies
<1>2. {"waiting"} \subseteq Status
    BY Zenon DEF Status
<1>3. NewIssue(t).task = t
    BY Zenon DEF NewIssue
<1>4. ASSUME NEW b \in Bodies, NEW l \in SUBSET Status
      PROVE  [task |-> t, open |-> TRUE, reason |-> "none", closed |-> 0, labels |-> l,
              owners |-> {}, body |-> b] \in Issues
    BY Zenon DEF Issues
<1>5. NewIssue(t) \in Issues
    BY <1>1, <1>2, <1>4, Zenon DEF NewIssue
<1> QED
    BY <1>3, <1>5, Zenon

LEMMA PullFields ==
    ASSUME NEW r \in PullRequests
    PROVE  /\ r.state \in {"none", "open", "merged"} /\ r.closes \in Nat /\ r.by \subseteq Agents
           /\ r.merged \in Nat /\ r.reachable \in BOOLEAN
BY Zenon DEF PullRequests

\* A run at its start.
LEMMA IdleOK ==
    /\ DOMAIN Idle = SyncFields /\ Idle.dry = FALSE /\ Idle.at = FirstTask /\ Idle.pc = "idle"
    /\ Idle.issues = <<>> /\ Idle.opened = {}
BY Zenon DEF Idle, SyncFields

LEMMA InitInv ==
    Init => Inv
<1> SUFFICES ASSUME Init PROVE Inv
    BY Zenon
<1>1. /\ issues = <<>> /\ pulls = [p \in Pulls |-> NoPull] /\ sync = Idle /\ events = 0
    BY Zenon DEF Init
<1>2. /\ DOMAIN sync = SyncFields /\ sync.dry = FALSE /\ sync.at = FirstTask /\ sync.pc = "idle"
      /\ sync.issues = <<>> /\ sync.opened = {}
    BY <1>1, IdleOK, Zenon
<1>3. NoPull \in PullRequests /\ NoPull.state = "none"
    BY Zenon DEF NoPull, PullRequests
<1>4. TypeOK
  <2>1. sync.dry \in BOOLEAN /\ ~sync.dry
      BY <1>2, Zenon
  <2>2. Position(sync.at)
      BY <1>2, FirstPosition, Zenon
  <2>3. sync.issues \in Seq(Issues) /\ issues \in Seq(Issues) /\ events \in Nat
      BY <1>1, <1>2, SMTT(30)
  <2>4. pulls \in [Pulls -> PullRequests]
      BY <1>1, <1>3, Zenon
  <2> QED
      BY <1>2, <2>1, <2>2, <2>3, <2>4, Zenon DEF TypeOK, SyncOK
<1>5. OneEach /\ PullsClose
    BY <1>1, <1>3, SMTT(30) DEF OneEach, PullsClose
<1> QED
    BY <1>2, <1>4, <1>5, Zenon DEF Inv, ReadTasks, ReadAll, ReadQuietly, Agreed, HasRead

-----------------------------------------------------------------------------
(* The steps of everybody else *)

\* The same Issues, for the same tasks.
SameIssues ==
    /\ issues' \in Seq(Issues) /\ DOMAIN issues' = DOMAIN issues
    /\ \A n \in DOMAIN issues : issues'[n].task = issues[n].task

LEMMA ChangedAt ==
    ASSUME Inv, NEW n \in DOMAIN issues, NEW i \in Issues, i.task = issues[n].task,
           issues' = [issues EXCEPT ![n] = i]
    PROVE  SameIssues /\ issues'[n] = i /\ \A m \in DOMAIN issues : m # n => issues'[m] = issues[m]
<1>1. issues \in Seq(Issues)
    BY Zenon DEF Inv, TypeOK
<1>2. /\ issues' \in Seq(Issues) /\ DOMAIN issues' = DOMAIN issues /\ issues'[n] = i
      /\ \A m \in DOMAIN issues : m # n => issues'[m] = issues[m]
    BY <1>1
<1> QED
    BY <1>2, Zenon DEF SameIssues

LEMMA Unchanged ==
    ASSUME Inv, issues' = issues
    PROVE  SameIssues
BY Zenon DEF Inv, TypeOK, SameIssues

LEMMA SameClose ==
    ASSUME Inv, SameIssues, pulls' = pulls
    PROVE  pulls' \in [Pulls -> PullRequests] /\ PullsClose'
BY Zenon DEF Inv, TypeOK, SameIssues, PullsClose

LEMMA OthersKeep ==
    ASSUME Inv, Others, SameIssues, pulls' \in [Pulls -> PullRequests], PullsClose'
    PROVE  Inv'
<1>1. sync' = sync /\ quiet' = FALSE /\ events' = events + 1
    BY Zenon DEF Others
<1>2. TypeOK'
    BY <1>1 DEF Inv, TypeOK, SyncOK, SameIssues
<1>3. OneEach'
    BY Zenon DEF Inv, OneEach, SameIssues
<1>4. ReadTasks' /\ ReadAll'
    BY <1>1, ZenonT(30) DEF Inv, ReadTasks, ReadAll, HasRead, Missing, IssuesOf, SameIssues
<1>5. ReadQuietly' /\ Agreed'
    BY <1>1, Zenon DEF ReadQuietly, Agreed
<1> QED
    BY <1>2, <1>3, <1>4, <1>5, Zenon DEF Inv

\* Labels and assignees of an Issue.
LEMMA Relabelled ==
    ASSUME Inv, NEW n \in DOMAIN issues, NEW l \in SUBSET Status, NEW o \in SUBSET Agents,
           issues' = [issues EXCEPT ![n].labels = l, ![n].owners = o]
    PROVE  SameIssues
<1> DEFINE i == [issues[n] EXCEPT !.labels = l]
           j == [i EXCEPT !.owners = o]
<1>1. issues \in Seq(Issues) /\ issues[n] \in Issues
    BY IssueAt, Zenon DEF Inv, TypeOK
<1>2. i \in Issues /\ i.task = issues[n].task
    BY <1>1, Zenon DEF Issues
<1>3. issues' = [issues EXCEPT ![n] = j]
    BY <1>1, Zenon
<1> HIDE DEF i
<1>4. j \in Issues /\ j.task = i.task
    BY <1>2, Zenon DEF Issues
<1> HIDE DEF j
<1> QED
    BY <1>2, <1>3, <1>4, ChangedAt, Zenon

LEMMA StatusNames ==
    /\ {"in-progress"} \subseteq Status /\ {"ready"} \subseteq Status /\ {"review"} \subseteq Status
    /\ {"done"} \subseteq Status
BY Zenon DEF Status, Active

LEMMA ClaimKeeps ==
    ASSUME Inv, NEW n \in DOMAIN issues,
           (\E a \in Agents : Claim(n, a)) \/ Release(n) \/ Finish(n)
    PROVE  Inv'
<1>1. PICK l \in SUBSET Status, o \in SUBSET Agents :
          issues' = [issues EXCEPT ![n].labels = l, ![n].owners = o]
  <2>1. CASE \E a \in Agents : Claim(n, a)
    <3>1. PICK a \in Agents : Claim(n, a)
        BY <2>1, Zenon
    <3>2. issues' = [issues EXCEPT ![n].labels = {"in-progress"}, ![n].owners = {a}]
        BY <3>1, Zenon DEF Claim
    <3> QED
        BY <3>2, StatusNames, Zenon
  <2>2. CASE Release(n)
      BY <2>2, StatusNames, Zenon DEF Release
  <2>3. CASE Finish(n)
      BY <2>3, StatusNames, Zenon DEF Finish
  <2> QED
      BY <2>1, <2>2, <2>3, Zenon
<1>2. Others /\ pulls' = pulls
    BY Zenon DEF Claim, Release, Finish
<1>3. SameIssues
    BY <1>1, Relabelled, Zenon
<1> QED
    BY <1>2, <1>3, SameClose, OthersKeep, Zenon

LEMMA OpenPullKeeps ==
    ASSUME Inv, NEW n \in DOMAIN issues, NEW p \in Pulls, NEW a \in Agents, OpenPull(p, n, a)
    PROVE  Inv'
<1>1. issues \in Seq(Issues) /\ issues[n] \in Issues /\ n \in Nat
    BY IssueAt, Zenon DEF Inv, TypeOK
<1>2. SameIssues
  <2>1. CASE issues' = issues
      BY <2>1, Unchanged, Zenon
  <2>2. CASE issues' = [issues EXCEPT ![n].labels = {"review"}]
    <3> DEFINE i == [issues[n] EXCEPT !.labels = {"review"}]
    <3>1. i \in Issues /\ i.task = issues[n].task
        BY <1>1, StatusNames, Zenon DEF Issues
    <3>2. issues' = [issues EXCEPT ![n] = i]
        BY <1>1, <2>2, Zenon
    <3> HIDE DEF i
    <3> QED
        BY <3>1, <3>2, ChangedAt, Zenon
  <2> QED
      BY <2>1, <2>2, Zenon DEF OpenPull
<1> DEFINE r == [state |-> "open", closes |-> n, by |-> {a}, merged |-> 0, reachable |-> FALSE]
<1>3. r \in PullRequests /\ r.closes = n
    BY <1>1, Zenon DEF PullRequests
<1>4. pulls' = [pulls EXCEPT ![p] = r]
    BY Zenon DEF OpenPull
<1> HIDE DEF r
<1>5. pulls' \in [Pulls -> PullRequests] /\ PullsClose'
    BY <1>2, <1>3, <1>4, Zenon DEF Inv, TypeOK, PullsClose, SameIssues
<1> QED
    BY <1>2, <1>5, OthersKeep, Zenon DEF OpenPull

\* An Issue is closed.
LEMMA ClosedIssue ==
    ASSUME Inv, NEW n \in DOMAIN issues, NEW reason \in {"completed", "not_planned"},
           issues' = [issues EXCEPT ![n].open = FALSE, ![n].reason = reason, ![n].closed = events]
    PROVE  SameIssues
<1> DEFINE i == [issues[n] EXCEPT !.open = FALSE]
           j == [i EXCEPT !.reason = reason]
           k == [j EXCEPT !.closed = events]
<1>1. issues \in Seq(Issues) /\ issues[n] \in Issues /\ events \in Nat
    BY IssueAt, Zenon DEF Inv, TypeOK
<1>2. i \in Issues /\ i.task = issues[n].task
    BY <1>1, Zenon DEF Issues
<1>3. issues' = [issues EXCEPT ![n] = k]
    BY <1>1, Zenon
<1> HIDE DEF i
<1>4. j \in Issues /\ j.task = i.task
    BY <1>2, Zenon DEF Issues
<1> HIDE DEF j
<1>5. k \in Issues /\ k.task = j.task
    BY <1>1, <1>4, Zenon DEF Issues
<1> HIDE DEF k
<1>6. k \in Issues /\ k.task = issues[n].task
    BY <1>2, <1>4, <1>5, Zenon
<1> QED
    BY <1>3, <1>6, ChangedAt, Zenon

LEMMA CloseByHandKeeps ==
    ASSUME Inv, NEW n \in DOMAIN issues, NEW reason \in {"completed", "not_planned"},
           CloseByHand(n, reason)
    PROVE  Inv'
<1>1. SameIssues
    BY ClosedIssue, Zenon DEF CloseByHand
<1> QED
    BY <1>1, SameClose, OthersKeep, Zenon DEF CloseByHand

LEMMA MergePullKeeps ==
    ASSUME Inv, NEW p \in Pulls, MergePull(p)
    PROVE  Inv'
<1>1. /\ pulls[p].state = "open" /\ pulls[p].closes \in DOMAIN issues
      /\ pulls \in [Pulls -> PullRequests] /\ events \in Nat
    BY Zenon DEF Inv, TypeOK, PullsClose, MergePull
<1>2. SameIssues
  <2> DEFINE n == pulls[p].closes
  <2>1. \/ issues' = issues
        \/ issues' = [issues EXCEPT ![n].open = FALSE, ![n].reason = "completed",
                                    ![n].closed = events]
      BY Zenon DEF MergePull
  <2> HIDE DEF n
  <2>2. n \in DOMAIN issues
      BY <1>1, Zenon DEF n
  <2> QED
      BY <2>1, <2>2, ClosedIssue, Unchanged, Zenon
<1> DEFINE a == [pulls[p] EXCEPT !.state = "merged"]
           b == [a EXCEPT !.merged = events]
           c == [b EXCEPT !.reachable = TRUE]
<1>3. a \in PullRequests /\ a.closes = pulls[p].closes
    BY <1>1, Zenon DEF PullRequests
<1>4. pulls' = [pulls EXCEPT ![p] = c]
    BY <1>1, Zenon DEF MergePull
<1> HIDE DEF a
<1>5. b \in PullRequests /\ b.closes = a.closes
    BY <1>1, <1>3, Zenon DEF PullRequests
<1> HIDE DEF b
<1>6. c \in PullRequests /\ c.closes = b.closes
    BY <1>5, Zenon DEF PullRequests
<1> HIDE DEF c
<1>7. pulls' \in [Pulls -> PullRequests] /\ PullsClose'
    BY <1>1, <1>2, <1>3, <1>4, <1>5, <1>6, Zenon DEF Inv, PullsClose, SameIssues
<1> QED
    BY <1>2, <1>7, OthersKeep, Zenon DEF MergePull

LEMMA ForcePushKeeps ==
    ASSUME Inv, NEW p \in Pulls, ForcePush(p)
    PROVE  Inv'
<1>1. pulls \in [Pulls -> PullRequests] /\ SameIssues
    BY Unchanged, Zenon DEF Inv, TypeOK, ForcePush
<1> DEFINE a == [pulls[p] EXCEPT !.reachable = FALSE]
<1>2. a \in PullRequests /\ a.closes = pulls[p].closes /\ a.state = pulls[p].state
    BY <1>1, Zenon DEF PullRequests
<1>3. pulls' = [pulls EXCEPT ![p] = a]
    BY <1>1, Zenon DEF ForcePush
<1> HIDE DEF a
<1>4. pulls' \in [Pulls -> PullRequests] /\ PullsClose'
    BY <1>1, <1>2, <1>3, Zenon DEF Inv, PullsClose, SameIssues
<1> QED
    BY <1>1, <1>4, OthersKeep, Zenon DEF ForcePush

LEMMA EditKeeps ==
    ASSUME Inv, NEW n \in DOMAIN issues, Edit(n)
    PROVE  Inv'
<1> DEFINE b == issues[n].body
<1>1. issues \in Seq(Issues) /\ issues[n] \in Issues /\ b \in Bodies
    BY IssueAt, IssueFields, Zenon DEF Inv, TypeOK
<1>2. PICK body :
          /\ \/ body = [b EXCEPT !.note = TRUE]
             \/ body = [b EXCEPT !.long = FALSE, !.sections = FALSE, !.plan = FALSE, !.note = FALSE]
             \/ body = [b EXCEPT !.decls = @ \o @]
          /\ issues' = [issues EXCEPT ![n].body = body]
    BY Zenon DEF Edit
<1> HIDE DEF b
<1>3. body \in Bodies
  <2>1. CASE body = [b EXCEPT !.note = TRUE]
      BY <1>1, <2>1, Zenon DEF Bodies
  <2>2. CASE body = [b EXCEPT !.long = FALSE, !.sections = FALSE, !.plan = FALSE, !.note = FALSE]
    <3>1. body = [decls |-> b.decls, long |-> FALSE, sections |-> FALSE, plan |-> FALSE,
                  note |-> FALSE]
        BY <1>1, <2>2, Zenon DEF Bodies
    <3>2. b.decls \in Seq(SUBSET Nat)
        BY <1>1, Zenon DEF Bodies
    <3> QED
        BY <3>1, <3>2, Zenon DEF Bodies
  <2>3. CASE body = [b EXCEPT !.decls = @ \o @]
    <3>1. b.decls \in Seq(SUBSET Nat)
        BY <1>1, Zenon DEF Bodies
    <3>2. b.decls \o b.decls \in Seq(SUBSET Nat)
        BY <3>1
    <3> QED
        BY <1>1, <2>3, <3>2, Zenon DEF Bodies
  <2> QED
      BY <1>2, <2>1, <2>2, <2>3, Zenon
<1> DEFINE i == [issues[n] EXCEPT !.body = body]
<1>4. i \in Issues /\ i.task = issues[n].task
    BY <1>1, <1>3, Zenon DEF Issues
<1>5. issues' = [issues EXCEPT ![n] = i]
    BY <1>1, <1>2, Zenon
<1> HIDE DEF i
<1>6. SameIssues
    BY <1>4, <1>5, ChangedAt, Zenon
<1> QED
    BY <1>6, SameClose, OthersKeep, Zenon DEF Edit

LEMMA UnprotectKeeps ==
    ASSUME Inv, Unprotect
    PROVE  Inv'
BY Unchanged, SameClose, OthersKeep, Zenon DEF Unprotect

-----------------------------------------------------------------------------
(* The steps of a run *)

\* A step after which the run has read nothing that it relies on.
LEMMA AnewKeeps ==
    ASSUME Inv, UNCHANGED <<issues, pulls>>, events' \in Nat, SyncOK',
           sync'.pc \in {"idle", "catalog", "issues"}
    PROVE  Inv'
<1>1. TypeOK' /\ OneEach' /\ PullsClose'
    BY Zenon DEF Inv, TypeOK, OneEach, PullsClose
<1> QED
    BY <1>1, Zenon DEF Inv, ReadTasks, ReadAll, ReadQuietly, Agreed, HasRead

LEMMA ThrowKeeps ==
    ASSUME Inv, Throw, UNCHANGED <<issues, pulls, events>>
    PROVE  Inv'
<1>1. /\ DOMAIN sync' = SyncFields /\ sync'.dry = FALSE /\ sync'.at = FirstTask
      /\ sync'.pc = "idle" /\ sync'.issues = <<>> /\ sync'.opened = {}
    BY IdleOK, Zenon DEF Throw
<1>2. sync'.dry \in BOOLEAN
    BY <1>1, Zenon
<1>3. Position(sync'.at)
    BY <1>1, FirstPosition, Zenon
<1>4. sync'.issues \in Seq(Issues)
    BY <1>1
<1>5. SyncOK'
    BY <1>1, <1>2, <1>3, <1>4, Zenon DEF SyncOK, Position
<1> QED
    BY <1>1, <1>5, AnewKeeps, Zenon DEF Inv, TypeOK

LEMMA StartKeeps ==
    ASSUME Inv, NEW dry \in BOOLEAN, Start(dry)
    PROVE  Inv'
<1>1. sync' = [Idle EXCEPT !.pc = "catalog", !.dry = dry, !.catalog = catalog]
    BY Zenon DEF Start
<1>2. /\ DOMAIN sync' = SyncFields /\ sync'.dry = dry /\ sync'.at = FirstTask
      /\ sync'.pc = "catalog" /\ sync'.issues = <<>> /\ sync'.opened = {}
    BY <1>1, Zenon DEF Idle, SyncFields
<1>3. Position(sync'.at) /\ sync'.issues \in Seq(Issues)
    BY <1>2, FirstPosition
<1>4. SyncOK'
    BY <1>2, <1>3, Zenon DEF SyncOK, Position
<1>5. UNCHANGED <<issues, pulls>> /\ events' \in Nat
    BY DEF Start, Inv, TypeOK
<1> QED
    BY <1>2, <1>4, <1>5, AnewKeeps, Zenon

LEMMA SaveCatalogKeeps ==
    ASSUME Inv, SaveCatalog
    PROVE  Inv'
<1>1. \/ sync' = [sync EXCEPT !.pc = "issues"]
      \/ \E c \in Catalog : sync' = [sync EXCEPT !.catalog = @ \cup {c}]
    BY Zenon DEF SaveCatalog
<1>2. /\ sync.pc = "catalog" /\ DOMAIN sync = SyncFields
      /\ UNCHANGED <<issues, pulls, events>>
    BY Zenon DEF SaveCatalog, Inv, TypeOK, SyncOK
<1>3. /\ DOMAIN sync' = SyncFields /\ sync'.dry = sync.dry /\ sync'.at = sync.at
      /\ sync'.issues = sync.issues /\ sync'.pc \in {"catalog", "issues"}
      /\ sync'.opened = sync.opened
    BY <1>1, <1>2, Zenon DEF SyncFields
<1>4. SyncOK'
    BY <1>3, Zenon DEF Inv, TypeOK, SyncOK, Position
<1> QED
    BY <1>2, <1>3, <1>4, AnewKeeps, Zenon DEF Inv, TypeOK

LEMMA ReadIssuesKeeps ==
    ASSUME Inv, ReadIssues
    PROVE  Inv'
<1>1. /\ sync' = [sync EXCEPT !.pc = "pulls", !.issues = issues] /\ sync.pc = "issues"
      /\ UNCHANGED <<issues, pulls, quiet, events>> /\ DOMAIN sync = SyncFields
    BY Zenon DEF ReadIssues, Reads, Inv, TypeOK, SyncOK
<1>2. /\ DOMAIN sync' = SyncFields /\ sync'.dry = sync.dry /\ sync'.at = sync.at
      /\ sync'.issues = issues /\ sync'.pc = "pulls" /\ sync'.opened = sync.opened
    BY <1>1, Zenon DEF SyncFields
<1>3. TypeOK'
    BY <1>1, <1>2, Zenon DEF Inv, TypeOK, SyncOK, Position
<1>4. OneEach' /\ PullsClose' /\ ReadTasks' /\ ReadAll' /\ ReadQuietly' /\ Agreed'
    BY <1>1, <1>2, Zenon DEF Inv, OneEach, PullsClose, ReadTasks, ReadAll, ReadQuietly, Agreed, HasRead
<1> QED
    BY <1>3, <1>4, Zenon DEF Inv

LEMMA ReadPullsKeeps ==
    ASSUME Inv, ReadPulls
    PROVE  Inv'
<1>1. /\ sync' = [sync EXCEPT !.pc = "history",
                              !.opened = {p \in Pulls : pulls[p].state = "open"}]
      /\ sync.pc = "pulls" /\ UNCHANGED <<issues, pulls, quiet, events>> /\ DOMAIN sync = SyncFields
    BY Zenon DEF ReadPulls, Reads, Inv, TypeOK, SyncOK
<1>2. /\ DOMAIN sync' = SyncFields /\ sync'.dry = sync.dry /\ sync'.at = sync.at
      /\ sync'.issues = sync.issues /\ sync'.pc = "history"
      /\ sync'.opened = {p \in Pulls : pulls[p].state = "open"}
    BY <1>1, Zenon DEF SyncFields
<1>3. TypeOK'
    BY <1>1, <1>2, Zenon DEF Inv, TypeOK, SyncOK, Position
<1>4. OneEach' /\ PullsClose' /\ ReadTasks' /\ ReadAll' /\ ReadQuietly' /\ Agreed'
    BY <1>1, <1>2, SMTT(30) DEF Inv, OneEach, PullsClose, ReadTasks, ReadAll, ReadQuietly, Agreed, HasRead
<1> QED
    BY <1>3, <1>4, Zenon DEF Inv

\* A step of the run that goes on with what it has read.
LEMMA GoesOnKeeps ==
    ASSUME Inv, UNCHANGED <<issues, pulls, quiet, events>>, sync.pc \in {"history", "create"},
           DOMAIN sync' = SyncFields, sync'.dry = sync.dry, Position(sync'.at),
           sync'.issues = sync.issues, sync'.opened = sync.opened, sync'.pc = "create"
    PROVE  Inv'
<1>1. TypeOK'
    BY Zenon DEF Inv, TypeOK, SyncOK, Position
<1>2. OneEach' /\ PullsClose' /\ ReadTasks' /\ ReadAll' /\ ReadQuietly' /\ Agreed'
    BY DEF Inv, OneEach, PullsClose, ReadTasks, ReadAll, ReadQuietly, Agreed, HasRead
<1> QED
    BY <1>1, <1>2, Zenon DEF Inv

LEMMA ReadHistoryKeeps ==
    ASSUME Inv, ReadHistory
    PROVE  Inv'
<1> DEFINE seen == {p \in Pulls : /\ pulls[p].closes \in DOMAIN sync.issues
                                  /\ ~sync.issues[pulls[p].closes].open}
<1>1. /\ sync' = [sync EXCEPT !.pc = "create", !.at = FirstTask, !.history = seen]
      /\ sync.pc = "history" /\ UNCHANGED <<issues, pulls, quiet, events>>
      /\ DOMAIN sync = SyncFields
    BY Zenon DEF ReadHistory, Reads, Inv, TypeOK, SyncOK
<1> HIDE DEF seen
<1>2. /\ DOMAIN sync' = SyncFields /\ sync'.dry = sync.dry /\ sync'.at = FirstTask
      /\ sync'.issues = sync.issues /\ sync'.pc = "create" /\ sync'.opened = sync.opened
    BY <1>1, Zenon DEF SyncFields
<1> QED
    BY <1>1, <1>2, FirstPosition, GoesOnKeeps, Zenon

LEMMA CreatedKeeps ==
    ASSUME Inv, sync.pc = "create", NEW t \in Tasks, t \in Missing(sync.issues),
           issues' = Created(issues, t), UNCHANGED <<pulls, quiet, events>>,
           DOMAIN sync' = SyncFields, sync'.dry = sync.dry, Position(sync'.at),
           sync'.issues = Append(sync.issues, NewIssue(t)), sync'.opened = sync.opened,
           sync'.pc = "create"
    PROVE  Inv'
<1> DEFINE i == NewIssue(t)
<1>1. i \in Issues /\ i.task = t
    BY NewIssueOK, Zenon
<1>2. /\ issues \in Seq(Issues) /\ sync.issues \in Seq(Issues)
      /\ issues' = Append(issues, i) /\ sync'.issues = Append(sync.issues, i)
    BY Zenon DEF Inv, TypeOK, SyncOK, Created
<1>3. DOMAIN sync.issues = DOMAIN issues /\ Len(sync.issues) = Len(issues)
    BY <1>2, SMTT(30) DEF Inv, ReadTasks, HasRead
<1> HIDE DEF i
<1>4. /\ issues' \in Seq(Issues) /\ DOMAIN issues' = DOMAIN issues \cup {Len(issues) + 1}
      /\ Len(issues) + 1 \notin DOMAIN issues /\ issues'[Len(issues) + 1] = i
      /\ \A n \in DOMAIN issues : issues'[n] = issues[n]
    BY <1>1, <1>2, SMTT(30)
<1>5. /\ sync'.issues \in Seq(Issues) /\ DOMAIN sync'.issues = DOMAIN issues'
      /\ sync'.issues[Len(issues) + 1] = i
      /\ \A n \in DOMAIN issues : sync'.issues[n] = sync.issues[n]
    BY <1>1, <1>2, <1>3, <1>4, SMTT(30)
<1>6. \A n \in DOMAIN issues : issues[n].task # t /\ sync.issues[n].task = issues[n].task
    BY <1>3, Zenon DEF Inv, ReadTasks, HasRead, Missing, IssuesOf
<1>7. TypeOK'
    BY <1>4, <1>5, Zenon DEF Inv, TypeOK, SyncOK, Position
<1>8. OneEach'
    BY <1>1, <1>4, <1>6, SMTT(30) DEF Inv, OneEach
<1>9. PullsClose'
    BY <1>4, Zenon DEF Inv, PullsClose
<1>10. ReadTasks'
    BY <1>4, <1>5, <1>6, ZenonT(30) DEF ReadTasks
<1>11. ReadQuietly'
    BY <1>4, <1>5, SMTT(30) DEF Inv, ReadQuietly, HasRead
<1> QED
    BY <1>7, <1>8, <1>9, <1>10, <1>11, Zenon DEF Inv, ReadAll, Agreed

LEMMA CreateMissingKeeps ==
    ASSUME Inv, CreateMissing
    PROVE  Inv'
<1>1. /\ sync.pc = "create" /\ UNCHANGED <<pulls, quiet, events>> /\ DOMAIN sync = SyncFields
      /\ Position(sync.at)
    BY Zenon DEF CreateMissing, Inv, TypeOK, SyncOK
<1>2. CASE Throw /\ issues' = issues
    BY <1>1, <1>2, ThrowKeeps, Zenon
<1>3. CASE /\ issues' = issues /\ Missing(sync.issues) = {}
           /\ sync' = [sync EXCEPT !.pc = "update", !.at = FirstTask]
  <2>1. /\ DOMAIN sync' = SyncFields /\ sync'.dry = sync.dry /\ sync'.at = FirstTask
        /\ sync'.issues = sync.issues /\ sync'.pc = "update" /\ sync'.opened = sync.opened
      BY <1>1, <1>3, Zenon DEF SyncFields
  <2>2. TypeOK'
      BY <1>1, <1>3, <2>1, FirstPosition, Zenon DEF Inv, TypeOK, SyncOK, Position
  <2>3. OneEach' /\ PullsClose' /\ ReadTasks' /\ ReadQuietly'
      BY <1>1, <1>3, <2>1, SMTT(30) DEF Inv, OneEach, PullsClose, ReadTasks, ReadQuietly, HasRead
  <2>4. ReadAll'
      BY <1>3, <2>1, SMTT(30) DEF ReadAll, Missing, IssuesOf
  <2>5. Agreed'
    <3>1. \A n \in DOMAIN issues : ~Before(issues[n].task, FirstTask)
        BY FirstPosition, IssueAt, IssueFields, Zenon DEF Inv, TypeOK
    <3> QED
        BY <1>3, <2>1, <3>1, Zenon DEF Agreed, Before
  <2> QED
      BY <2>2, <2>3, <2>4, <2>5, Zenon DEF Inv
<1>4. CASE /\ issues' = issues /\ Missing(sync.issues) = Tasks
           /\ sync' = [sync EXCEPT !.pc = "done"]
  <2>1. /\ DOMAIN sync' = SyncFields /\ sync'.dry = sync.dry /\ sync'.at = sync.at
        /\ sync'.issues = sync.issues /\ sync'.pc = "done" /\ sync'.opened = sync.opened
      BY <1>1, <1>4, Zenon DEF SyncFields
  <2>2. TypeOK'
      BY <1>1, <1>4, <2>1, Zenon DEF Inv, TypeOK, SyncOK, Position
  <2>3. OneEach' /\ PullsClose' /\ ReadTasks' /\ ReadQuietly' /\ ReadAll'
      BY <1>1, <1>4, <2>1, Zenon DEF Inv, OneEach, PullsClose, ReadTasks, ReadQuietly, ReadAll, HasRead
  <2>4. ASSUME NEW n \in DOMAIN issues PROVE FALSE
    <3>1. n \in DOMAIN sync.issues /\ sync.issues[n].task \in Tasks
        BY <1>1, IssueAt, IssueFields, Zenon DEF Inv, TypeOK, SyncOK, ReadTasks, HasRead
    <3> QED
        BY <1>4, <3>1, Zenon DEF Missing, IssuesOf
  <2>5. Agreed'
      BY <1>4, <2>4, Zenon DEF Agreed
  <2> QED
      BY <2>2, <2>3, <2>5, Zenon DEF Inv
<1>5. ASSUME ~Walked PROVE sync.at \in Tasks /\ Position(TaskAfter(sync.at))
    BY <1>1, <1>5, NextPosition, Zenon DEF Walked, Position
<1>6. CASE ~Walked /\ issues' = issues /\ sync' = [sync EXCEPT !.at = TaskAfter(sync.at)]
  <2>1. /\ DOMAIN sync' = SyncFields /\ sync'.dry = sync.dry /\ sync'.at = TaskAfter(sync.at)
        /\ sync'.issues = sync.issues /\ sync'.pc = "create" /\ sync'.opened = sync.opened
      BY <1>1, <1>6, Zenon DEF SyncFields
  <2> QED
      BY <1>1, <1>5, <1>6, <2>1, GoesOnKeeps, Zenon
<1>7. CASE /\ ~Walked /\ sync.at \in Missing(sync.issues) /\ issues' = Created(issues, sync.at)
           /\ sync' = [sync EXCEPT !.at = TaskAfter(sync.at),
                                   !.issues = Append(@, NewIssue(sync.at))]
  <2>1. /\ DOMAIN sync' = SyncFields /\ sync'.dry = sync.dry /\ sync'.at = TaskAfter(sync.at)
        /\ sync'.issues = Append(sync.issues, NewIssue(sync.at))
        /\ sync'.pc = "create" /\ sync'.opened = sync.opened
      BY <1>1, <1>7, Zenon DEF SyncFields
  <2> QED
      BY <1>1, <1>5, <1>7, <2>1, CreatedKeeps, Zenon
<1> QED
    BY <1>2, <1>3, <1>4, <1>6, <1>7, Zenon DEF CreateMissing

\* A step of the run that leaves the repository's Issues alone.
LEMMA ProtectKeeps ==
    ASSUME Inv, Protect
    PROVE  Inv'
<1>1. /\ sync' = [sync EXCEPT !.pc = IF sync.dry THEN "done" ELSE "verify"]
      /\ sync.pc = "update" /\ Walked /\ UNCHANGED <<issues, pulls, quiet, events>>
      /\ DOMAIN sync = SyncFields /\ Position(sync.at) /\ sync.dry \in BOOLEAN
    BY Zenon DEF Protect, Inv, TypeOK, SyncOK
<1>2. /\ DOMAIN sync' = SyncFields /\ sync'.dry = sync.dry /\ sync'.at = sync.at
      /\ sync'.issues = sync.issues /\ sync'.opened = sync.opened
      /\ sync'.pc = IF sync.dry THEN "done" ELSE "verify"
    BY <1>1, Zenon DEF SyncFields
<1>3. sync'.pc \in {"done", "verify"} /\ (sync'.pc = "verify" => ~sync.dry)
    BY <1>1, <1>2, SMTT(30)
<1>4. TypeOK'
    BY <1>1, <1>2, <1>3, Zenon DEF Inv, TypeOK, SyncOK, Position
<1>5. OneEach' /\ PullsClose' /\ ReadTasks' /\ ReadQuietly' /\ ReadAll'
    BY <1>1, <1>3, Zenon DEF Inv, OneEach, PullsClose, ReadTasks, ReadQuietly, ReadAll, HasRead
<1>6. Agreed'
  <2> SUFFICES ASSUME quiet, ~sync.dry, NEW n \in DOMAIN issues PROVE Agrees(n)'
      BY <1>1, <1>2, Zenon DEF Agreed
  <2>1. Before(issues[n].task, sync.at)
      BY <1>1, WalkedAll, IssueAt, IssueFields, Zenon DEF Inv, TypeOK, Walked
  <2>2. Agrees(n)
      BY <1>1, <2>1, Zenon DEF Inv, Agreed
  <2> QED
      BY <1>1, <2>2, Zenon DEF Agrees, Claimable
<1> QED
    BY <1>4, <1>5, <1>6, Zenon DEF Inv

LEMMA VerifyKeeps ==
    ASSUME Inv, Verify
    PROVE  Inv'
<1>1. /\ sync.pc = "verify" /\ UNCHANGED <<issues, pulls, quiet, events>>
      /\ DOMAIN sync = SyncFields /\ ~sync.dry
    BY Zenon DEF Verify, Reads, Inv, TypeOK, SyncOK
<1>2. CASE sync' = Idle
    BY <1>1, <1>2, ThrowKeeps, Zenon DEF Throw
<1>3. CASE sync' = [Idle EXCEPT !.pc = "done"] \/ sync' = [sync EXCEPT !.wants = Tail(@)]
  <2>1. /\ DOMAIN sync' = SyncFields /\ sync'.pc \in {"verify", "done"}
        /\ sync'.at \in {FirstTask, sync.at} /\ sync'.issues \in {<<>>, sync.issues}
        /\ sync'.dry \in {FALSE, sync.dry} /\ sync'.opened \in {{}, sync.opened}
    <3>1. CASE sync' = [Idle EXCEPT !.pc = "done"]
        BY <3>1, Zenon DEF Idle, SyncFields
    <3>2. CASE sync' = [sync EXCEPT !.wants = Tail(@)]
        BY <1>1, <3>2, Zenon DEF SyncFields
    <3> QED
        BY <1>3, <3>1, <3>2, Zenon
  <2>2. ~sync'.dry /\ sync'.dry \in BOOLEAN
      BY <1>1, <2>1, Zenon DEF Inv, TypeOK, SyncOK
  <2>3. Position(sync'.at)
      BY <2>1, FirstPosition, Zenon DEF Inv, TypeOK, SyncOK
  <2>4. sync'.issues \in Seq(Issues)
    <3>1. <<>> \in Seq(Issues) /\ sync.issues \in Seq(Issues)
        BY SMTT(30) DEF Inv, TypeOK, SyncOK
    <3> QED
        BY <2>1, <3>1, Zenon
  <2>5. TypeOK'
      BY <1>1, <2>1, <2>2, <2>3, <2>4, Zenon DEF Inv, TypeOK, SyncOK, Position
  <2>6. OneEach' /\ PullsClose' /\ ReadTasks' /\ ReadQuietly' /\ ReadAll'
      BY <1>1, <2>1, Zenon DEF Inv, OneEach, PullsClose, ReadTasks, ReadQuietly, ReadAll, HasRead
  <2>7. Agreed'
      BY <1>1, <2>1, ZenonT(30) DEF Inv, Agreed, Agrees, Claimable
  <2> QED
      BY <2>5, <2>6, <2>7, Zenon DEF Inv
<1> QED
    BY <1>2, <1>3, Zenon DEF Verify

-----------------------------------------------------------------------------
(* What the second pass writes *)

\* issueForTask finds the Issue of every task once none is missing.
LEMMA IssueOfIs ==
    ASSUME NEW list, Missing(list) = {}, NEW t \in Tasks
    PROVE  IssueOf(list, t) \in DOMAIN list /\ list[IssueOf(list, t)].task = t
<1>1. \E n \in DOMAIN list : list[n].task = t
    BY Zenon DEF Missing, IssuesOf
<1> QED
    BY <1>1, Zenon DEF IssueOf

LEMMA PrerequisitesIn ==
    ASSUME NEW list, Missing(list) = {}, NEW t \in Tasks
    PROVE  Prerequisites(list, t) \subseteq DOMAIN list
BY DependenciesEarlier, IssueOfIs, Zenon DEF Prerequisites

\* A label without an active state is the readiness, and no pull request closes
\* the Issue.
LEMMA DeriveIs ==
    ASSUME Inv, NEW issue \in Issues, NEW ready \in BOOLEAN, NEW closing \in SUBSET Pulls
    PROVE  /\ Derive(issue, ready, closing).state \in Status
           /\ Derive(issue, ready, closing).owners \in SUBSET Agents
           /\ Derive(issue, ready, closing).state \in {"ready", "waiting"} =>
                /\ closing = {}
                /\ Derive(issue, ready, closing).state = IF ready THEN "ready" ELSE "waiting"
<1> DEFINE d == Derive(issue, ready, closing)
           active == issue.labels \cap Active
<1>1. CASE active # {}
  <2> DEFINE s == CHOOSE s \in active : TRUE
  <2>1. s \in active
      BY <1>1, Zenon
  <2>2. d.state = s /\ d.owners = issue.owners
      BY <1>1, Zenon DEF Derive
  <2>3. s \in Active
      BY <2>1, Zenon
  <2>4. s \in Status /\ s \notin {"ready", "waiting"}
      BY <2>3, Zenon DEF Status, Active
  <2> QED
      BY <2>2, <2>4, IssueFields, Zenon
<1>2. CASE active = {} /\ closing # {}
  <2>1. d.state = "review" /\ d.owners = UNION {pulls[p].by : p \in closing \cap Migrated}
      BY <1>2, Zenon DEF Derive
  <2>2. \A p \in closing : pulls[p].by \subseteq Agents
      BY PullFields, Zenon DEF Inv, TypeOK
  <2>3. UNION {pulls[p].by : p \in closing \cap Migrated} \in SUBSET Agents
      BY <2>2, Zenon
  <2>4. "review" \in Status
      BY Zenon DEF Status, Active
  <2> QED
      BY <2>1, <2>3, <2>4, Zenon
<1>3. CASE active = {} /\ closing = {}
  <2>1. d.state = (IF ready THEN "ready" ELSE "waiting") /\ d.owners = {}
      BY <1>3, Zenon DEF Derive
  <2>2. d.state \in Status
      BY <2>1, Zenon DEF Status
  <2> QED
      BY <1>3, <2>1, <2>2, Zenon
<1> QED
    BY <1>1, <1>2, <1>3, Zenon

LEMMA MergeIs ==
    ASSUME NEW body \in Bodies, NEW numbers \in SUBSET Nat, NEW active \in BOOLEAN
    PROVE  /\ Merge(body, numbers, active).body \in Bodies
           /\ ~active => /\ Merge(body, numbers, active).body.sections
                         /\ Merge(body, numbers, active).body.decls = <<numbers>>
<1> DEFINE b == Merge(body, numbers, active).body
<1>1. CASE active
    BY <1>1, Zenon DEF Merge
<1>2. CASE ~active
  <2>1. <<numbers>> \in Seq(SUBSET Nat)
      OBVIOUS
  <2>2. CASE ~body.long
    <3>1. b = CanonicalBody(numbers)
        BY <1>2, <2>2, Zenon DEF Merge
    <3>2. /\ CanonicalBody(numbers) \in Bodies /\ CanonicalBody(numbers).sections
          /\ CanonicalBody(numbers).decls = <<numbers>>
      <4> DEFINE ds == <<numbers>>
      <4>1. ds \in Seq(SUBSET Nat)
          BY <2>1, Zenon
      <4> HIDE DEF ds
      <4>2. CanonicalBody(numbers) = [decls |-> ds, long |-> TRUE, sections |-> TRUE,
                                      plan |-> TRUE, note |-> FALSE]
          BY Zenon DEF CanonicalBody, ds
      <4>3. /\ CanonicalBody(numbers) \in Bodies /\ CanonicalBody(numbers).sections
            /\ CanonicalBody(numbers).decls = ds
          BY <4>1, <4>2, SMTT(30) DEF Bodies
      <4> QED
          BY <4>3, Zenon DEF ds
    <3> QED
        BY <3>1, <3>2, Zenon
  <2>3. CASE body.long
    <3> DEFINE ds == <<numbers>>
               c == [body EXCEPT !.decls = ds]
               e == [c EXCEPT !.sections = TRUE]
    <3>1. ds \in Seq(SUBSET Nat)
        BY <2>1, Zenon
    <3>2. b = [body EXCEPT !.decls = ds, !.sections = TRUE]
        BY <1>2, <2>3, Zenon DEF Merge
    <3> HIDE DEF ds
    <3>3. c \in Bodies /\ c.decls = ds
        BY <3>1, Zenon DEF Bodies
    <3>4. b = e
        BY <3>2, Zenon
    <3> HIDE DEF c
    <3>5. e \in Bodies /\ e.decls = ds /\ e.sections
        BY <3>3, Zenon DEF Bodies
    <3> QED
        BY <3>4, <3>5, Zenon DEF ds
  <2> QED
      BY <2>2, <2>3, Zenon
<1> QED
    BY <1>1, <1>2, Zenon

\* What main wants of the Issue of a task: when the state is not an active one,
\* the Issue is open, the body declares the prerequisites, no pull request closes
\* the Issue, and it is ready when the prerequisites are completed.
LEMMA WantedIs ==
    ASSUME Inv, sync.pc = "update", sync.at \in Tasks,
           NEW w, w = Wanted(sync.issues, sync.opened, sync.history, sync.at),
           sync.opened \in SUBSET Pulls
    PROVE  /\ w.n \in DOMAIN issues /\ issues[w.n].task = sync.at
           /\ w.body \in Bodies /\ w.labels \in SUBSET Status /\ w.owners \in SUBSET Agents
           /\ w.needs \subseteq DOMAIN issues
           /\ w.labels \cap {"ready", "waiting"} # {} =>
                /\ sync.issues[w.n].open /\ w.body.sections /\ w.body.decls = <<w.needs>>
                /\ \A p \in sync.opened : pulls[p].closes # w.n
                /\ w.labels = {"ready"} <=> \A d \in w.needs : Completed(sync.issues[d])
<1> DEFINE list == sync.issues
           n == IssueOf(list, sync.at)
           issue == list[n]
           needs == Prerequisites(list, sync.at)
           closing == {p \in sync.opened : pulls[p].closes = n}
           ready == \A d \in needs : Completed(list[d])
           derived == IF issue.open
                      THEN Derive(issue, ready, closing)
                      ELSE [ok     |-> Completed(issue) /\ Evidence(n, issue, sync.history, pulls),
                            state  |-> "done",
                            owners |-> {}]
           merged == Merge(issue.body, needs, derived.state \in Active)
<1>1. w = [ok |-> derived.ok /\ merged.ok, n |-> n, needs |-> needs, body |-> merged.body,
           labels |-> {derived.state}, owners |-> derived.owners]
    BY Zenon DEF Wanted
<1>2. /\ list \in Seq(Issues) /\ Missing(list) = {} /\ DOMAIN list = DOMAIN issues
      /\ \A m \in DOMAIN issues : list[m].task = issues[m].task
    BY Zenon DEF Inv, TypeOK, SyncOK, ReadAll, ReadTasks, HasRead
<1>3. n \in DOMAIN list /\ issue.task = sync.at /\ needs \subseteq DOMAIN list
    BY <1>2, IssueOfIs, PrerequisitesIn, Zenon
<1>4. issue \in Issues /\ issue.body \in Bodies /\ issue.open \in BOOLEAN
    BY <1>2, <1>3, IssueAt, IssueFields, Zenon
<1>5. needs \in SUBSET Nat
    BY <1>2, <1>3, SMTT(30)
<1>6. ready \in BOOLEAN /\ closing \in SUBSET Pulls
    BY Zenon
<1> HIDE DEF list, n, issue, needs, closing, ready
<1>7. /\ derived.state \in Status /\ derived.owners \in SUBSET Agents
      /\ derived.state \in {"ready", "waiting"} =>
           /\ issue.open /\ closing = {}
           /\ derived.state = IF ready THEN "ready" ELSE "waiting"
  <2>1. CASE issue.open
    <3>1. derived = Derive(issue, ready, closing)
        BY <2>1, Zenon
    <3> HIDE DEF derived
    <3> QED
        BY <1>4, <1>6, <2>1, <3>1, DeriveIs, SMTT(30)
  <2>2. CASE ~issue.open
    <3>1. derived.state = "done" /\ derived.owners = {}
        BY <2>2, Zenon
    <3>2. "done" \in Status
        BY StatusNames, Zenon
    <3> HIDE DEF derived
    <3> QED
        BY <3>1, <3>2, Zenon
  <2> QED
      BY <1>4, <2>1, <2>2, Zenon
<1> HIDE DEF derived
<1>8. /\ merged.body \in Bodies
      /\ derived.state \notin Active => merged.body.sections /\ merged.body.decls = <<needs>>
  <2> DEFINE act == derived.state \in Active
  <2>1. act \in BOOLEAN /\ merged = Merge(issue.body, needs, act)
      OBVIOUS
  <2>2. derived.state \notin Active => ~act
      BY Zenon
  <2> HIDE DEF act, merged
  <2> QED
      BY <1>4, <1>5, <2>1, <2>2, MergeIs, Zenon
<1> HIDE DEF merged
<1>9. /\ w.n = n /\ w.needs = needs /\ w.body = merged.body /\ w.labels = {derived.state}
      /\ w.owners = derived.owners
    BY <1>1, SMTT(30)
<1>10. ASSUME w.labels \cap {"ready", "waiting"} # {}
       PROVE  /\ list[w.n].open /\ w.body.sections /\ w.body.decls = <<w.needs>>
              /\ \A p \in sync.opened : pulls[p].closes # w.n
              /\ w.labels = {"ready"} <=> \A d \in w.needs : Completed(list[d])
  <2>1. derived.state \in {"ready", "waiting"}
      BY <1>9, <1>10, Zenon
  <2>2. derived.state \notin Active
      BY <2>1, Zenon DEF Active
  <2>3. \A p \in sync.opened : pulls[p].closes # n
      BY <1>7, <2>1, Zenon DEF closing
  <2>4. w.labels = {"ready"} <=> ready
      BY <1>6, <1>7, <1>9, <2>1, Zenon
  <2> QED
      BY <1>7, <1>8, <1>9, <2>1, <2>2, <2>3, <2>4, Zenon DEF issue, ready
<1>11. w.labels \in SUBSET Status
    BY <1>7, <1>9, Zenon
<1> QED
    BY <1>2, <1>3, <1>7, <1>8, <1>9, <1>10, <1>11, Zenon DEF issue, list

\* What the controller decides of an Issue depends on its body, on what is
\* completed and on the open pull requests.
LEMMA ClaimableKept ==
    ASSUME Inv, SameIssues, pulls' = pulls, NEW n \in DOMAIN issues, issues'[n] = issues[n],
           \A d \in DOMAIN issues : Completed(issues'[d]) <=> Completed(issues[d])
    PROVE  Agrees(n)' <=> Agrees(n)
<1>1. Claimable(n)' <=> Claimable(n)
    BY Zenon DEF Claimable, SameIssues
<1> QED
    BY <1>1, Zenon DEF Agrees

LEMMA UpdatedKeeps ==
    ASSUME Inv, sync.pc = "update", sync.at \in Tasks, UNCHANGED <<pulls, quiet, events>>,
           DOMAIN sync' = SyncFields, sync'.dry = sync.dry, Position(sync'.at),
           sync'.issues = sync.issues, sync'.opened = sync.opened, sync'.pc = "update",
           sync'.at = TaskAfter(sync.at),
           SameIssues,
           \A m \in DOMAIN issues :
               issues'[m].open = issues[m].open /\ issues'[m].reason = issues[m].reason,
           (quiet /\ ~sync.dry) =>
               \A m \in DOMAIN issues :
                   IF issues[m].task = sync.at THEN Agrees(m)' ELSE issues'[m] = issues[m]
    PROVE  Inv'
<1>1. TypeOK'
    BY Zenon DEF Inv, TypeOK, SyncOK, SameIssues, Position
<1>2. OneEach' /\ PullsClose'
    BY Zenon DEF Inv, OneEach, PullsClose, SameIssues
<1>3. ReadTasks' /\ ReadAll'
    BY SMTT(30) DEF Inv, ReadTasks, ReadAll, HasRead, Missing, IssuesOf, SameIssues
<1>4. ReadQuietly'
    BY Zenon DEF Inv, ReadQuietly, HasRead, SameIssues
<1>5. Agreed'
  <2> SUFFICES ASSUME quiet, ~sync.dry, NEW m \in DOMAIN issues,
                      Before(issues[m].task, TaskAfter(sync.at))
               PROVE  Agrees(m)'
      BY Zenon DEF Agreed, SameIssues, Before
  <2>1. issues[m].task \in Tasks
      BY IssueAt, IssueFields, Zenon DEF Inv, TypeOK
  <2>2. CASE issues[m].task = sync.at
      BY <2>2, Zenon
  <2>3. CASE issues[m].task # sync.at
    <3>1. Agrees(m)
        BY <2>1, <2>3, NextPosition, Zenon DEF Inv, Agreed
    <3>2. \A d \in DOMAIN issues : Completed(issues'[d]) <=> Completed(issues[d])
        BY Zenon DEF Completed
    <3> QED
        BY <2>3, <3>1, <3>2, ClaimableKept, Zenon
  <2> QED
      BY <2>2, <2>3, Zenon
<1> QED
    BY <1>1, <1>2, <1>3, <1>4, <1>5, Zenon DEF Inv

LEMMA UpdateKeeps ==
    ASSUME Inv, Update
    PROVE  Inv'
<1> DEFINE w == Wanted(sync.issues, sync.opened, sync.history, sync.at)
<1>1. /\ sync.pc = "update" /\ ~Walked /\ UNCHANGED <<pulls, quiet, events>>
      /\ DOMAIN sync = SyncFields /\ Position(sync.at)
    BY Zenon DEF Update, Inv, TypeOK, SyncOK
<1>2. /\ sync.at \in Tasks /\ Position(TaskAfter(sync.at))
    BY <1>1, NextPosition, Zenon DEF Walked, Position
<1>3. \/ Throw /\ issues' = issues
      \/ /\ sync' = [sync EXCEPT !.at = TaskAfter(@), !.wants = Append(@, w)]
         /\ issues' = IF sync.dry THEN issues
                      ELSE [issues EXCEPT ![w.n].body = w.body, ![w.n].labels = w.labels,
                                          ![w.n].owners = w.owners]
    BY Zenon DEF Update
<1>4. CASE Throw /\ issues' = issues
    BY <1>1, <1>4, ThrowKeeps, Zenon
<1>5. CASE sync' = [sync EXCEPT !.at = TaskAfter(@), !.wants = Append(@, w)]
  <2>1. /\ DOMAIN sync' = SyncFields /\ sync'.dry = sync.dry /\ sync'.at = TaskAfter(sync.at)
        /\ sync'.issues = sync.issues /\ sync'.pc = "update" /\ sync'.opened = sync.opened
      BY <1>1, <1>5, Zenon DEF SyncFields
  <2>2. CASE issues' = issues /\ sync.dry
    <3>1. SameIssues
        BY <2>2, Unchanged, Zenon
    <3> QED
        BY <1>1, <1>2, <2>1, <2>2, <3>1, UpdatedKeeps, Zenon
  <2>3. CASE /\ ~sync.dry
             /\ issues' = [issues EXCEPT ![w.n].body = w.body, ![w.n].labels = w.labels,
                                         ![w.n].owners = w.owners]
    <3>1. sync.opened \in SUBSET Pulls
        BY Zenon DEF Inv, TypeOK, SyncOK
    <3>2. /\ w.n \in DOMAIN issues /\ issues[w.n].task = sync.at
          /\ w.body \in Bodies /\ w.labels \in SUBSET Status /\ w.owners \in SUBSET Agents
          /\ w.needs \subseteq DOMAIN issues
          /\ w.labels \cap {"ready", "waiting"} # {} =>
               /\ sync.issues[w.n].open /\ w.body.sections /\ w.body.decls = <<w.needs>>
               /\ \A p \in sync.opened : pulls[p].closes # w.n
               /\ w.labels = {"ready"} <=> \A d \in w.needs : Completed(sync.issues[d])
        BY <1>1, <1>2, <3>1, WantedIs, Zenon
    <3> HIDE DEF w
    <3> DEFINE i == [issues[w.n] EXCEPT !.body = w.body]
               j == [i EXCEPT !.labels = w.labels]
               k == [j EXCEPT !.owners = w.owners]
    <3>3. issues \in Seq(Issues) /\ issues[w.n] \in Issues
        BY <3>2, IssueAt, Zenon DEF Inv, TypeOK
    <3>4. issues' = [issues EXCEPT ![w.n] = k]
        BY <2>3, <3>2, <3>3, Zenon
    <3>5. /\ i \in Issues /\ i.task = issues[w.n].task /\ i.open = issues[w.n].open
          /\ i.reason = issues[w.n].reason /\ i.body = w.body
        BY <3>2, <3>3, Zenon DEF Issues
    <3> HIDE DEF i
    <3>6. /\ j \in Issues /\ j.task = i.task /\ j.open = i.open /\ j.reason = i.reason
          /\ j.body = i.body /\ j.labels = w.labels
        BY <3>2, <3>5, Zenon DEF Issues
    <3> HIDE DEF j
    <3>7. /\ k \in Issues /\ k.task = j.task /\ k.open = j.open /\ k.reason = j.reason
          /\ k.body = j.body /\ k.labels = j.labels
        BY <3>2, <3>6, Zenon DEF Issues
    <3> HIDE DEF k
    <3>8. /\ SameIssues /\ issues'[w.n] = k
          /\ \A m \in DOMAIN issues : m # w.n => issues'[m] = issues[m]
        BY <3>2, <3>4, <3>5, <3>6, <3>7, ChangedAt, Zenon
    <3>9. \A m \in DOMAIN issues :
              issues'[m].open = issues[m].open /\ issues'[m].reason = issues[m].reason
        BY <3>5, <3>6, <3>7, <3>8, Zenon
    <3>10. ASSUME quiet, NEW m \in DOMAIN issues
           PROVE  IF issues[m].task = sync.at THEN Agrees(m)' ELSE issues'[m] = issues[m]
      <4>1. CASE issues[m].task # sync.at
          BY <3>2, <3>8, <4>1, Zenon
      <4>2. CASE issues[m].task = sync.at
        <5>1. m = w.n
            BY <3>2, <4>2, Zenon DEF Inv, OneEach
        <5>2. issues'[m].labels = w.labels /\ issues'[m].body = w.body
            BY <3>5, <3>6, <3>7, <3>8, <5>1, Zenon
        <5>3. \A d \in DOMAIN issues : Completed(issues'[d]) <=> Completed(sync.issues[d])
            BY <1>1, <3>9, <3>10, Zenon DEF Inv, ReadQuietly, HasRead, Completed
        <5>4. sync.opened = {p \in Pulls : pulls[p].state = "open"} /\ issues'[m].open = sync.issues[m].open
            BY <1>1, <3>9, <3>10, Zenon DEF Inv, ReadQuietly, HasRead
        <5>5. ASSUME w.labels \cap {"ready", "waiting"} # {}
              PROVE  w.labels = {"ready"} <=> Claimable(m)'
          <6>1. issues'[m].open /\ issues'[m].body.sections /\ w.body.decls = <<w.needs>>
              BY <3>2, <5>1, <5>2, <5>4, <5>5, Zenon
          <6>2. ~\E p \in Pulls : pulls'[p].state = "open" /\ pulls'[p].closes = m
              BY <1>1, <3>2, <5>1, <5>4, <5>5, Zenon
          <6>3. \A numbers : Declares(issues'[m].body, numbers) <=> numbers = w.needs
              BY <5>2, <6>1, SMTT(30) DEF Declares
          <6>4. w.needs \in SUBSET DOMAIN issues'
              BY <3>2, <3>8, Zenon DEF SameIssues
          <6>5. Claimable(m)' <=> \A d \in w.needs : Completed(issues'[d])
              BY <6>1, <6>2, <6>3, <6>4, Zenon DEF Claimable
          <6> QED
              BY <3>2, <5>3, <5>5, <6>5, Zenon
        <5> QED
            BY <4>2, <5>2, <5>5, Zenon DEF Agrees
      <4> QED
          BY <4>1, <4>2, Zenon
    <3> QED
        BY <1>1, <1>2, <2>1, <3>8, <3>9, <3>10, UpdatedKeeps, Zenon
  <2> QED
      BY <1>3, <1>4, <1>5, <2>2, <2>3, Zenon DEF Inv, TypeOK, SyncOK
<1> QED
    BY <1>3, <1>4, <1>5, Zenon

-----------------------------------------------------------------------------
(* The theorems *)

LEMMA NextKeeps ==
    Inv /\ [Next]_vars => Inv'
<1> SUFFICES ASSUME Inv, [Next]_vars PROVE Inv'
    BY Zenon
<1>1. CASE UNCHANGED vars
  <2>1. TypeOK' /\ OneEach' /\ PullsClose' /\ ReadTasks' /\ ReadAll' /\ ReadQuietly'
      BY <1>1, SMTT(30) DEF vars, Inv, TypeOK, SyncOK, Position, OneEach, PullsClose, ReadTasks, ReadAll,
                  ReadQuietly, HasRead, Missing, IssuesOf
  <2>2. Agreed'
      BY <1>1, ZenonT(30) DEF vars, Inv, Agreed, Agrees, Claimable
  <2> QED
      BY <2>1, <2>2, Zenon DEF Inv
<1>2. CASE \E dry \in BOOLEAN : Start(dry)
    BY <1>2, StartKeeps, Zenon
<1>3. CASE Step
    BY <1>3, SaveCatalogKeeps, ReadIssuesKeeps, ReadPullsKeeps, ReadHistoryKeeps,
       CreateMissingKeeps, UpdateKeeps, ProtectKeeps, VerifyKeeps, Zenon, SMTT(30) DEF Step
<1>4. CASE Dies
    BY <1>4, ThrowKeeps, Zenon DEF Dies
<1>5. CASE \E n \in DOMAIN issues :
              \/ \E a \in Agents : Claim(n, a)
              \/ Release(n)
              \/ \E p \in Pulls, a \in Agents : OpenPull(p, n, a)
              \/ Finish(n)
              \/ \E reason \in {"completed", "not_planned"} : CloseByHand(n, reason)
              \/ Edit(n)
    BY <1>5, ClaimKeeps, OpenPullKeeps, CloseByHandKeeps, EditKeeps, Zenon
<1>6. CASE \E p \in Pulls : MergePull(p) \/ ForcePush(p)
    BY <1>6, MergePullKeeps, ForcePushKeeps, Zenon
<1>7. CASE Unprotect
    BY <1>7, UnprotectKeeps, Zenon
<1> QED
    BY <1>1, <1>2, <1>3, <1>4, <1>5, <1>6, <1>7, Zenon DEF Next

LEMMA InvAlways ==
    Spec => []Inv
BY InitInv, NextKeeps, PTL DEF Spec

\* A run of main that is cut off at any call and started again, also after a
\* create whose answer was lost, never gives a task a second Issue, however many
\* plans, tasks and runs there are (findTaskIssue would refuse the marker).
THEOREM OneIssuePerTaskHolds ==
    Spec => []OneIssuePerTask
<1>1. Inv => OneIssuePerTask
  <2> SUFFICES ASSUME Inv, NEW t \in Tasks PROVE Cardinality(IssuesOf(issues, t)) <= 1
      BY Zenon DEF OneIssuePerTask
  <2>1. CASE IssuesOf(issues, t) = {}
      BY <2>1, FS_EmptySet, SMTT(30)
  <2>2. CASE IssuesOf(issues, t) # {}
    <3>1. PICK n \in DOMAIN issues : issues[n].task = t
        BY <2>2, Zenon DEF IssuesOf
    <3>2. IssuesOf(issues, t) = {n}
        BY <3>1, Zenon DEF Inv, OneEach, IssuesOf
    <3> QED
        BY <3>2, FS_Singleton, SMTT(30)
  <2> QED
      BY <2>1, <2>2, Zenon
<1> QED
    BY <1>1, InvAlways, PTL

\* When a run of main that nobody interfered with is over, an Issue nobody works
\* on is labelled ready exactly when the lifecycle controller, from the body the
\* run wrote, would accept a claim of it (evaluateReadiness).
THEOREM ReadyIsClaimableHolds ==
    Spec => []ReadyIsClaimable
<1>1. Inv => ReadyIsClaimable
    BY Zenon DEF Inv, Agreed, Agrees, ReadyIsClaimable
<1> QED
    BY <1>1, InvAlways, PTL
=============================================================================
