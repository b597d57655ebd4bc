------------------------------- MODULE PlanSync -------------------------------
(***************************************************************************)
(* Management synchronization (scripts/github/sync-management.mjs): one    *)
(* operator's run of main reads the repository, creates the Issue of every *)
(* plan task that has none, writes title, body, labels and assignees of    *)
(* every plan Issue from what it read, and reads them all back.  Each call *)
(* of the GitHub CLI is a step of its own, so maintainers and the Issue    *)
(* lifecycle controller work between any two of them; a run may also die   *)
(* at any call, its last write applied or not, and is started again.       *)
(*                                                                         *)
(* Issue numbers are positions in issues.  A body is what the code looks   *)
(* for in it: its dependency declarations, its length, the four required   *)
(* sections, the plan section and a contributor's note.                    *)
(***************************************************************************)
EXTENDS PlanGraph, FiniteSets

CONSTANTS
    Pulls,          \* pull requests
    Migrated,       \* those a migration record admits without a claim
    Catalog,        \* milestones and labels of .github
    Agents,         \* who claims Issues and opens pull requests
    MaxEvents,      \* bound: writes by others, and dry runs
    MaxFaults       \* bound: runs that die

Active == {"in-progress", "review", "blocked"}
Status == Active \cup {"ready", "waiting", "done"}

VARIABLES
    issues,     \* the repository's plan Issues
    pulls,      \* its pull requests
    catalog,    \* the milestones and labels that exist
    protected,  \* branch protection of main is in force
    sync,       \* the run: where it is, what it read, what it wants
    quiet,      \* nobody else wrote since the run began
    events,     \* the writes by others so far; also the time of day
    faults

vars == <<issues, pulls, catalog, protected, sync, quiet, events, faults>>

\* The body a missing Issue is created with: a marker, a declaration and a
\* final newline are four lines to split, so the stub is not a short body.
StubBody ==
    [decls |-> <<{}>>, long |-> TRUE, sections |-> FALSE, plan |-> FALSE,
     note |-> FALSE]

NewIssue(t) ==
    [task |-> t, open |-> TRUE, reason |-> "none", closed |-> 0,
     labels |-> {"waiting"}, owners |-> {}, body |-> StubBody]

NoPull == [state |-> "none", closes |-> 0, by |-> {}, merged |-> 0, reachable |-> FALSE]

Idle ==
    [pc |-> "idle", dry |-> FALSE, at |-> FirstTask, catalog |-> {}, issues |-> <<>>,
     opened |-> {}, history |-> {}, wants |-> <<>>]

Init ==
    /\ issues = <<>>
    /\ pulls = [p \in Pulls |-> NoPull]
    /\ catalog = {}
    /\ protected = FALSE
    /\ sync = Idle
    /\ quiet = TRUE
    /\ events = 0
    /\ faults = 0

-----------------------------------------------------------------------------
(* What a run derives from what it read. *)

\* issueForTask, findTaskIssue: the Issues whose body holds the marker.
IssuesOf(list, t) == {n \in DOMAIN list : list[n].task = t}

IssueOf(list, t) == CHOOSE n \in DOMAIN list : list[n].task = t

Missing(list) == {t \in Tasks : IssuesOf(list, t) = {}}

Prerequisites(list, t) == {IssueOf(list, d) : d \in BlockedBy(t)}

Completed(issue) == ~issue.open /\ issue.reason = "completed"

\* parseDependencies: exactly one declaration.
Declares(body, numbers) == body.decls = <<numbers>>

\* renderPlanIssueBody
CanonicalBody(numbers) ==
    [decls |-> <<numbers>>, long |-> TRUE, sections |-> TRUE, plan |-> TRUE,
     note |-> FALSE]

\* mergePlanIssueBody: an active body is kept or refused, a short one is
\* replaced, any other gets its declaration and the missing sections.
Merge(body, numbers, active) ==
    IF active THEN [ok |-> Declares(body, numbers), body |-> body]
    ELSE [ok   |-> Len(body.decls) <= 1,
          body |-> IF ~body.long THEN CanonicalBody(numbers)
                   ELSE [body EXCEPT !.decls = <<numbers>>, !.sections = TRUE]]

\* verifyHistoricalClosure: one merged pull request closes the Issue, it was
\* merged before the Issue was closed and main still contains it (the
\* comparison is a live read).
Evidence(n, issue, seen, now) ==
    \E p \in seen :
        /\ {q \in seen : now[q].closes = n /\ now[q].state = "merged"} = {p}
        /\ now[p].merged <= issue.closed
        /\ now[p].reachable

FaultyDerive(issue, ready, closing) ==
    LET active == issue.labels \cap Active
    IN  IF active # {}
        THEN [ok |-> TRUE, state |-> CHOOSE s \in active : TRUE, owners |-> issue.owners]
        ELSE [ok |-> TRUE, state |-> IF ready THEN "ready" ELSE "waiting", owners |-> {}]

\* deriveLifecycleState of an open Issue: closing is the set of open pull
\* requests that close it.  The canonical body it inspects always has the
\* four sections.
Derive(issue, ready, closing) ==
    LET active   == issue.labels \cap Active
        migrated == closing \cap Migrated
    IN  IF active # {}
        THEN [ok     |-> Cardinality(issue.labels) = 1 /\ Cardinality(issue.owners) = 1,
              state  |-> CHOOSE s \in active : TRUE,
              owners |-> issue.owners]
        ELSE IF closing # {}
        THEN [ok     |-> /\ Cardinality(issue.labels) <= 1 /\ issue.owners = {}
                         /\ Cardinality(closing) = 1 /\ migrated # {},
              state  |-> "review",
              owners |-> UNION {pulls[p].by : p \in migrated}]
        ELSE [ok     |-> Cardinality(issue.labels) <= 1 /\ issue.owners = {},
              state  |-> IF ready THEN "ready" ELSE "waiting",
              owners |-> {}]

\* What main wants of the Issue of task t; ok is FALSE where it throws.
Wanted(list, opened, history, t) ==
    LET n       == IssueOf(list, t)
        issue   == list[n]
        needs   == Prerequisites(list, t)
        closing == {p \in opened : pulls[p].closes = n}
        derived == IF issue.open
                   THEN Derive(issue, \A d \in needs : Completed(list[d]), closing)
                   ELSE [ok     |-> Completed(issue) /\ Evidence(n, issue, history, pulls),
                         state  |-> "done",
                         owners |-> {}]
        merged  == Merge(issue.body, needs, derived.state \in Active)
    IN  [ok |-> derived.ok /\ merged.ok, n |-> n, needs |-> needs, body |-> merged.body,
         labels |-> {derived.state}, owners |-> derived.owners]

-----------------------------------------------------------------------------
(* One run of main.  at walks the tasks in every pass. *)

Walked == sync.at[1] > Len(Plans)

\* A step of the run that writes nothing to the repository.
Reads == UNCHANGED <<issues, pulls, catalog, protected, events, faults>>

Throw == sync' = Idle

\* main up to the milestones: the collaborators, labels and milestones are
\* read.  A dry run counts as an event to bound them.
Start(dry) ==
    /\ sync.pc \in {"idle", "done"}
    /\ dry => events < MaxEvents
    /\ sync' = [Idle EXCEPT !.pc = "catalog", !.dry = dry, !.catalog = catalog]
    /\ quiet' = TRUE
    /\ events' = IF dry THEN events + 1 ELSE events
    /\ UNCHANGED <<issues, pulls, catalog, protected, faults>>

\* Milestones, then labels: each is updated if the listing had it and created
\* otherwise.
SaveCatalog ==
    /\ sync.pc = "catalog"
    /\ IF sync.dry \/ Catalog \subseteq sync.catalog
       THEN /\ sync' = [sync EXCEPT !.pc = "issues"]
            /\ UNCHANGED catalog
       ELSE \E c \in Catalog \ sync.catalog :
                /\ catalog' = catalog \cup {c}
                /\ sync' = [sync EXCEPT !.catalog = @ \cup {c}]
    /\ UNCHANGED <<issues, pulls, protected, quiet, events, faults>>

ReadIssues ==
    /\ sync.pc = "issues"
    /\ sync' = [sync EXCEPT !.pc = "pulls", !.issues = issues]
    /\ Reads /\ UNCHANGED quiet

ReadPulls ==
    /\ sync.pc = "pulls"
    /\ sync' = [sync EXCEPT !.pc = "history",
                            !.opened = {p \in Pulls : pulls[p].state = "open"}]
    /\ Reads /\ UNCHANGED quiet

\* loadHistoricalPullRequests: the pull requests that mention an Issue the
\* listing showed closed.
ReadHistory ==
    /\ sync.pc = "history"
    /\ sync' = [sync EXCEPT !.pc = "create", !.at = FirstTask,
                    !.history = {p \in Pulls :
                                    /\ pulls[p].closes \in DOMAIN sync.issues
                                    /\ ~sync.issues[pulls[p].closes].open}]
    /\ Reads /\ UNCHANGED quiet

FaultyCreated(list, t) == list \o <<NewIssue(t), NewIssue(t)>>

\* createGh: a write is sent once; a timed-out write ends the run.
Created(list, t) == Append(list, NewIssue(t))

\* The identity pass.  A dry run creates nothing; when it finds some tasks
\* without an Issue it has no graph, and fails at the first task that has one.
CreateMissing ==
    /\ sync.pc = "create"
    /\ UNCHANGED <<pulls, catalog, protected, quiet, events, faults>>
    /\ IF Walked
       THEN /\ UNCHANGED issues
            /\ IF Missing(sync.issues) = {}
               THEN sync' = [sync EXCEPT !.pc = "update", !.at = FirstTask]
               ELSE IF Missing(sync.issues) = Tasks
               THEN sync' = [sync EXCEPT !.pc = "done"]
               ELSE Throw
       ELSE LET t == sync.at
            IN  IF Cardinality(IssuesOf(sync.issues, t)) > 1
                THEN Throw /\ UNCHANGED issues
                ELSE IF sync.dry \/ t \notin Missing(sync.issues)
                THEN /\ sync' = [sync EXCEPT !.at = TaskAfter(t)]
                     /\ UNCHANGED issues
                ELSE /\ issues' = Created(issues, t)
                     /\ sync' = [sync EXCEPT !.at = TaskAfter(t),
                                             !.issues = Append(@, NewIssue(t))]

\* The second pass: derive and write one Issue.  The write replaces body,
\* labels and assignees whatever they are by now.
Update ==
    /\ sync.pc = "update"
    /\ ~Walked
    /\ LET want == Wanted(sync.issues, sync.opened, sync.history, sync.at)
       IN  IF ~want.ok
           THEN Throw /\ UNCHANGED issues
           ELSE /\ sync' = [sync EXCEPT !.at = TaskAfter(@), !.wants = Append(@, want)]
                /\ issues' = IF sync.dry THEN issues
                             ELSE [issues EXCEPT ![want.n].body = want.body,
                                                 ![want.n].labels = want.labels,
                                                 ![want.n].owners = want.owners]
    /\ UNCHANGED <<pulls, catalog, protected, quiet, events, faults>>

\* branchProtectionFor and its PUT; a dry run is over here.
Protect ==
    /\ sync.pc = "update"
    /\ Walked
    /\ sync' = [sync EXCEPT !.pc = IF sync.dry THEN "done" ELSE "verify"]
    /\ protected' = (protected \/ ~sync.dry)
    /\ UNCHANGED <<issues, pulls, catalog, quiet, events, faults>>

FaultyPostcondition(issue, want) ==
    /\ issue.body = CanonicalBody(want.needs)
    /\ issue.labels = want.labels
    /\ issue.owners = want.owners

\* verifyIssuePostcondition, assertIssueInvariant
Postcondition(issue, want) ==
    /\ issue.body = want.body
    /\ issue.labels = want.labels
    /\ issue.owners = want.owners
    /\ Declares(issue.body, want.needs)
    /\ Cardinality(issue.owners) = IF issue.labels \cap Active # {} THEN 1 ELSE 0
    /\ IF issue.labels = {"done"} THEN Completed(issue) ELSE issue.open

\* Every Issue is read back; one that differs fails the run.
Verify ==
    /\ sync.pc = "verify"
    /\ sync' = IF sync.wants = <<>> THEN [Idle EXCEPT !.pc = "done"]
               ELSE IF Postcondition(issues[Head(sync.wants).n], Head(sync.wants))
               THEN [sync EXCEPT !.wants = Tail(@)]
               ELSE Idle
    /\ Reads /\ UNCHANGED quiet

\* run: a call that fails, a write that times out, or the third timeout of a
\* read ends the run wherever it is.
Dies ==
    /\ sync.pc \notin {"idle", "done"}
    /\ faults < MaxFaults
    /\ faults' = faults + 1
    /\ Throw
    /\ UNCHANGED <<issues, pulls, catalog, protected, quiet, events>>

-----------------------------------------------------------------------------
(* Everybody else: the lifecycle controller (module IssueLifecycle), GitHub *)
(* and the people with write access.                                       *)

Others ==
    /\ events < MaxEvents
    /\ events' = events + 1
    /\ quiet' = FALSE
    /\ UNCHANGED <<catalog, sync, faults>>

\* evaluateReadiness: what the controller asks of an Issue before a claim.
Claimable(n) ==
    /\ issues[n].open
    /\ issues[n].body.sections
    /\ \E numbers \in SUBSET DOMAIN issues :
          /\ Declares(issues[n].body, numbers)
          /\ \A d \in numbers : Completed(issues[d])
    /\ ~\E p \in Pulls : pulls[p].state = "open" /\ pulls[p].closes = n

Claim(n, a) ==
    /\ issues[n].labels = {"ready"} /\ Claimable(n)
    /\ issues' = [issues EXCEPT ![n].labels = {"in-progress"}, ![n].owners = {a}]
    /\ Others /\ UNCHANGED <<pulls, protected>>

Release(n) ==
    /\ issues[n].open /\ issues[n].labels = {"in-progress"}
    /\ issues' = [issues EXCEPT ![n].labels = {"ready"}, ![n].owners = {}]
    /\ Others /\ UNCHANGED <<pulls, protected>>

\* The controller moves a claimed Issue to review; a pull request without a
\* claim changes no label.
OpenPull(p, n, a) ==
    /\ pulls[p].state = "none"
    /\ pulls' = [pulls EXCEPT ![p] = [state |-> "open", closes |-> n, by |-> {a},
                                      merged |-> 0, reachable |-> FALSE]]
    /\ issues' = IF issues[n].labels = {"in-progress"}
                 THEN [issues EXCEPT ![n].labels = {"review"}] ELSE issues
    /\ Others /\ UNCHANGED protected

\* GitHub merges and closes the Issue at once.
MergePull(p) ==
    /\ pulls[p].state = "open"
    /\ pulls' = [pulls EXCEPT ![p].state = "merged", ![p].merged = events,
                              ![p].reachable = TRUE]
    /\ issues' = IF issues[pulls[p].closes].open
                 THEN [issues EXCEPT ![pulls[p].closes].open = FALSE,
                                     ![pulls[p].closes].reason = "completed",
                                     ![pulls[p].closes].closed = events]
                 ELSE issues
    /\ Others /\ UNCHANGED protected

\* The controller's answer to the merge.
Finish(n) ==
    /\ Completed(issues[n]) /\ issues[n].labels # {"done"}
    /\ \E p \in Pulls : pulls[p].state = "merged" /\ pulls[p].closes = n
    /\ issues' = [issues EXCEPT ![n].labels = {"done"}, ![n].owners = {}]
    /\ Others /\ UNCHANGED <<pulls, protected>>

CloseByHand(n, reason) ==
    /\ issues[n].open
    /\ issues' = [issues EXCEPT ![n].open = FALSE, ![n].reason = reason,
                                ![n].closed = events]
    /\ Others /\ UNCHANGED <<pulls, protected>>

Edit(n) ==
    /\ issues[n].open
    /\ \E body \in {[issues[n].body EXCEPT !.note = TRUE],
                    [issues[n].body EXCEPT !.long = FALSE, !.sections = FALSE,
                                           !.plan = FALSE, !.note = FALSE]} \cup
                   (IF Len(issues[n].body.decls) = 1
                    THEN {[issues[n].body EXCEPT !.decls = @ \o @]} ELSE {}) :
          /\ body # issues[n].body
          /\ issues' = [issues EXCEPT ![n].body = body]
    /\ Others /\ UNCHANGED <<pulls, protected>>

\* main is rewritten, which its protection forbids.
ForcePush(p) ==
    /\ ~protected
    /\ pulls[p].reachable
    /\ pulls' = [pulls EXCEPT ![p].reachable = FALSE]
    /\ Others /\ UNCHANGED <<issues, protected>>

\* An administrator lifts the protection.
Unprotect ==
    /\ protected
    /\ protected' = FALSE
    /\ Others /\ UNCHANGED <<issues, pulls>>

-----------------------------------------------------------------------------
Step ==
    \/ SaveCatalog \/ ReadIssues \/ ReadPulls \/ ReadHistory
    \/ CreateMissing \/ Update \/ Protect \/ Verify

Next ==
    \/ \E dry \in BOOLEAN : Start(dry)
    \/ Step
    \/ Dies
    \/ \E n \in DOMAIN issues :
          \/ \E a \in Agents : Claim(n, a)
          \/ Release(n)
          \/ \E p \in Pulls, a \in Agents : OpenPull(p, n, a)
          \/ Finish(n)
          \/ \E reason \in {"completed", "not_planned"} : CloseByHand(n, reason)
          \/ Edit(n)
    \/ \E p \in Pulls : MergePull(p) \/ ForcePush(p)
    \/ Unprotect

Spec == Init /\ [][Next]_vars

\* The operator starts the run again until it succeeds, and a running script
\* goes on.
FairSpec == Spec /\ WF_vars(Start(FALSE)) /\ WF_vars(Step)

-----------------------------------------------------------------------------
\* findTaskIssue refuses a marker that two Issues carry, and then no run can
\* ever finish: a run that is cut off and started again, also after a create
\* whose answer was lost, never gives a task a second Issue.
OneIssuePerTask ==
    \A t \in Tasks : Cardinality(IssuesOf(issues, t)) <= 1

\* After a run nobody interfered with, the label the run wrote agrees with
\* what the controller will decide from the body the run wrote: an unclaimed
\* Issue is ready exactly when the controller would accept a claim.
ReadyIsClaimable ==
    sync.pc = "done" /\ ~sync.dry /\ quiet =>
        \A n \in DOMAIN issues :
            issues[n].labels \cap {"ready", "waiting"} # {} =>
                (issues[n].labels = {"ready"} <=> Claimable(n))

\* Some plan Issue needs a person: every run throws at it.
NeedsRepair ==
    Missing(issues) = {} /\
    \E t \in Tasks : ~Wanted(issues, {p \in Pulls : pulls[p].state = "open"}, Pulls, t).ok

\* Every task has its Issue and the last run read all of them back.
Synchronized ==
    sync.pc = "done" /\ ~sync.dry /\ Missing(issues) = {}

\* Whatever died or interfered before, starting the run again gets every plan
\* task an Issue that passes the read-back, unless one needs a person.
Converges == []<>(Synchronized \/ NeedsRepair)
=============================================================================
