------------------------------ MODULE PlanGraph ------------------------------
(***************************************************************************)
(* The dependency graph that management synchronization gives the plan     *)
(* tasks (scripts/github/sync-management.mjs, buildPlanIssueGraph).  A     *)
(* task is <<plan, number>>; both count from 1, where the code's plan      *)
(* index counts from 0.                                                    *)
(***************************************************************************)
EXTENDS Naturals, Sequences

CONSTANTS
    Plans,          \* Plans[p]: how many tasks plan p has
    ConnectorPlan   \* the plan with the parallel prerequisites of ADR 0003

\* loadPlanTasks refuses a plan without tasks.
ASSUME PlansAssumption == Plans \in Seq(Nat \ {0})

\* loadPlanTasks numbers the tasks of a plan contiguously from 1.
Tasks == UNION {{p} \X (1 .. Plans[p]) : p \in 1 .. Len(Plans)}

\* M1_TASK_DEPENDENCIES, for the task numbers 2 .. 7 it lists.
ConnectorDeps(n) ==
    IF n \in 2 .. 4 THEN {1} ELSE IF n \in 5 .. 6 THEN 2 .. (n - 1) ELSE {6}

\* The experimental plan is the last of five: it is gated by nobody and
\* gates nobody.
LastGatedPlan == 4

BlockedBy(t) ==
    IF t[1] = ConnectorPlan /\ t[2] \in 2 .. 7
    THEN {<<t[1], n>> : n \in ConnectorDeps(t[2])}
    ELSE IF t[2] > 1 THEN {<<t[1], t[2] - 1>>}
    ELSE IF t[1] \in 2 .. LastGatedPlan THEN {<<t[1] - 1, Plans[t[1] - 1]>>}
    ELSE {}

\* The order in which main walks the definitions and their tasks.
FirstTask == <<1, 1>>

TaskAfter(t) ==
    IF t[2] < Plans[t[1]] THEN <<t[1], t[2] + 1>> ELSE <<t[1] + 1, 1>>

Before(d, t) == d[1] < t[1] \/ (d[1] = t[1] /\ d[2] < t[2])
=============================================================================
