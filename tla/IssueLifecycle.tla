---------------------------- MODULE IssueLifecycle ----------------------------
(***************************************************************************)
(* The lifecycle of one GitHub Issue under the repository's controller     *)
(* (scripts/github/ai-issue-controller.mjs over ai-issue-policy.mjs).      *)
(*                                                                         *)
(* People post commands as comments, open, edit, close and merge pull      *)
(* requests and close or reopen the Issue.  The controller runs as a       *)
(* workflow, one run at a time.  A run drains the unanswered commands and  *)
(* then reconciles the Issue, a pull request, or (hourly) everything.  A   *)
(* transition is three GitHub writes: a comment stating the intent, the    *)
(* new label and assignee, and a comment that is the receipt.  A run can   *)
(* die, and a write can fail, between any two of them; the next run finds  *)
(* the intent and completes it.                                            *)
(*                                                                         *)
(* "log" is the Issue's comments in id order; a comment's id is its        *)
(* position.  A handler reads its pull request and the Issue in one step,  *)
(* its comments with the open pull requests in another.  The time of a     *)
(* lease is counted in steps of "now".                                     *)
(***************************************************************************)
EXTENDS Naturals, Sequences, FiniteSets, FiniteSetsExt, SequencesExt

CONSTANTS
  Users,        \* people who comment and open pull requests
  Eligible,     \* those with write, maintain or admin permission
  Maintainers,  \* those with maintain or admin permission
  Pulls,        \* numbers of the pull requests that close the Issue
  Verbs,        \* commands people post
  LeaseLength,  \* LEASE_MILLISECONDS
  MaxTime,      \* bound on the clock
  MaxCommands,  \* bound on commands posted
  MaxEdits,     \* bound on what people do to the Issue and pull requests
  MaxFaults,    \* bound on failed writes and killed runs
  Meanwhile,    \* bound on where in a run people act and time passes
  NoOne, Bot    \* no user, and WORKFLOW_LOGIN

ASSUME LifecycleAssumption ==
  /\ Eligible \subseteq Users /\ Maintainers \subseteq Eligible
  /\ {NoOne, Bot} \cap Users = {}
  /\ Pulls \subseteq Nat \ {0}
  /\ LeaseLength \in Nat \ {0}
  /\ {MaxTime, MaxCommands, MaxEdits, MaxFaults} \subseteq Nat
  /\ Meanwhile \subseteq {"idle", "task", "loaded", "writing"}

VARIABLES
  issue, \* label, assignee and open/closed state
  log,   \* comments: commands, intents and receipts
  notes, \* what the controller has posted a notice about
  pulls, \* the pull requests
  ready, \* whether the Issue's body is complete and its dependencies closed
  now,   \* GitHub's clock
  run,   \* the workflow run in progress
  spent  \* how much of each bound is used up

world == <<issue, log, notes, pulls, ready, now>>
vars == <<world, run, spent>>

-----------------------------------------------------------------------------
(* Receipts: ai-issue-policy.mjs *)

Active == {"in-progress", "review", "blocked"}
Unclaimed == {"ready", "waiting"}
Status == Active \cup Unclaimed \cup {"done", "unmanaged"}
Commands == {"claim", "heartbeat", "block", "resume", "release"}
EndActions == {"release", "expire", "merge", "close"}
UnclaimedActions == {"reopen", "initialize", "refresh"}
OwnerBound ==
  {"heartbeat", "block", "resume", "pr-open", "pr-close", "merge", "close"}
PullActions == {"pr-open", "pr-close", "merge", "close"}
Actions == Commands \cup UnclaimedActions \cup PullActions \cup {"expire"}

\* A receipt; claim, lease and pull are 0 where the code has null.
Receipt(ev, act, ok, claim, actor, from, to, lease, pull) ==
  [ev |-> ev, act |-> act, ok |-> ok, claim |-> claim, actor |-> actor,
   from |-> from, to |-> to, lease |-> lease, pull |-> pull]

\* The transition a successful receipt may record.
WellFormedMove(r) ==
  \/ r.act \in {"release", "expire"} /\ r.from \in Active /\ r.to \in Unclaimed
  \/ r.act \in {"merge", "close"} /\ r.from = "review" /\ r.to = "done"
  \/ r.act = "reopen" /\ r.from = "done" /\ r.to \in Unclaimed
  \/ r.act = "initialize" /\ r.from = "unmanaged" /\ r.to \in Unclaimed
  \/ r.act = "refresh" /\ {r.from, r.to} = Unclaimed
  \/ r.act = "pr-open" /\ r.from = "in-progress" /\ r.to = "review"
  \/ r.act = "pr-close" /\ r.from = "review" /\ r.to = "in-progress"
  \/ r.act = "heartbeat" /\ r.from = "in-progress" /\ r.to = "in-progress"
  \/ r.act = "claim" /\ r.from = "ready" /\ r.to = "in-progress"
  \/ r.act = "block" /\ r.from = "in-progress" /\ r.to = "blocked"
  \/ r.act = "resume" /\ r.from = "blocked" /\ r.to = "in-progress"

WellFormed(r) ==
  /\ r.act \in Actions
  /\ (r.pull # 0) <=> (r.act \in PullActions)
  /\ r.from # "unmanaged" \/ r.act = "initialize"
  /\ IF r.ok
       THEN /\ WellFormedMove(r)
            /\ (r.claim # 0) <=> (r.act \notin UnclaimedActions)
            /\ (r.lease # 0) <=> (r.act \in {"claim", "heartbeat", "block",
                                             "resume", "pr-close"})
       ELSE r.claim = 0 /\ r.from = r.to /\ r.lease = 0

\* Receipt r may follow in claim generation c.
Follows(r, c) ==
  /\ ~c.released /\ r.from = c.state
  /\ r.act = "block" => r.lease = c.lease
  /\ r.act \in {"heartbeat", "resume"} => c.lease = 0 \/ r.lease > c.lease
  /\ r.act \in OwnerBound => r.actor = c.owner
  /\ r.act \in PullActions =>
       r.pull = c.pull \/ (r.act = "pr-open" /\ c.pull = 0)

ParseFails == [ok |-> FALSE, seen |-> {}, claims |-> <<>>]

ParseStep(acc, e) ==
  IF ~acc.ok \/ e.kind # "receipt" \/ e.r \in acc.seen THEN acc
  ELSE LET r == e.r
           noted == [acc EXCEPT !.seen = @ \cup {r}]
           gen == [owner |-> r.actor, state |-> r.to, lease |-> r.lease,
                   pull |-> r.pull, released |-> r.act \in EndActions]
       IN  IF ~WellFormed(r) \/ \E s \in acc.seen : s.ev = r.ev
             THEN ParseFails
           ELSE IF ~r.ok \/ r.act \in UnclaimedActions THEN noted
           ELSE IF r.act = "claim" THEN
             IF r.claim \in DOMAIN acc.claims THEN ParseFails
             ELSE [noted EXCEPT !.claims = (r.claim :> gen) @@ @]
           ELSE IF r.claim \notin DOMAIN acc.claims THEN ParseFails
           ELSE LET c == acc.claims[r.claim] IN
             IF ~Follows(r, c) THEN ParseFails
             ELSE [noted EXCEPT !.claims[r.claim] =
                     [gen EXCEPT !.owner = c.owner,
                                 !.pull = IF r.pull = 0 THEN c.pull ELSE @]]

\* Whether parseReceipts accepts the comments.
Parses(l) ==
  FoldLeft(ParseStep, [ok |-> TRUE, seen |-> {}, claims |-> <<>>], l).ok

NoClaim == [id |-> 0, owner |-> NoOne, lease |-> 0, pull |-> 0,
            comment |-> 0, at |-> 0]

CurrentClaim(l) ==
  LET Step(active, i) ==
        LET r == l[i].r IN
        IF l[i].kind # "receipt" \/ ~r.ok THEN active
        ELSE IF r.act = "claim"
          THEN [id |-> r.claim, owner |-> r.actor, lease |-> r.lease,
                pull |-> 0, comment |-> i, at |-> l[i].at]
        ELSE IF active = NoClaim \/ r.claim # active.id THEN active
        ELSE IF r.act \in EndActions THEN NoClaim
        ELSE [active EXCEPT
                !.lease = IF r.act = "block" THEN @ ELSE r.lease,
                !.pull = IF r.act = "pr-open" THEN r.pull ELSE @]
  IN  FoldLeft(Step, NoClaim, [i \in DOMAIN l |-> i])

Answered(l, ev) == \E i \in DOMAIN l : l[i].kind = "receipt" /\ l[i].r.ev = ev

\* assertIssueInvariant.
InvariantOk(i) ==
  /\ i.status # "unmanaged"
  /\ (i.assignee # NoOne) <=> (i.status \in Active)
  /\ i.gh = IF i.status = "done" THEN "completed" ELSE "open"

\* evaluateReadiness, with the open pull requests that close the Issue.
Claimable(open) == ready /\ open = {}
Unassigned(open) == IF Claimable(open) THEN "ready" ELSE "waiting"

-----------------------------------------------------------------------------
(* Plans and recovery: ai-issue-controller.mjs *)

\* A plan: the receipt it will leave and what happens to the assignee.
Plan(r, assign, unassign) == [r |-> r, assign |-> assign, unassign |-> unassign]

SystemPlan(ev, claim, act, from, to, lease, pull) ==
  Plan(Receipt(ev, act, TRUE, claim.id,
               IF claim = NoClaim THEN Bot ELSE claim.owner,
               from, to, lease, pull),
       NoOne, act \in {"expire", "merge", "close", "reopen"} /\ claim # NoClaim)

FailureReceipt(ev, act, actor, status, pull) ==
  Receipt(ev, act, FALSE, 0, actor, status, status, 0, pull)

\* What a handler has left to write.
Write(what, plan) == [what |-> what, plan |-> plan]
Apply(plan) ==
  <<Write("intent", plan), Write("patch", plan), Write("receipt", plan)>>
PostReceipt(r) == <<Write("receipt", Plan(r, NoOne, FALSE))>>

Intents(l) == {i \in DOMAIN l : l[i].kind = "intent"}
Pending(l) == {i \in Intents(l) : ~Answered(l, l[i].r.ev)}

\* pendingIntentFor: the intent read as the receipt it announces.
IntentParses(l, i) ==
  /\ \A j \in Intents(l) : l[j].r.ev = l[i].r.ev => l[j].r = l[i].r
  /\ Parses([l EXCEPT ![i].kind = "receipt"])

IntentPlan(l, i) ==
  LET r == l[i].r IN
  Plan(r, IF r.act = "claim" THEN r.actor ELSE NoOne,
       r.act \in EndActions /\ CurrentClaim(l) # NoClaim)

\* A later success makes an unfinished intent obsolete.
Superseded(l) ==
  {i \in Pending(l) : \E j \in DOMAIN l :
     j > i /\ l[j].kind = "receipt" /\ l[j].r.ok}

MatchesIssue(l, i, seen) ==
  LET r == l[i].r
      claim == CurrentClaim(l)
  IN  /\ seen.status \in {r.from, r.to}
      /\ IF r.act = "claim" THEN claim.id \in {0, r.claim} ELSE claim.id = r.claim

\* recoverPendingIntent: whether it ends the handler, and what it writes.
Recovery(l, seen, ev) ==
  LET asked == {i \in Intents(l) : l[i].r.ev = ev}
      fitting == {i \in Pending(l) : MatchesIssue(l, i, seen)}
      finish(i) == <<Write("patch", IntentPlan(l, i)),
                     Write("receipt", IntentPlan(l, i))>>
  IN  IF \E i \in asked \cup Pending(l) : ~IntentParses(l, i)
        THEN [ends |-> TRUE, writes |-> <<>>]
      ELSE IF Superseded(l) # {} THEN
        LET r == l[Min(Superseded(l))].r IN
        [ends |-> TRUE, writes |-> PostReceipt(
           FailureReceipt(r.ev, r.act, r.actor, seen.status, r.pull))]
      ELSE IF asked # {} THEN
        [ends |-> TRUE,
         writes |-> IF \A i \in asked : MatchesIssue(l, i, seen)
                      THEN finish(Min(asked)) ELSE <<>>]
      ELSE [ends |-> fitting # {},
            writes |-> IF Cardinality({l[i].r.ev : i \in fitting}) = 1
                         THEN finish(Min(fitting)) ELSE <<>>]

\* A handler that has read its context: recovery goes first.
\* Faulty variant: an event only looks for an intent of its own.
FaultyRecovering(l, seen, ev, writes) ==
  IF \E i \in Pending(l) : l[i].r.ev = ev
    THEN Recovery(l, seen, ev).writes ELSE writes

Recovering(l, seen, ev, writes) ==
  LET recovery == Recovery(l, seen, ev) IN
  IF recovery.ends THEN recovery.writes ELSE writes

-----------------------------------------------------------------------------
(* Commands: planLifecycleCommand and handleIssueComment *)

Greater(a, b) == IF a > b THEN a ELSE b

\* strictlyRenewedLease.
Renewed(at, lease) == Greater(at + LeaseLength, lease + 1)

OwnerMay(c, seen, claim) ==
  /\ c.actor = claim.owner
  /\ \/ c.act \in {"heartbeat", "block"} /\ seen.status = "in-progress"
        /\ c.at < claim.lease
     \/ c.act = "resume" /\ seen.status = "blocked"

ReleaseMay(c, seen, claim, open) ==
  /\ c.act = "release"
  /\ c.actor = claim.owner \/ c.actor \in Maintainers
  /\ seen.status \in Active
  /\ open = {}

Permitted(c, seen, claim, open) ==
  /\ InvariantOk(seen)
  /\ \/ /\ c.act = "claim" /\ c.actor \in Eligible
        /\ seen.status = "ready" /\ Claimable(open)
     \/ /\ claim # NoClaim /\ claim.owner = seen.assignee /\ c.claim = claim.id
        /\ OwnerMay(c, seen, claim) \/ ReleaseMay(c, seen, claim, open)

\* The claim id is a random UUID: here the number of the next comment, which
\* no earlier plan that left a trace can have used.
CommandPlan(ev, c, seen, claim, open) ==
  LET to == CASE c.act = "block" -> "blocked"
              [] c.act = "release" -> Unassigned(open)
              [] OTHER -> "in-progress"
      lease == CASE c.act = "claim" -> c.at + LeaseLength
                 [] c.act = "block" -> claim.lease
                 [] c.act = "release" -> 0
                 [] OTHER -> Renewed(c.at, claim.lease)
      id == IF c.act = "claim" THEN Len(log) + 1 ELSE claim.id
  IN  Plan(Receipt(ev, c.act, TRUE, id, c.actor, seen.status, to, lease, 0),
           IF c.act = "claim" THEN c.actor ELSE NoOne, c.act = "release")

\* Faulty variant: only a command on a labelled Issue is answered.
FaultyReject(ev, c, seen) ==
  IF seen.status \in Active
    THEN PostReceipt(FailureReceipt(ev, c.act, c.actor, seen.status, 0))
    ELSE <<>>

\* rejectCommand: a failure receipt, or a notice if the label is unreadable.
Reject(ev, c, seen) ==
  IF seen.status = "unmanaged" THEN <<Write("notice", [ev |-> ev])>>
  ELSE PostReceipt(FailureReceipt(ev, c.act, c.actor, seen.status, 0))

OpenPulls == {p \in Pulls : pulls[p].state = "open"}

CommandWrites(id, seen) ==
  LET c == log[id]
      ev == <<"comment", id>>
      claim == CurrentClaim(log)
      fenced == c.act # "claim" /\ c.claim # claim.id
  IN  IF c.act = "unknown" THEN <<Write("notice", [ev |-> ev])>>
      ELSE IF ~Parses(log) \/ Answered(log, ev) THEN <<>>
      ELSE IF fenced THEN Reject(ev, c, seen)
      ELSE Recovering(log, seen, ev,
             IF Permitted(c, seen, claim, OpenPulls)
               THEN Apply(CommandPlan(ev, c, seen, claim, OpenPulls))
               ELSE Reject(ev, c, seen))

-----------------------------------------------------------------------------
(* Pull requests: handlePullRequest *)

\* requireReviewAdmissionChronology; a null lease is NaN and throws.
Admissible(claim, pull, act) ==
  LET qualifying == IF act = "opened" THEN pull.created ELSE pull.updated IN
  /\ claim.lease # 0
  /\ pull.created >= claim.at /\ qualifying >= claim.at
  /\ pull.created < claim.lease /\ qualifying < claim.lease

\* Faulty variant: an Issue closed in the second of the merge is refused.
FaultyChronology(claim, pull, seen) ==
  claim.at <= pull.merged /\ pull.merged < seen.closed

\* requireChronology.
Chronology(claim, pull, seen) ==
  claim.at <= pull.merged /\ pull.merged <= seen.closed

PullBound(p, pull, seen, claim) ==
  /\ InvariantOk(IF pull.state = "merged" THEN [seen EXCEPT !.gh = "open"]
                                          ELSE seen)
  /\ claim # NoClaim
  /\ pull.author = seen.assignee /\ claim.owner = seen.assignee
  /\ pull.receipt = claim.comment
  /\ claim.pull \in {0, p}

\* Faulty variant: the order of claim, merge and closing is not verified.
FaultyMergeMay(claim, pull, seen) ==
  seen.status \in {"in-progress", "review"} /\ seen.gh = "completed"

\* The final merge of a pull request.
MergeMay(claim, pull, seen) ==
  /\ seen.status \in {"in-progress", "review"} /\ seen.gh = "completed"
  /\ Chronology(claim, pull, seen)

\* The merge of a pull request nobody saw open: its admission is made up
\* for by a receipt of its own, without touching the label.
MergeWrites(ev, p, pull, seen, claim) ==
  LET catchup == SystemPlan(ev, claim, "pr-open", "in-progress", "review", 0, p)
      merge(id) == SystemPlan(id, claim, "merge", "review", "done", 0, p)
  IN  IF seen.status = "review" THEN Apply(merge(ev))
      ELSE <<Write("intent", catchup), Write("receipt", catchup)>>
             \o Apply(merge(<<"merge", p>>))

PullPlan(t, pull, seen, claim) ==
  LET p == t.pull IN
  CASE ~PullBound(p, pull, seen, claim) -> <<>>
    [] seen.status = "in-progress" /\ pull.state \in {"open", "merged"}
       /\ ~Admissible(claim, pull, t.act) -> <<>>
    [] pull.state = "open" /\ seen.status = "in-progress" ->
         Apply(SystemPlan(t.ev, claim, "pr-open", "in-progress", "review", 0, p))
    [] pull.state = "merged" /\ MergeMay(claim, pull, seen) ->
         MergeWrites(t.ev, p, pull, seen, claim)
    [] pull.state = "closed" /\ seen.status = "review" ->
         Apply(SystemPlan(t.ev, claim, "pr-close", "review", "in-progress",
                          run.at + LeaseLength, p))
    [] OTHER -> <<>>

\* An answered event is not repeated, unless what answered it was the
\* admission made up for when merging.
PullAnswered(ev, pull) ==
  \E i \in DOMAIN log :
    /\ log[i].kind = "receipt" /\ log[i].r.ev = ev
    /\ ~(pull.state = "merged" /\ log[i].r.act = "pr-open")

PullWrites(t, pull, seen, open) ==
  LET claim == CurrentClaim(log) IN
  IF \/ ~Parses(log)
     \/ pull.state = "open" /\ open # {t.pull}
     \/ pull.state = "closed" /\ claim.pull # t.pull
     \/ pull.state # "open" /\ open # {}
     \/ PullAnswered(t.ev, pull)
  THEN <<>>
  ELSE Recovering(log, seen, t.ev, PullPlan(t, pull, seen, claim))

-----------------------------------------------------------------------------
(* The Issue and expired claims: handleIssueChange, reconcileExpiredClaims *)

\* mergedPullRequestForIssue: the merged pull requests of the claim.
MergedFor(claim, seen) ==
  {p \in Pulls : /\ pulls[p].state = "merged" /\ p = claim.pull
                 /\ pulls[p].receipt = claim.comment
                 /\ pulls[p].author = claim.owner
                 /\ Chronology(claim, pulls[p], seen)}

Admitted(claim, p) ==
  \E i \in DOMAIN log :
    /\ log[i].kind = "receipt" /\ log[i].r.ok /\ log[i].r.act = "pr-open"
    /\ log[i].r.claim = claim.id /\ log[i].r.pull = p

\* What makes handleIssueChange ask a maintainer for repair.
NeedsRepair(seen, claim, open) ==
  \/ ~InvariantOk(seen)
  \/ /\ seen.status \in Active
     /\ \/ claim = NoClaim \/ claim.owner # seen.assignee
        \/ /\ seen.status = "review"
           /\ ~(\E p \in Pulls : /\ open = {p} /\ claim.lease = 0
                                 /\ Admitted(claim, p))

ClosedPlan(ev, seen, claim, open) ==
  LET merged == MergedFor(claim, seen) IN
  IF /\ seen.status = "review" /\ claim # NoClaim
     /\ seen.assignee = claim.owner /\ open = {} /\ Cardinality(merged) = 1
  THEN Apply(SystemPlan(ev, claim, "close", "review", "done", 0, Min(merged)))
  ELSE <<>>

IssuePlan(ev, seen, claim, open) ==
  LET system(act) == Apply(SystemPlan(ev, NoClaim, act, seen.status,
                                      Unassigned(open), 0, 0))
  IN  IF seen.gh = "open" /\ seen.status = "unmanaged" /\ seen.assignee = NoOne
        THEN system("initialize")
      ELSE IF seen.status = "unmanaged" THEN <<>>
      ELSE IF seen.gh = "completed" THEN ClosedPlan(ev, seen, claim, open)
      ELSE IF seen.gh = "open" /\ seen.status = "done" THEN system("reopen")
      ELSE IF /\ seen.gh = "open" /\ seen.status \in Unclaimed
              /\ seen.assignee = NoOne THEN
        IF Unassigned(open) = seen.status THEN <<>> ELSE system("refresh")
      ELSE IF NeedsRepair(seen, claim, open)
        THEN <<Write("notice", [ev |-> <<"repair">>])>>
      ELSE <<>>

IssueWrites(ev, seen, open) ==
  IF ~Parses(log) \/ Answered(log, ev) THEN <<>>
  ELSE Recovering(log, seen, ev,
                  IssuePlan(ev, seen, CurrentClaim(log), open))

\* Faulty variant: a lease that ends now has not ended.
FaultyExpired(seen, claim, open) ==
  /\ InvariantOk(seen) /\ seen.status = "in-progress"
  /\ claim # NoClaim /\ claim.owner = seen.assignee
  /\ claim.lease # 0 /\ claim.lease < run.at
  /\ open = {}

Expired(seen, claim, open) ==
  /\ InvariantOk(seen) /\ seen.status = "in-progress"
  /\ claim # NoClaim /\ claim.owner = seen.assignee
  /\ claim.lease # 0 /\ claim.lease <= run.at
  /\ open = {}

ExpireWrites(seen, open) ==
  LET claim == CurrentClaim(log)
      ev == <<"run", Len(log)>>
  IN  IF ~Parses(log) THEN <<>>
      ELSE Recovering(log, seen, ev,
             IF Expired(seen, claim, open)
               THEN Apply(SystemPlan(ev, claim, "expire", "in-progress",
                                     Unassigned(open), 0, 0))
               ELSE <<>>)

-----------------------------------------------------------------------------
(* The workflow run: main and runReconciliationPhases *)

NoIssue == [status |-> "unmanaged", assignee |-> NoOne, gh |-> "open",
            closed |-> 0]
NoPull == [state |-> "none", author |-> NoOne, receipt |-> 0, created |-> 0,
           updated |-> 0, merged |-> 0]

Idle == [pc |-> "idle", todo |-> <<>>, at |-> 0, seen |-> NoIssue,
         open |-> {}, writes |-> <<>>, failed |-> FALSE]

\* Commands without a receipt or a rejection notice, oldest first.
Unanswered ==
  {i \in DOMAIN log : /\ log[i].kind = "command"
                      /\ ~Answered(log, <<"comment", i>>)
                      /\ <<"comment", i>> \notin notes}

CommandTask(id) == [kind |-> "command", id |-> id]
IssueTask(ev, listed) == [kind |-> "issue", ev |-> ev, listed |-> listed]
PullTask(p, act, listed) ==
  [kind |-> "pull", pull |-> p, act |-> act, snap |-> pulls[p],
   ev |-> <<"pull", p, act, pulls[p].state, pulls[p].updated>>,
   listed |-> listed]

Drain == LET ids == SetToSortSeq(Unanswered, <) IN
  [k \in DOMAIN ids |-> CommandTask(ids[k])]

StartRun(phase) ==
  /\ run.pc = "idle"
  /\ run' = [Idle EXCEPT !.pc = "task", !.todo = Drain \o phase, !.at = now]
  /\ UNCHANGED <<world, spent>>

\* An event of the Issue, or one that is delivered again.
OnIssue ==
  \E ev \in {<<"issue", Len(log)>>} \cup
            {log[i].r.ev : i \in {j \in DOMAIN log :
               log[j].kind = "receipt" /\ log[j].r.ev[1] = "issue"}} :
    StartRun(<<IssueTask(ev, FALSE)>>)

OnPull ==
  \E p \in Pulls, act \in {"opened", "edited"} :
    /\ pulls[p].state # "none"
    /\ act = "opened" =>
         pulls[p].state = "open" /\ pulls[p].updated = pulls[p].created
    /\ StartRun(<<PullTask(p, act, FALSE)>>)

OnSchedule == StartRun(<<[kind |-> "list"], [kind |-> "expire"]>>)

Task == Head(run.todo)

\* The task is over; a failed one does not stop the run.
NextTask(failed) ==
  IF Len(run.todo) = 1 THEN Idle
  ELSE [Idle EXCEPT !.pc = "task", !.todo = Tail(run.todo), !.at = run.at,
                    !.open = run.open, !.failed = run.failed \/ failed]

\* reconcileRepositoryState lists everything before it reconciles anything.
ListRepository ==
  LET older(p, q) ==
        \/ pulls[p].updated < pulls[q].updated
        \/ pulls[p].updated = pulls[q].updated /\ p < q
      listed == SetToSortSeq({p \in Pulls : pulls[p].state # "none"}, older)
      tasks == <<IssueTask(<<"issue", Len(log)>>, TRUE)>>
                 \o [k \in DOMAIN listed |-> PullTask(listed[k], "reconciled", TRUE)]
  IN  /\ run.pc = "task" /\ Task.kind = "list"
      /\ run' = [run EXCEPT !.todo = tasks \o Tail(@), !.open = OpenPulls]
      /\ UNCHANGED <<world, spent>>

\* A task reads its pull request, which must be the one of the event
\* (verifyPullRequestIdentity), and the Issue.  The expiry of claims lists
\* the open pull requests and the Issues in progress instead.
ReadTask ==
  LET t == Task
      skipped == \/ t.kind = "pull" /\ pulls[t.pull] # t.snap
                 \/ t.kind = "expire" /\ ~(/\ issue.gh = "open"
                                           /\ issue.status = "in-progress")
  IN  /\ run.pc = "task" /\ t.kind # "list"
      /\ run' = IF skipped THEN NextTask(t.kind = "pull")
                ELSE [run EXCEPT !.pc = "loaded", !.seen = issue,
                        !.open = IF t.kind = "expire" THEN OpenPulls ELSE @]
      /\ UNCHANGED <<world, spent>>

\* loadIssueContext and the handler's decision.
Decide ==
  LET t == Task
      open == IF t.kind = "expire" \/ (t.kind # "command" /\ t.listed)
                THEN run.open ELSE OpenPulls
      writes == CASE t.kind = "command" -> CommandWrites(t.id, run.seen)
                  [] t.kind = "issue" -> IssueWrites(t.ev, run.seen, open)
                  [] t.kind = "pull" -> PullWrites(t, t.snap, run.seen, open)
                  [] t.kind = "expire" -> ExpireWrites(run.seen, open)
  IN  /\ run.pc = "loaded"
      /\ run' = IF writes = <<>> THEN NextTask(FALSE)
                ELSE [run EXCEPT !.pc = "writing", !.writes = writes]
      /\ UNCHANGED <<world, spent>>

-----------------------------------------------------------------------------
(* Checks that write nothing *)

\* verifyCompletedIssueEvidence: what an hourly run demands of a done Issue.
CompletedEvidence(seen, open) ==
  LET good == {i \in DOMAIN log : log[i].kind = "receipt" /\ log[i].r.ok}
      last == log[Max(good)].r
  IN  /\ good # {} /\ last.act \in {"merge", "close"} /\ last.to = "done"
      /\ CurrentClaim(log) = NoClaim /\ open = {}
      /\ \E i \in good :
           /\ log[i].r.act = "claim" /\ log[i].r.claim = last.claim
           /\ last.pull \in MergedFor([NoClaim EXCEPT !.id = last.claim,
                 !.owner = log[i].r.actor, !.comment = i, !.at = log[i].at,
                 !.pull = last.pull], seen)

\* strictLifecycleEvidence: the required check of a pull request that is open,
\* here for a pull request and an Issue as they were at some moment.
GatePasses(p, pull, seen, open) ==
  LET claim == CurrentClaim(log) IN
  /\ pull.state = "open" /\ InvariantOk(seen) /\ seen.status = "review"
  /\ pull.author = seen.assignee /\ Parses(log)
  /\ claim # NoClaim /\ pull.receipt = claim.comment
  /\ claim.owner = pull.author
  /\ Admitted(claim, p) /\ claim.lease = 0 /\ claim.pull = p
  /\ Claimable({}) /\ open = {p}

-----------------------------------------------------------------------------
(* GitHub writes: mutateAndVerify *)

\* Only of claim receipts is the time read back.
Comment(kind, r) ==
  [kind |-> kind, r |-> r,
   at |-> IF kind = "receipt" /\ r.act = "claim" THEN now ELSE 0]

Pending1 == Head(run.writes)

\* ensureIntent posts an intent once.
HasIntent(r) == \E i \in Intents(log) : log[i].r = r

\* postReceipt: a receipt of this event, if it has one.
Prior(r) == {i \in DOMAIN log : log[i].kind = "receipt" /\ log[i].r.ev = r.ev}

\* A receipt the log does not allow is refused.
Refused(w) ==
  /\ w.what = "receipt"
  /\ IF Prior(w.plan.r) # {}
       THEN \E i \in Prior(w.plan.r) :
              \/ log[i].r.act # w.plan.r.act \/ log[i].r.ok # w.plan.r.ok
              \/ log[i].r.claim # w.plan.r.claim
       ELSE ~Parses(Append(log, Comment("receipt", w.plan.r)))

\* mutateIssueToPlan, from the Issue as the handler read it.
Patched(plan) ==
  [issue EXCEPT !.status = plan.r.to,
                !.assignee = IF plan.assign # NoOne THEN plan.assign
                             ELSE IF plan.unassign THEN NoOne
                             ELSE run.seen.assignee]

Unchanged(plan) ==
  /\ run.seen.status = plan.r.to
  /\ run.seen.assignee = Patched(plan).assignee

WriteNow(w) ==
  /\ issue' = IF w.what = "patch" /\ ~Unchanged(w.plan) THEN Patched(w.plan)
                                                        ELSE issue
  /\ log' = IF \/ w.what = "intent" /\ ~HasIntent(w.plan.r)
               \/ w.what = "receipt" /\ Prior(w.plan.r) = {}
              THEN Append(log, Comment(w.what, w.plan.r)) ELSE log
  /\ notes' = IF w.what = "notice" THEN notes \cup {w.plan.ev} ELSE notes
  /\ UNCHANGED <<pulls, ready, now>>

WriteSucceeds ==
  /\ run.pc = "writing" /\ ~Refused(Pending1)
  /\ WriteNow(Pending1)
  /\ run' = IF Len(run.writes) = 1 THEN NextTask(FALSE)
            ELSE [run EXCEPT !.writes = Tail(@)]
  /\ UNCHANGED spent

WriteRefused ==
  /\ run.pc = "writing" /\ Refused(Pending1)
  /\ run' = NextTask(TRUE)
  /\ UNCHANGED <<world, spent>>

Spend(what) == spent' = [spent EXCEPT ![what] = @ + 1]

\* A write that fails, before or after GitHub performed it.
WriteFails ==
  /\ run.pc = "writing" /\ ~Refused(Pending1) /\ spent.faults < MaxFaults
  /\ WriteNow(Pending1) \/ UNCHANGED world
  /\ run' = NextTask(TRUE)
  /\ Spend("faults")

\* The workflow run is killed.
RunDies ==
  /\ run.pc \in {"task", "writing"} /\ spent.faults < MaxFaults
  /\ run' = Idle
  /\ Spend("faults") /\ UNCHANGED world

-----------------------------------------------------------------------------
(* People *)

\* The claim ids that can be read in the comments.
Generations ==
  {log[i].r.claim : i \in {j \in DOMAIN log : log[j].kind # "command"}} \ {0}

Post(u, verb, claim) ==
  /\ spent.commands < MaxCommands
  /\ log' = Append(log, [kind |-> "command", act |-> verb, claim |-> claim,
                         actor |-> u, at |-> now])
  /\ Spend("commands")
  /\ UNCHANGED <<issue, notes, pulls, ready, now, run>>

PostCommand ==
  \E u \in Users, verb \in Verbs :
    IF verb \in {"claim", "unknown"} THEN Post(u, verb, 0)
    ELSE \E claim \in Generations : Post(u, verb, claim)

Edit(p, pull) ==
  /\ spent.edits < MaxEdits
  /\ pull # pulls[p]
  /\ pulls' = [pulls EXCEPT ![p] = pull]
  /\ Spend("edits")
  /\ UNCHANGED <<log, notes, ready, now, run>>

ClaimReceipts ==
  {i \in DOMAIN log : /\ log[i].kind = "receipt" /\ log[i].r.ok
                      /\ log[i].r.act = "claim"}

OpenPull ==
  \E p \in Pulls, i \in ClaimReceipts :
    /\ pulls[p].state = "none"
    /\ Edit(p, [NoPull EXCEPT !.state = "open", !.author = log[i].r.actor,
                  !.receipt = i, !.created = now, !.updated = now])
    /\ UNCHANGED issue

ChangePull ==
  \E p \in Pulls :
    /\ \/ pulls[p].state = "open"
          /\ \E state \in {"open", "closed"} :
               Edit(p, [pulls[p] EXCEPT !.state = state, !.updated = now])
       \/ pulls[p].state = "closed"
          /\ Edit(p, [pulls[p] EXCEPT !.state = "open", !.updated = now])
    /\ UNCHANGED issue

\* Merging closes the Issue as completed.
MergePull ==
  \E p \in Pulls :
    /\ pulls[p].state = "open"
    /\ Edit(p, [pulls[p] EXCEPT !.state = "merged", !.updated = now,
                                !.merged = now])
    /\ issue' = IF issue.gh = "open"
                  THEN [issue EXCEPT !.gh = "completed", !.closed = now]
                  ELSE issue

ToggleIssue ==
  /\ spent.edits < MaxEdits
  /\ \/ /\ issue.gh = "open"
        /\ \E how \in {"completed", "not planned"} :
             issue' = [issue EXCEPT !.gh = how, !.closed = now]
     \/ issue.gh # "open" /\ issue' = [issue EXCEPT !.gh = "open", !.closed = 0]
  /\ Spend("edits")
  /\ UNCHANGED <<log, notes, pulls, ready, now, run>>

ChangeReadiness ==
  /\ spent.edits < MaxEdits
  /\ ready' = ~ready
  /\ Spend("edits")
  /\ UNCHANGED <<issue, log, notes, pulls, now, run>>

Tick ==
  /\ now < MaxTime
  /\ now' = now + 1
  /\ UNCHANGED <<issue, log, notes, pulls, ready, run, spent>>

Init ==
  /\ issue = NoIssue /\ log = <<>> /\ notes = {}
  /\ pulls = [p \in Pulls |-> NoPull]
  /\ ready = TRUE /\ now = 1
  /\ run = Idle
  /\ spent = [commands |-> 0, edits |-> 0, faults |-> 0]

People ==
  \/ PostCommand \/ OpenPull \/ ChangePull \/ MergePull
  \/ ToggleIssue \/ ChangeReadiness

Controller ==
  \/ ListRepository \/ ReadTask \/ Decide
  \/ WriteSucceeds \/ WriteRefused

Next ==
  \/ OnIssue \/ OnPull \/ OnSchedule
  \/ Controller \/ WriteFails \/ RunDies
  \/ run.pc \in Meanwhile /\ (People \/ Tick)

Spec == Init /\ [][Next]_vars

\* Every run ends, and the hourly run is not starved for ever.
Fairness ==
  /\ []<>(run.pc = "idle") /\ SF_vars(OnSchedule)
  /\ SF_vars(run.pc \in Meanwhile /\ Tick)

-----------------------------------------------------------------------------
(* Properties *)

Successes(l) == {i \in DOMAIN l : l[i].kind = "receipt" /\ l[i].r.ok}

\* The state the receipts say the Issue is in.
Recorded(l) ==
  IF Successes(l) = {} THEN "unmanaged" ELSE l[Max(Successes(l))].r.to

\* A merge was being made up for when its run ended: the admission has its
\* receipt but not yet its label.
MergeInterrupted ==
  /\ issue.status = "in-progress" /\ Recorded(log) = "review"
  /\ CurrentClaim(log).pull # 0

\* At most one intent is unfinished, so that recovery is never ambiguous and
\* never finds an intent that a later receipt has made obsolete.
OneUnfinishedIntent ==
  /\ Cardinality({log[i].r.ev : i \in Pending(log)}) <= 1
  /\ Superseded(log) = {}

\* A finished Issue keeps passing the check the hourly run makes of it.
DoneVerifies ==
  /\ issue.status = "done" /\ issue.assignee = NoOne /\ Pending(log) = {}
  /\ issue.gh = "completed" /\ OpenPulls = {}
  => CompletedEvidence(issue, OpenPulls)

\* The Issue was reopened although the pull request its claim was admitted with
\* has been merged.
ReopenedAfterMerge ==
  issue.gh = "open" /\ \E p \in Pulls : pulls[p].state = "merged" /\ CurrentClaim(log).pull = p

\* Every command is answered by a receipt or a notice, whatever events were lost
\* and wherever a run died (reconcileLifecycleCommands).  An Issue that was
\* reopened after an interrupted merge may refuse the receipt of its release.
CommandsAnswered == <>[](Unanswered = {} \/ ReopenedAfterMerge)

\* The label says what people did to the Issue and its pull requests, or a
\* maintainer has been asked to repair it.
Settled ==
  /\ Pending(log) = {}
  /\ issue.gh = "open" =>
       /\ issue.status # "done"
       /\ issue.status \in Unclaimed => issue.status = Unassigned(OpenPulls)
       /\ issue.status = "review" => OpenPulls # {} \/ <<"repair">> \in notes
       /\ issue.status = "in-progress" /\ OpenPulls = {}
            => CurrentClaim(log).lease > now

\* Whatever events were lost and wherever a run died, the hourly runs catch up
\* with what people did, except for an interrupted merge.
Converges == <>[](Settled \/ MergeInterrupted)

\* A merge that closed the Issue and that the required check allowed is recorded:
\* the Issue becomes done, wherever a run died, unless somebody reopens it.
GatedMergeLands ==
  \A p \in Pulls :
    /\ pulls[p].state = "merged" /\ issue.gh = "completed"
    /\ pulls[p].merged <= issue.closed
    /\ GatePasses(p, [pulls[p] EXCEPT !.state = "open"],
                  [issue EXCEPT !.gh = "open"], OpenPulls \cup {p})
    ~> (issue.status = "done" \/ issue.gh # "completed")
=============================================================================
