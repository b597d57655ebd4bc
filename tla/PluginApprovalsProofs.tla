------------------------ MODULE PluginApprovalsProofs ------------------------
(***************************************************************************)
(* Proofs about PluginApprovals, for any executions, agents, actions,      *)
(* deadlines and clock drifts.  CallOK says what holds of one execution and *)
(* its registry entry at each point of the answerer; with the types and the*)
(* exclusion among the admitted requests it is inductive.  Carried says    *)
(* what a step may do to the executions it is not about.                   *)
(***************************************************************************)
EXTENDS PluginApprovals, TLAPS

-----------------------------------------------------------------------------
(* Types *)

Points == {"idle", "asking", "elsewhere", "refreshing", "waiting", "settled",
           "returned", "answered", "allowed", "denied", "ran", "blocked"}

Actions == Prints \cup {NoPrint, None}

Signals == (Execs \X {"pre", "guard"}) \cup {None}

Entries == [print : Prints, sig : Signals]

Snapshots == [at : Int, skew : Int, until : Int]

Reservations == [epoch : Nat, seen : Int, at : Int, skew : Int, wire : Int,
                 until : Int, released : BOOLEAN]

ExecRows ==
    [pc : Points, agent : Agents \cup {None}, aborted : BOOLEAN,
     proof : Actions, granted : BOOLEAN, runs : Nat, ran : Actions,
     print : Actions, sig : Signals, res : Reservations \cup {None},
     published : {"no", "pending", "sent", "failed"}, out : Outcomes, due : Int,
     approved : Actions, grantedAt : Int]

TypeOK ==
    /\ mono \in Nat /\ skew \in Int /\ epoch \in Nat /\ revokes \in BOOLEAN
    /\ owners \subseteq Agents
    /\ actions \in [Execs -> Entries \cup {None}]
    /\ snaps \in [Agents -> Snapshots \cup {None}]
    /\ world \in [Execs -> Prints \cup {NoPrint}]
    /\ exec \in [Execs -> ExecRows]

-----------------------------------------------------------------------------
(* The inductive invariant *)

\* Where a call that needs approval is on its way to an answer.
Deciding == {"asking", "elsewhere", "refreshing", "waiting", "settled",
             "returned", "answered"}

\* Where the answerer holds the action it read from the registry.
Brokered == {"refreshing", "waiting", "settled", "returned"}

\* The action needs no approval, or it is the approved one.
Permitted(print, approved) ==
    /\ print \in Prints
    /\ \/ ClassOf[print] = "automatic"
       \/ ClassOf[print] = "approval_required" /\ approved = print

\* One execution e and the entry of its call: the action that is classified,
\* the one the broker asks about, the one an approval names and the one the
\* proof is for are the same, and an execution that ran has no proof left.
CallOK(e, entry) ==
    /\ e.pc = "idle" => entry = None
    /\ e.pc \in Deciding =>
         /\ e.agent \in Agents
         /\ e.proof \in Prints /\ ClassOf[e.proof] = "approval_required"
         /\ entry # None => entry.print = e.proof
    /\ e.pc \in Brokered => e.print = e.proof
    /\ e.pc \in {"settled", "returned", "answered"} /\ e.out = "allowed-once"
         => e.approved = e.proof
    /\ e.pc = "allowed" => Permitted(e.proof, e.approved)
    /\ e.runs = IF e.pc = "ran" THEN 1 ELSE 0
    /\ e.pc = "ran" => e.proof = None /\ Permitted(e.ran, e.approved)
    /\ e.pc \in {"waiting", "settled", "returned"} => e.res \in Reservations
    /\ e.grantedAt > 0 => e.pc = "returned" /\ e.grantedAt < e.res.until

\* An attempt has one admission of the broker at most.
OneAdmission ==
    \A c, d \in Admitted : c # d => exec[c].agent # exec[d].agent

Inv ==
    /\ TypeOK
    /\ \A c \in Execs : CallOK(exec[c], actions[c])
    /\ OneAdmission

-----------------------------------------------------------------------------
(* Deadlines *)

\* The earlier and the later of two times are times.
LEMMA EarlierLater ==
  ASSUME NEW x \in Int, NEW y \in Int
  PROVE  Min({x, y}) \in Int /\ Max({x, y}) \in Int
  <1>1. \E m \in {x, y} : \A z \in {x, y} : m <= z
    OBVIOUS
  <1>2. \E m \in {x, y} : \A z \in {x, y} : m >= z
    OBVIOUS
  <1> QED
    BY <1>1, <1>2, Zenon DEF Min, Max

\* The deadlines of a request are times (ApprovalReservationProvider).
LEMMA DeadlineType ==
  ASSUME TypeOK
  PROVE  wall \in Int /\ WireDeadline \in Int /\ MonotonicDeadline \in Int
  <1>1. wall \in Int /\ JobExpiry \in Int /\ Timeout \in Int
    BY TimesKnown DEF TypeOK, wall
  <1>2. WireDeadline \in Int
    BY <1>1, EarlierLater DEF WireDeadline
  <1>3. Max({0, JobExpiry - wall}) \in Int
    <2>1. 0 \in Int /\ JobExpiry - wall \in Int
      BY <1>1
    <2> QED
      BY <2>1, EarlierLater, Zenon
  <1>4. Min({Timeout, Max({0, JobExpiry - wall})}) \in Int
    BY <1>1, <1>3, EarlierLater, Zenon
  <1> QED
    BY <1>1, <1>2, <1>4 DEF MonotonicDeadline, TypeOK

\* reserve returns a reservation.
LEMMA ReservedType ==
  ASSUME TypeOK, NEW a \in Agents, Reservable(a)
  PROVE  Reserved(a) \in Reservations
  <1>1. snaps[a] \in Snapshots
    BY Zenon DEF TypeOK, Reservable, HasRevision
  <1> QED
    BY <1>1, DeadlineType DEF Reserved, Reservations, Snapshots, TypeOK

-----------------------------------------------------------------------------
(* What a step does to the executions *)

\* The variables a step leaves typed whatever it does to the executions.
RestTyped ==
    /\ mono \in Nat /\ skew \in Int /\ epoch \in Nat /\ revokes \in BOOLEAN
    /\ owners \subseteq Agents
    /\ actions \in [Execs -> Entries \cup {None}]
    /\ snaps \in [Agents -> Snapshots \cup {None}]
    /\ world \in [Execs -> Prints \cup {NoPrint}]

\* A step about execution c writes its row and the entry of its call.
LEMMA OwnStep ==
  ASSUME Inv, RestTyped', NEW c \in Execs, NEW row \in ExecRows,
         exec' = [exec EXCEPT ![c] = row],
         \A d \in Execs \ {c} : actions'[d] = actions[d],
         CallOK(row, actions'[c]),
         row.pc \in {"waiting", "settled"} =>
           /\ row.agent = exec[c].agent
           /\ c \in Admitted \/ \A d \in Admitted : exec[d].agent # exec[c].agent
  PROVE  Inv'
  <1>1. exec' \in [Execs -> ExecRows]
    BY Zenon DEF Inv, TypeOK
  <1>2. exec'[c] = row /\ \A d \in Execs \ {c} : exec'[d] = exec[d]
    BY Zenon DEF Inv, TypeOK
  <1>3. TypeOK'
    BY <1>1, Zenon DEF TypeOK, RestTyped
  <1>4. \A d \in Execs : CallOK(exec'[d], actions'[d])
    BY <1>2, Zenon DEF Inv
  <1>5. OneAdmission'
    BY <1>2 DEF OneAdmission, Admitted, Inv
  <1> QED
    BY <1>3, <1>4, <1>5, Zenon DEF Inv

\* A step about something else settles waiters, without granting, and may
\* withdraw entries.
Carried(d) ==
    /\ \/ exec'[d] = exec[d]
       \/ /\ exec[d].pc = "waiting"
          /\ \E o \in Outcomes \ {"allowed-once"} :
               exec'[d] = [exec[d] EXCEPT !.pc = "settled", !.out = o]
    /\ actions'[d] \in {actions[d], None}

LEMMA SettledCarried ==
  ASSUME TypeOK, NEW who, NEW o \in Outcomes \ {"allowed-once"},
         exec' = Settled(exec, who, o),
         \A d \in Execs : actions'[d] \in {actions[d], None}
  PROVE  /\ exec' = [d \in Execs |-> exec'[d]]
         /\ \A d \in Execs : Carried(d)
  BY Zenon DEF Settled, Carried, TypeOK

\* Such a step keeps the invariant.
LEMMA CarriedStep ==
  ASSUME Inv, RestTyped', exec' = [d \in Execs |-> exec'[d]],
         \A d \in Execs : Carried(d)
  PROVE  Inv'
  <1>1. ASSUME NEW d \in Execs
        PROVE  /\ exec'[d] \in ExecRows /\ exec'[d].agent = exec[d].agent
               /\ exec'[d].pc \in {"waiting", "settled"} =>
                    exec[d].pc \in {"waiting", "settled"}
               /\ CallOK(exec'[d], actions'[d])
    <2>1. exec[d] \in ExecRows /\ CallOK(exec[d], actions[d]) /\ Carried(d)
      BY Zenon DEF Inv, TypeOK
    <2>2. CASE exec'[d] = exec[d]
      <3>1. CallOK(exec[d], None)
        BY <2>1, Zenon DEF CallOK
      <3> QED
        BY <2>1, <2>2, <3>1, Zenon DEF Carried
    <2>3. CASE exec[d].pc = "waiting" /\ exec'[d] # exec[d]
      <3>1. PICK o \in Outcomes \ {"allowed-once"} :
              exec'[d] = [exec[d] EXCEPT !.pc = "settled", !.out = o]
        BY <2>1, <2>3, Zenon DEF Carried
      <3> DEFINE e == exec[d]
                 new == exec'[d]
      <3>2. new \in ExecRows /\ new.pc = "settled" /\ new.out = o
        BY <2>1, <3>1, ZenonT(30) DEF ExecRows, Points
      <3>3. /\ new.agent = e.agent /\ new.proof = e.proof /\ new.print = e.print
            /\ new.approved = e.approved /\ new.runs = e.runs /\ new.ran = e.ran
            /\ new.res = e.res /\ new.grantedAt = e.grantedAt
        BY <2>1, <3>1, Zenon DEF ExecRows
      <3>4. actions'[d] \in {actions[d], None}
        BY <2>1, Zenon DEF Carried
      <3>5. CallOK(new, actions'[d])
        BY <2>1, <2>3, <3>2, <3>3, <3>4, Zenon DEF CallOK, Deciding, Brokered
      <3> QED
        BY <2>3, <3>2, <3>3, <3>5, Zenon
    <2> QED
      BY <2>1, <2>2, <2>3, Zenon DEF Carried
  <1>2. TypeOK'
    BY <1>1, Zenon DEF TypeOK, RestTyped
  <1>3. OneAdmission'
    BY <1>1, Zenon DEF OneAdmission, Admitted, Inv
  <1> QED
    BY <1>1, <1>2, <1>3, Zenon DEF Inv

-----------------------------------------------------------------------------
(* The policy guard *)

\* A classification registers the call's action for its agent, or leaves the
\* entry as it was (register, replaceEntry).
LEMMA RegisteredEntry ==
  ASSUME TypeOK, NEW c \in Execs, NEW a \in Agents, NEW step \in {"pre", "guard"},
         actions' = Registered(c, a, step)
  PROVE  /\ actions' \in [Execs -> Entries \cup {None}]
         /\ \A d \in Execs \ {c} : actions'[d] = actions[d]
         /\ \/ actions'[c] = actions[c]
            \/ actions'[c] \in Entries /\ actions'[c].print = world[c]
  <1>1. CASE Registers(c, a)
    <2> DEFINE entry == [print |-> world[c], sig |-> <<c, step>>]
    <2>1. world[c] \in Prints
      BY <1>1, Zenon DEF Registers, TypeOK
    <2>2. entry \in Entries /\ entry.print = world[c]
      BY <2>1, Zenon DEF Entries, Signals
    <2>3. actions' = [actions EXCEPT ![c] = entry]
      BY <1>1, Zenon DEF Registered
    <2> QED
      BY <2>2, <2>3, Zenon DEF TypeOK
  <1>2. CASE ~Registers(c, a)
    BY <1>2, Zenon DEF Registered, TypeOK
  <1> QED
    BY <1>1, <1>2, Zenon

\* What an execution ends with.
LEMMA EndedRow ==
  ASSUME NEW e \in ExecRows, NEW pc \in {"denied", "blocked"}, NEW entry
  PROVE  /\ Ended(e, pc) \in ExecRows /\ Ended(e, pc).pc = pc
         /\ CallOK(Ended(e, pc), entry)
  <1>1. NewExec \in ExecRows /\ e.agent \in Agents \cup {None} /\ pc \in Points
    BY DEF NewExec, ExecRows, Points, Actions, Signals, Outcomes
  <1>2. NewExec.runs = 0 /\ NewExec.grantedAt = 0
    BY Zenon DEF NewExec
  <1>3. /\ Ended(e, pc) \in ExecRows /\ Ended(e, pc).pc = pc
        /\ Ended(e, pc).runs = 0 /\ Ended(e, pc).grantedAt = 0
    BY <1>1, <1>2, Zenon DEF Ended, ExecRows
  <1> QED
    BY <1>3 DEF CallOK, Deciding, Brokered

\* preExecute keeps the invariant: what it classifies is what it registers and
\* what its proof is for.
LEMMA PreExecuteKeeps ==
  ASSUME Inv, NEW c \in Execs, NEW a \in Agents, NEW willing \in BOOLEAN,
         PreExecute(c, a, willing)
  PROVE  Inv'
  <1> DEFINE e == exec[c]
             mine == [exec[c] EXCEPT !.agent = a]
  <1>1. e \in ExecRows /\ e.pc = "idle" /\ CallOK(e, actions[c])
    BY Zenon DEF Inv, TypeOK, PreExecute
  <1>2. /\ mine \in ExecRows /\ mine.pc = "idle" /\ mine.agent = a
        /\ mine.proof = e.proof /\ mine.approved = e.approved /\ mine.runs = e.runs
        /\ mine.grantedAt = e.grantedAt
    BY <1>1, Zenon DEF ExecRows
  <1>3. RestTyped' /\ \A d \in Execs \ {c} : actions'[d] = actions[d]
    <2>1. CASE e.aborted
      BY <2>1, Zenon DEF PreExecute, env, RestTyped, Inv, TypeOK
    <2>2. CASE ~e.aborted
      <3>1. actions' = Registered(c, a, "pre")
        BY <2>2, Zenon DEF PreExecute
      <3> QED
        BY <3>1, RegisteredEntry, Zenon DEF PreExecute, env, RestTyped, Inv, TypeOK
    <2> QED
      BY <2>1, <2>2, Zenon
  <1>4. CASE exec' = [exec EXCEPT ![c] = Ended(mine, "denied")]
    BY <1>2, <1>3, <1>4, EndedRow, OwnStep, Zenon
  <1>5. CASE /\ ~e.aborted /\ ClassNow(c) \notin {None, "denied"}
             /\ \/ /\ ClassNow(c) = "approval_required"
                   /\ exec' = [exec EXCEPT ![c] =
                                 [mine EXCEPT !.pc = "asking", !.proof = world[c]]]
                \/ /\ ClassNow(c) # "approval_required"
                   /\ exec' = [exec EXCEPT ![c] =
                                 [mine EXCEPT !.pc = "allowed", !.proof = world[c],
                                              !.granted = TRUE]]
    <2>1. world[c] \in Prints /\ ClassNow(c) = ClassOf[world[c]]
      BY <1>5, Zenon DEF ClassNow, Inv, TypeOK
    <2>2. actions'[c] = None \/ actions'[c].print = world[c]
      <3>1. actions' = Registered(c, a, "pre")
        BY <1>5, Zenon DEF PreExecute
      <3> QED
        BY <1>1, <3>1, RegisteredEntry, Zenon DEF Inv, CallOK
    <2>3. CASE ClassNow(c) = "approval_required"
      <3> DEFINE row == [mine EXCEPT !.pc = "asking", !.proof = world[c]]
      <3>1. /\ row \in ExecRows /\ row.pc = "asking" /\ row.proof = world[c]
            /\ row.agent = a /\ row.runs = e.runs /\ row.grantedAt = e.grantedAt
        BY <1>2, <2>1, ZenonT(30) DEF ExecRows, Points, Actions
      <3>2. CallOK(row, actions'[c])
        BY <1>1, <2>1, <2>2, <2>3, <3>1, Zenon DEF CallOK, Deciding, Brokered
      <3>3. exec' = [exec EXCEPT ![c] = row]
        BY <1>5, <2>3, Zenon
      <3> QED
        BY <1>3, <3>1, <3>2, <3>3, OwnStep, Zenon
    <2>4. CASE ClassNow(c) # "approval_required"
      <3> DEFINE row == [mine EXCEPT !.pc = "allowed", !.proof = world[c],
                                     !.granted = TRUE]
      <3>1. /\ row \in ExecRows /\ row.pc = "allowed" /\ row.proof = world[c]
            /\ row.agent = a /\ row.runs = e.runs /\ row.grantedAt = e.grantedAt
        BY <1>2, <2>1, ZenonT(30) DEF ExecRows, Points, Actions
      <3>2. ClassOf[world[c]] = "automatic"
        BY <1>5, <2>1, <2>4, ClassesKnown, Zenon
      <3>3. CallOK(row, actions'[c])
        BY <1>1, <2>1, <3>1, <3>2, Zenon DEF CallOK, Deciding, Brokered, Permitted
      <3>4. exec' = [exec EXCEPT ![c] = row]
        BY <1>5, <2>4, Zenon
      <3> QED
        BY <1>3, <3>1, <3>3, <3>4, OwnStep, Zenon
    <2> QED
      BY <2>3, <2>4, Zenon
  <1> QED
    BY <1>4, <1>5, Zenon DEF PreExecute

\* The answer of the approval service grants the proof only if it allows.
LEMMA PreExecuteReturnsKeeps ==
  ASSUME Inv, NEW c \in Execs, PreExecuteReturns(c)
  PROVE  Inv'
  <1> DEFINE e == exec[c]
             row == [Forget(e) EXCEPT !.pc = "allowed", !.granted = TRUE]
  <1>1. e \in ExecRows /\ e.pc = "answered" /\ CallOK(e, actions[c])
    BY Zenon DEF Inv, TypeOK, PreExecuteReturns
  <1>2. RestTyped' /\ actions' = actions
    BY Zenon DEF PreExecuteReturns, env, RestTyped, Inv, TypeOK
  <1>3. CASE exec' = [exec EXCEPT ![c] = Ended(e, "denied")]
    BY <1>1, <1>2, <1>3, EndedRow, OwnStep, Zenon
  <1>4. CASE e.out = "allowed-once" /\ exec' = [exec EXCEPT ![c] = row]
    <2>1. NewExec \in ExecRows /\ NewExec.runs = 0 /\ NewExec.grantedAt = 0
      BY DEF NewExec, ExecRows, Points, Actions, Signals, Outcomes
    <2>2. /\ row \in ExecRows /\ row.pc = "allowed" /\ row.proof = e.proof
          /\ row.approved = e.approved /\ row.runs = 0 /\ row.grantedAt = 0
      BY <1>1, <2>1, Zenon DEF Forget, ExecRows, Points
    <2>3. CallOK(row, actions'[c])
      BY <1>1, <1>4, <2>2 DEF CallOK, Deciding, Brokered, Permitted
    <2> QED
      BY <1>2, <1>4, <2>2, <2>3, OwnStep, Zenon
  <1> QED
    BY <1>3, <1>4, Zenon DEF PreExecuteReturns

\* The row of an execution whose guard passed.
LEMMA RanRow ==
  ASSUME NEW e \in ExecRows, e.runs = 0, NEW print \in Prints
  PROVE  LET row == [Consumed(e) EXCEPT !.pc = "ran", !.ran = print, !.runs = @ + 1]
         IN  /\ row \in ExecRows /\ row.pc = "ran" /\ row.proof = None
             /\ row.ran = print /\ row.runs = 1 /\ row.approved = e.approved
             /\ row.grantedAt = e.grantedAt
  <1> DEFINE f == Consumed(e)
             row == [f EXCEPT !.pc = "ran", !.ran = print, !.runs = 1]
  <1>1. f \in ExecRows
    BY Zenon DEF Consumed, ExecRows, Actions
  <1>2. /\ f.proof = None /\ f.runs = 0
        /\ f.approved = e.approved /\ f.grantedAt = e.grantedAt
    BY Zenon DEF Consumed, ExecRows, Actions
  <1> HIDE DEF f
  <1>3. [f EXCEPT !.pc = "ran", !.ran = print, !.runs = @ + 1] = row
    BY <1>1, <1>2 DEF ExecRows
  <1>4. "ran" \in Points /\ print \in Actions
    BY Zenon DEF Points, Actions
  <1>5. row \in ExecRows
    BY <1>1, <1>4, Zenon DEF ExecRows
  <1>6. /\ row.pc = "ran" /\ row.proof = None /\ row.ran = print /\ row.runs = 1
        /\ row.approved = e.approved /\ row.grantedAt = e.grantedAt
    BY <1>1, <1>2, Zenon DEF ExecRows
  <1> HIDE DEF row
  <1> QED
    BY <1>3, <1>5, <1>6, Zenon DEF f

\* The guard lets a call run once, as what its proof is for.
LEMMA GuardKeeps ==
  ASSUME Inv, NEW c \in Execs, Guard(c)
  PROVE  Inv'
  <1> DEFINE e == exec[c]
             row == [Consumed(e) EXCEPT !.pc = "ran", !.ran = world[c], !.runs = @ + 1]
  <1>1. e \in ExecRows /\ e.pc \in {"allowed", "ran"} /\ CallOK(e, actions[c])
    BY Zenon DEF Inv, TypeOK, Guard
  <1>2. RestTyped' /\ \A d \in Execs \ {c} : actions'[d] = actions[d]
    <2>1. CASE actions' = actions
      BY <2>1, Zenon DEF Guard, env, RestTyped, Inv, TypeOK
    <2>2. CASE actions' = Registered(c, e.agent, "guard")
      <3>1. CASE e.agent \in Agents
        BY <2>2, <3>1, RegisteredEntry, Zenon DEF Guard, env, RestTyped, Inv, TypeOK
      <3>2. CASE e.agent \notin Agents
        <4>1. ~Registers(c, e.agent)
          BY <3>2, Zenon DEF Registers, Inv, TypeOK
        <4> QED
          BY <2>1, <2>2, <4>1, Zenon DEF Registered
      <3> QED
        BY <3>1, <3>2, Zenon
    <2> QED
      BY <2>1, <2>2, Zenon DEF Guard
  <1>3. CASE exec' = [exec EXCEPT ![c] = Ended(e, "blocked")]
    BY <1>1, <1>2, <1>3, EndedRow, OwnStep, Zenon
  <1>4. CASE ProofPasses(c) /\ exec' = [exec EXCEPT ![c] = row]
    <2>1. e.pc = "allowed" /\ e.runs = 0
      BY <1>1, <1>4, Zenon DEF ProofPasses, CallOK
    <2>2. world[c] = e.proof /\ world[c] \in Prints
      BY <1>1, <1>4, <2>1, Zenon DEF ProofPasses, CallOK, Permitted
    <2>3. /\ row \in ExecRows /\ row.pc = "ran" /\ row.proof = None /\ row.ran = e.proof
          /\ row.runs = 1 /\ row.approved = e.approved /\ row.grantedAt = e.grantedAt
      BY <1>1, <2>1, <2>2, RanRow, ZenonT(30)
    <2>4. CallOK(row, actions'[c])
      BY <1>1, <2>1, <2>3, Zenon DEF CallOK, Deciding, Brokered
    <2> QED
      BY <1>2, <1>4, <2>3, <2>4, OwnStep, Zenon
  <1> QED
    BY <1>3, <1>4, Zenon DEF Guard

-----------------------------------------------------------------------------
(* The answerer and the broker *)

\* The answerer leaves, or asks the broker about the registered action.
LEMMA AnswerKeeps ==
  ASSUME Inv, NEW c \in Execs, Answer(c)
  PROVE  Inv'
  <1> DEFINE e == exec[c]
             entry == actions[c]
  <1>1. e \in ExecRows /\ e.pc = "asking" /\ CallOK(e, entry)
    BY Zenon DEF Inv, TypeOK, Answer
  <1>2. RestTyped' /\ actions' = actions
    BY Zenon DEF Answer, env, RestTyped, Inv, TypeOK
  <1>3. CASE /\ EntryLive(c)
             /\ exec' = [exec EXCEPT ![c] =
                   [e EXCEPT !.pc = "refreshing", !.print = entry.print, !.sig = entry.sig]]
    <2> DEFINE row == [e EXCEPT !.pc = "refreshing", !.print = entry.print, !.sig = entry.sig]
    <2>1. entry \in Entries /\ entry # None
      BY <1>3, Zenon DEF EntryLive, Inv, TypeOK
    <2>2. /\ row \in ExecRows /\ row.pc = "refreshing" /\ row.proof = e.proof
          /\ row.print = entry.print /\ row.agent = e.agent /\ row.runs = e.runs /\ row.grantedAt = e.grantedAt
      BY <1>1, <2>1, ZenonT(30) DEF ExecRows, Points, Entries, Actions
    <2>3. CallOK(row, actions'[c])
      BY <1>1, <1>2, <2>1, <2>2, Zenon DEF CallOK, Deciding, Brokered
    <2> QED
      BY <1>2, <1>3, <2>2, <2>3, OwnStep, Zenon
  <1> QED
    <2>1. CASE exec' = [exec EXCEPT ![c] = [e EXCEPT !.pc = "elsewhere"]]
      <3> DEFINE row == [e EXCEPT !.pc = "elsewhere"]
      <3>1. /\ row \in ExecRows /\ row.pc = "elsewhere" /\ row.out = e.out
            /\ row.proof = e.proof /\ row.agent = e.agent /\ row.runs = e.runs /\ row.grantedAt = e.grantedAt
        BY <1>1, Zenon DEF ExecRows, Points
      <3>2. CallOK(row, actions'[c])
        BY <1>1, <1>2, <3>1, Zenon DEF CallOK, Deciding, Brokered
      <3> QED
        BY <1>2, <2>1, <3>1, <3>2, OwnStep, Zenon
    <2>2. ASSUME NEW o \in {"rejected", "unavailable"},
                 exec' = [exec EXCEPT ![c] = [e EXCEPT !.pc = "answered", !.out = o]]
          PROVE  Inv'
      <3> DEFINE row == [e EXCEPT !.pc = "answered", !.out = o]
      <3>1. /\ row \in ExecRows /\ row.pc = "answered" /\ row.out = o
            /\ row.proof = e.proof /\ row.agent = e.agent /\ row.runs = e.runs /\ row.grantedAt = e.grantedAt
        BY <1>1, Zenon DEF ExecRows, Points, Outcomes
      <3>2. CallOK(row, actions'[c])
        BY <1>1, <1>2, <3>1, Zenon DEF CallOK, Deciding, Brokered
      <3> QED
        BY <1>2, <2>2, <3>1, <3>2, OwnStep, Zenon
    <2> QED
      BY <2>1, <2>2, <1>3, Zenon DEF Answer

\* Another answerer of the host answers for the action it was asked about.
LEMMA ElsewhereKeeps ==
  ASSUME Inv, NEW c \in Execs, ElsewhereAnswers(c)
  PROVE  Inv'
  <1> DEFINE e == exec[c]
             verdict(o) == IF o = "allowed-once" THEN e.proof ELSE None
  <1>1. e \in ExecRows /\ e.pc = "elsewhere" /\ CallOK(e, actions[c])
    BY Zenon DEF Inv, TypeOK, ElsewhereAnswers
  <1>2. RestTyped' /\ actions' = actions
    BY Zenon DEF ElsewhereAnswers, env, RestTyped, Inv, TypeOK
  <1>3. PICK o \in Outcomes :
          exec' = [exec EXCEPT ![c].pc = "answered", ![c].out = o,
                               ![c].approved = verdict(o)]
    BY Zenon DEF ElsewhereAnswers
  <1> DEFINE row == [e EXCEPT !.pc = "answered", !.out = o, !.approved = verdict(o)]
  <1>4. exec' = [exec EXCEPT ![c] = row]
    BY <1>3, Zenon DEF Inv, TypeOK
  <1>5. "answered" \in Points /\ verdict(o) \in Actions
    BY <1>1, Zenon DEF Points, Actions, ExecRows
  <1>6. /\ row \in ExecRows /\ row.pc = "answered" /\ row.out = o
        /\ row.approved = verdict(o) /\ row.proof = e.proof
        /\ row.agent = e.agent /\ row.runs = e.runs /\ row.grantedAt = e.grantedAt
    BY <1>1, <1>5, Zenon DEF ExecRows
  <1>7. CallOK(row, actions'[c])
    BY <1>1, <1>2, <1>6, Zenon DEF CallOK, Deciding, Brokered
  <1> QED
    BY <1>2, <1>4, <1>6, <1>7, OwnStep, Zenon

\* After the refresh the call is answered or, if its attempt has no admission,
\* admitted with a reservation.
LEMMA RefreshKeeps ==
  ASSUME Inv, NEW c \in Execs, RefreshReturns(c)
  PROVE  Inv'
  <1> DEFINE e == exec[c]
             turned == [e EXCEPT !.pc = "answered", !.out = "unavailable"]
             admitted == [e EXCEPT !.pc = "waiting", !.res = Reserved(e.agent),
                                   !.due = WireDeadline, !.published = "pending"]
  <1>1. e \in ExecRows /\ e.pc = "refreshing" /\ CallOK(e, actions[c])
    BY Zenon DEF Inv, TypeOK, RefreshReturns
  <1>2. RestTyped' /\ actions' = actions
    BY Zenon DEF RefreshReturns, env, RestTyped, Inv, TypeOK
  <1>3. CASE exec' = [exec EXCEPT ![c] = turned]
    <2>1. "answered" \in Points /\ "unavailable" \in Outcomes
      BY Zenon DEF Points, Outcomes
    <2>2. /\ turned \in ExecRows /\ turned.pc = "answered" /\ turned.out = "unavailable"
          /\ turned.agent = e.agent /\ turned.proof = e.proof /\ turned.runs = e.runs
          /\ turned.grantedAt = e.grantedAt
      BY <1>1, <2>1, Zenon DEF ExecRows
    <2>3. CallOK(turned, actions'[c])
      BY <1>1, <1>2, <2>2, Zenon DEF CallOK, Deciding, Brokered
    <2> QED
      BY <1>2, <1>3, <2>2, <2>3, OwnStep, Zenon
  <1>4. CASE /\ Admissible(e.agent) /\ Reservable(e.agent)
             /\ exec' = [exec EXCEPT ![c] = admitted]
    <2>1. e.agent \in Agents
      BY <1>1, Zenon DEF CallOK, Deciding
    <2>2. "waiting" \in Points /\ Reserved(e.agent) \in Reservations /\ WireDeadline \in Int
      BY <1>4, <2>1, ReservedType, DeadlineType, Zenon DEF Points, Inv
    <2>3. /\ admitted \in ExecRows /\ admitted.pc = "waiting"
          /\ admitted.agent = e.agent /\ admitted.res = Reserved(e.agent)
          /\ admitted.proof = e.proof /\ admitted.print = e.print
          /\ admitted.runs = e.runs /\ admitted.grantedAt = e.grantedAt
      BY <1>1, <2>2, Zenon DEF ExecRows
    <2>4. CallOK(admitted, actions'[c])
      BY <1>1, <1>2, <2>2, <2>3, Zenon DEF CallOK, Deciding, Brokered
    <2>5. \A d \in Admitted : exec[d].agent # e.agent
      BY <1>4, Zenon DEF Admissible
    <2> QED
      BY <1>2, <1>4, <2>3, <2>4, <2>5, OwnStep, Zenon
  <1> QED
    BY <1>3, <1>4, Zenon DEF RefreshReturns, AfterRefresh, Requested

\* One waiter is settled.
SettledRow(e, o) ==
    IF e.pc = "waiting" THEN [e EXCEPT !.pc = "settled", !.out = o] ELSE e

LEMMA SettledOne ==
  ASSUME TypeOK, NEW c \in Execs, NEW o \in Outcomes
  PROVE  /\ Settled(exec, {c}, o) = [exec EXCEPT ![c] = SettledRow(exec[c], o)]
         /\ Settled(exec, {}, o) = exec
  BY Zenon DEF Settled, SettledRow, TypeOK

\* Settling changes where the waiter is and its outcome.
LEMMA SettledFields ==
  ASSUME NEW e \in ExecRows, NEW o \in Outcomes
  PROVE  LET s == SettledRow(e, o) IN
         /\ s \in ExecRows
         /\ s.pc = (IF e.pc = "waiting" THEN "settled" ELSE e.pc)
         /\ s.out = (IF e.pc = "waiting" THEN o ELSE e.out)
         /\ s.agent = e.agent /\ s.proof = e.proof /\ s.print = e.print
         /\ s.approved = e.approved /\ s.runs = e.runs /\ s.ran = e.ran
         /\ s.res = e.res /\ s.grantedAt = e.grantedAt /\ s.due = e.due
  <1>1. "settled" \in Points
    BY Zenon DEF Points
  <1> QED
    BY <1>1, Zenon DEF SettledRow, ExecRows

\* A step that settles c at most, without granting, and changes nothing else of
\* it that CallOK looks at.
LEMMA SettlesOwn ==
  ASSUME Inv, RestTyped', actions' = actions, NEW c \in Execs,
         NEW o \in Outcomes \ {"allowed-once"},
         NEW row \in ExecRows, exec' = [exec EXCEPT ![c] = row],
         row.pc \in {exec[c].pc, SettledRow(exec[c], o).pc},
         row.out = (IF row.pc = exec[c].pc THEN exec[c].out ELSE o),
         row.agent = exec[c].agent, row.proof = exec[c].proof,
         row.print = exec[c].print, row.approved = exec[c].approved,
         row.runs = exec[c].runs, row.ran = exec[c].ran, row.res = exec[c].res,
         row.grantedAt = exec[c].grantedAt
  PROVE  Inv'
  <1> DEFINE e == exec[c]
  <1>1. e \in ExecRows /\ CallOK(e, actions[c])
    BY Zenon DEF Inv, TypeOK
  <1>2. \/ row.pc = e.pc
        \/ e.pc = "waiting" /\ row.pc = "settled"
    BY <1>1, SettledFields, Zenon
  <1>3. CallOK(row, actions'[c])
    BY <1>1, <1>2, ZenonT(30) DEF CallOK, Deciding, Brokered
  <1>4. row.pc \in {"waiting", "settled"} => c \in Admitted
    BY <1>2, Zenon DEF Admitted
  <1> QED
    BY <1>3, <1>4, OwnStep, Zenon

\* A publication that returns marks the request, and settles it if it failed.
LEMMA PublishKeeps ==
  ASSUME Inv, NEW c \in Execs, PublishReturns(c)
  PROVE  Inv'
  <1> DEFINE e == exec[c]
             s == SettledRow(e, "unavailable")
  <1>1. e \in ExecRows /\ TypeOK /\ "unavailable" \in Outcomes \ {"allowed-once"}
    BY Zenon DEF Inv, TypeOK, Outcomes
  <1>2. RestTyped' /\ actions' = actions
    BY Zenon DEF PublishReturns, env, RestTyped, Inv, TypeOK
  <1>3. ASSUME NEW from \in ExecRows, NEW p \in {"sent", "failed"},
               exec' = [exec EXCEPT ![c] = [from EXCEPT !.published = p]],
               from = e \/ from = s
        PROVE  Inv'
    <2> DEFINE row == [from EXCEPT !.published = p]
    <2>1. /\ row \in ExecRows /\ row.pc = from.pc /\ row.out = from.out
          /\ row.agent = from.agent /\ row.proof = from.proof /\ row.print = from.print
          /\ row.approved = from.approved /\ row.runs = from.runs /\ row.ran = from.ran
          /\ row.res = from.res /\ row.grantedAt = from.grantedAt
      BY <1>3, Zenon DEF ExecRows
    <2> HIDE DEF row
    <2>2. row.pc \in {e.pc, s.pc} /\ row.out = (IF row.pc = e.pc THEN e.out ELSE "unavailable")
      BY <1>1, <1>3, <2>1, SettledFields, SMTT(30)
    <2>3. /\ row.agent = e.agent /\ row.proof = e.proof /\ row.print = e.print
          /\ row.approved = e.approved /\ row.runs = e.runs /\ row.ran = e.ran
          /\ row.res = e.res /\ row.grantedAt = e.grantedAt
      BY <1>1, <1>3, <2>1, SettledFields
    <2>4. exec' = [exec EXCEPT ![c] = row]
      BY <1>3, Zenon DEF row
    <2> QED
      BY <1>1, <1>2, <2>1, <2>2, <2>3, <2>4, SettlesOwn, Zenon
  <1>4. CASE exec' = [exec EXCEPT ![c].published = "sent"]
    <2>1. exec' = [exec EXCEPT ![c] = [e EXCEPT !.published = "sent"]]
      BY <1>4, Zenon DEF Inv, TypeOK
    <2> QED
      BY <1>1, <1>3, <2>1, Zenon
  <1>5. CASE exec' = [Settled(exec, {c}, "unavailable") EXCEPT ![c].published = "failed"]
    <2>1. s \in ExecRows
      BY <1>1, SettledFields, Zenon
    <2>2. Settled(exec, {c}, "unavailable") = [exec EXCEPT ![c] = s]
      BY <1>1, SettledOne, Zenon
    <2>3. exec' = [exec EXCEPT ![c] = [s EXCEPT !.published = "failed"]]
      BY <1>1, <1>5, <2>2, Zenon DEF TypeOK
    <2> QED
      BY <1>3, <2>1, <2>3, Zenon
  <1> QED
    BY <1>1, <1>4, <1>5, SettledOne, Zenon DEF PublishReturns

\* The timer of a request settles it.
LEMMA TimerKeeps ==
  ASSUME Inv, NEW c \in Execs, TimerFires(c)
  PROVE  Inv'
  <1> DEFINE s == SettledRow(exec[c], "unavailable")
  <1>1. /\ exec[c] \in ExecRows /\ TypeOK
        /\ "unavailable" \in Outcomes \ {"allowed-once"}
    BY Zenon DEF Inv, TypeOK, Outcomes
  <1>2. RestTyped' /\ actions' = actions
    BY Zenon DEF TimerFires, env, RestTyped, Inv, TypeOK
  <1>3. exec' = [exec EXCEPT ![c] = s]
    BY <1>1, SettledOne, Zenon DEF TimerFires
  <1>4. exec[c].pc = "waiting"
    BY Zenon DEF TimerFires, TimerDue
  <1> HIDE DEF s
  <1>5. /\ s \in ExecRows /\ s.pc = "settled" /\ s.out = "unavailable"
        /\ s.agent = exec[c].agent /\ s.proof = exec[c].proof /\ s.print = exec[c].print
        /\ s.approved = exec[c].approved /\ s.runs = exec[c].runs /\ s.ran = exec[c].ran
        /\ s.res = exec[c].res /\ s.grantedAt = exec[c].grantedAt
    BY <1>1, <1>4, SettledFields, Zenon DEF s
  <1>6. s.pc \in {exec[c].pc, SettledRow(exec[c], "unavailable").pc}
    BY Zenon DEF s
  <1> QED
    BY <1>1, <1>2, <1>3, <1>4, <1>5, <1>6, SettlesOwn, Zenon

\* The host aborts one execution: a waiter of it is cancelled.
LEMMA AbortKeeps ==
  ASSUME Inv, NEW c \in Execs, AbortExecution(c)
  PROVE  Inv'
  <1> DEFINE e == exec[c]
             s == SettledRow(e, "cancelled")
             row == [s EXCEPT !.aborted = TRUE]
  <1>1. e \in ExecRows /\ TypeOK /\ "cancelled" \in Outcomes \ {"allowed-once"}
    BY Zenon DEF Inv, TypeOK, Outcomes
  <1>2. RestTyped' /\ actions' = actions
    BY Zenon DEF AbortExecution, env, RestTyped, Inv, TypeOK
  <1>3. Settled(exec, {c}, "cancelled") = [exec EXCEPT ![c] = s]
    BY <1>1, SettledOne, Zenon
  <1>4. exec' = [exec EXCEPT ![c] = row]
    BY <1>1, <1>3, Zenon DEF AbortExecution, TypeOK
  <1>5. /\ s \in ExecRows /\ s.pc = (IF e.pc = "waiting" THEN "settled" ELSE e.pc)
        /\ s.out = (IF e.pc = "waiting" THEN "cancelled" ELSE e.out)
        /\ s.agent = e.agent /\ s.proof = e.proof /\ s.print = e.print
        /\ s.approved = e.approved /\ s.runs = e.runs /\ s.ran = e.ran
        /\ s.res = e.res /\ s.grantedAt = e.grantedAt
    BY <1>1, SettledFields, Zenon
  <1> HIDE DEF s
  <1>6. /\ row \in ExecRows /\ row.pc = s.pc /\ row.out = s.out
        /\ row.agent = s.agent /\ row.proof = s.proof /\ row.print = s.print
        /\ row.approved = s.approved /\ row.runs = s.runs /\ row.ran = s.ran
        /\ row.res = s.res /\ row.grantedAt = s.grantedAt
    BY <1>5, Zenon DEF ExecRows
  <1>7. row.pc \in {e.pc, SettledRow(e, "cancelled").pc}
    BY <1>6, Zenon DEF s
  <1> HIDE DEF row
  <1>8. row.out = (IF row.pc = e.pc THEN e.out ELSE "cancelled")
    BY <1>5, <1>6, Zenon
  <1> QED
    BY <1>1, <1>2, <1>4, <1>5, <1>6, <1>7, <1>8, SettlesOwn, ZenonT(30)

\* A decision names the action the broker asked about.
LEMMA DecisionKeeps ==
  ASSUME Inv, NEW c \in Execs, NEW approve \in BOOLEAN, NEW fits \in BOOLEAN,
         NEW life \in DecisionLives, Decision(c, approve, fits, life)
  PROVE  Inv'
  <1> DEFINE e == exec[c]
             v == Verdict(c, fits, wall + life)
             out == IF v = "fits" THEN IF approve THEN "allowed-once" ELSE "rejected"
                    ELSE "unavailable"
             due == IF v = "fits" THEN Min({e.due, wall + life}) ELSE e.due
             approved == IF out = "allowed-once" /\ fits THEN e.print ELSE None
             s == SettledRow(e, out)
             row == [s EXCEPT !.due = due, !.approved = approved]
  <1>1. e \in ExecRows /\ TypeOK /\ CallOK(e, actions[c]) /\ e.pc = "waiting"
    BY Zenon DEF Inv, TypeOK, Decision
  <1>2. RestTyped' /\ actions' = actions
    BY Zenon DEF Decision, env, RestTyped, Inv, TypeOK
  <1>3. out \in Outcomes /\ (out = "allowed-once" => fits)
    BY Zenon DEF Outcomes, Verdict
  <1>4. due \in Int /\ approved \in Actions
    <2>1. e.due \in Int /\ wall + life \in Int /\ e.print \in Actions
      BY <1>1, DeadlineType, TimesKnown DEF ExecRows
    <2> QED
      BY <2>1, EarlierLater, Zenon DEF Actions
  <1>5. Settled(exec, {c}, out) = [exec EXCEPT ![c] = s]
    BY <1>1, <1>3, SettledOne, Zenon
  <1>6. exec' = [Settled(exec, {c}, out) EXCEPT ![c].due = IF v = "fits" THEN Min({@, wall + life}) ELSE @,
                                                ![c].approved = approved]
    BY Zenon DEF Decision
  <1>7. /\ s \in ExecRows /\ s.pc = "settled" /\ s.out = out /\ s.agent = e.agent
        /\ s.proof = e.proof /\ s.print = e.print /\ s.runs = e.runs
        /\ s.res = e.res /\ s.grantedAt = e.grantedAt /\ s.due = e.due
    <2> HIDE DEF out
    <2> QED
      BY <1>1, <1>3, SettledFields, Zenon
  <1> HIDE DEF s
  <1>8. exec' = [exec EXCEPT ![c] = row]
    BY <1>1, <1>5, <1>6, <1>7, ZenonT(30) DEF TypeOK, ExecRows
  <1> HIDE DEF due
  <1>9. /\ row \in ExecRows /\ row.pc = "settled" /\ row.out = out /\ row.agent = e.agent
        /\ row.approved = approved /\ row.proof = e.proof /\ row.print = e.print
        /\ row.runs = e.runs /\ row.res = e.res /\ row.grantedAt = e.grantedAt
    <2> HIDE DEF approved, out
    <2> QED
      BY <1>4, <1>7, Zenon DEF ExecRows
  <1>10. CallOK(row, actions'[c])
    <2>1. approved = IF out = "allowed-once" THEN e.print ELSE None
      BY <1>3, Zenon
    <2> HIDE DEF row, approved, out
    <2> QED
      BY <1>1, <1>2, <1>9, <2>1, Zenon DEF CallOK, Deciding, Brokered
  <1> HIDE DEF row
  <1>11. c \in Admitted
    BY <1>1, Zenon DEF Admitted
  <1> QED
    BY <1>2, <1>8, <1>9, <1>10, <1>11, OwnStep, Zenon

\* The broker returns: a grant is inside the reservation's lifetime.
LEMMA BrokerKeeps ==
  ASSUME Inv, NEW c \in Execs, BrokerReturns(c)
  PROVE  Inv'
  <1> DEFINE e == exec[c]
             r == Release(e.res)
             final == IF CallerAborted(c) THEN "cancelled"
                      ELSE IF e.out = "allowed-once"
                              /\ (~IsCurrent(r) \/ disposed \/ wall >= e.due)
                      THEN "unavailable" ELSE e.out
             at == IF final = "allowed-once" THEN mono ELSE 0
             row == [e EXCEPT !.pc = "returned", !.out = final, !.res = r, !.grantedAt = at]
  <1>1. e \in ExecRows /\ CallOK(e, actions[c]) /\ e.pc = "settled"
    BY Zenon DEF Inv, TypeOK, BrokerReturns
  <1>2. RestTyped' /\ actions' = actions
    BY Zenon DEF BrokerReturns, env, RestTyped, Inv, TypeOK
  <1>3. /\ final \in Outcomes
        /\ final = "allowed-once" => e.out = "allowed-once" /\ IsCurrent(r)
    <2>1. e.out \in Outcomes
      BY <1>1, Zenon DEF ExecRows
    <2> QED
      BY <2>1, Zenon DEF Outcomes
  <1>4. r \in Reservations
    <2>1. e.res \in Reservations
      BY <1>1, Zenon DEF CallOK
    <2> QED
      BY <2>1, Zenon DEF Release, Reservations, Inv, TypeOK
  <1>5. at \in Int /\ (at > 0 => final = "allowed-once" /\ at < r.until)
    BY <1>3 DEF IsCurrent, Inv, TypeOK
  <1>6. exec' = [exec EXCEPT ![c] = row]
    BY Zenon DEF BrokerReturns, Inv, TypeOK
  <1> HIDE DEF final, r, at
  <1>7. "returned" \in Points
    BY Zenon DEF Points
  <1>8. /\ row \in ExecRows /\ row.pc = "returned" /\ row.out = final /\ row.res = r
        /\ row.grantedAt = at /\ row.agent = e.agent /\ row.proof = e.proof
        /\ row.print = e.print /\ row.approved = e.approved /\ row.runs = e.runs
    BY <1>1, <1>3, <1>4, <1>5, <1>7, ZenonT(30) DEF ExecRows
  <1> HIDE DEF row
  <1>9. CallOK(row, actions'[c])
    BY <1>1, <1>2, <1>3, <1>4, <1>5, <1>8, Zenon DEF CallOK, Deciding, Brokered
  <1> QED
    BY <1>2, <1>6, <1>8, <1>9, OwnStep, Zenon

\* The answerer returns the broker's answer or a refusal.
LEMMA AnswererKeeps ==
  ASSUME Inv, NEW c \in Execs, AnswererReturns(c)
  PROVE  Inv'
  <1> DEFINE e == exec[c]
             final == IF e.aborted THEN "cancelled"
                      ELSE IF CallerAborted(c) \/ e.agent \notin owners THEN "unavailable"
                      ELSE IF e.out = "allowed-once" /\ ~SameAction(c) THEN "unavailable"
                      ELSE e.out
             row == [Forget(e) EXCEPT !.pc = "answered", !.out = final]
  <1>1. e \in ExecRows /\ CallOK(e, actions[c]) /\ e.pc = "returned"
    BY Zenon DEF Inv, TypeOK, AnswererReturns
  <1>2. RestTyped' /\ actions' = actions
    BY Zenon DEF AnswererReturns, env, RestTyped, Inv, TypeOK
  <1>3. final \in Outcomes /\ (final = "allowed-once" => e.out = "allowed-once")
    <2>1. e.out \in Outcomes
      BY <1>1, Zenon DEF ExecRows
    <2> QED
      BY <2>1, Zenon DEF Outcomes
  <1>4. exec' = [exec EXCEPT ![c] = row]
    BY Zenon DEF AnswererReturns
  <1> HIDE DEF final
  <1>5. /\ NewExec \in ExecRows /\ NewExec.runs = 0 /\ NewExec.grantedAt = 0
        /\ "answered" \in Points
    BY DEF NewExec, ExecRows, Points, Actions, Signals, Outcomes
  <1>6. /\ Forget(e) \in ExecRows /\ Forget(e).agent = e.agent
        /\ Forget(e).proof = e.proof /\ Forget(e).approved = e.approved
        /\ Forget(e).runs = 0 /\ Forget(e).grantedAt = 0
    BY <1>1, <1>5, Zenon DEF Forget, ExecRows
  <1>7. /\ row \in ExecRows /\ row.pc = "answered" /\ row.out = final
        /\ row.agent = e.agent /\ row.proof = e.proof /\ row.approved = e.approved
        /\ row.runs = 0 /\ row.grantedAt = 0
    BY <1>3, <1>5, <1>6, Zenon DEF ExecRows
  <1> HIDE DEF row
  <1>8. CallOK(row, actions'[c])
    BY <1>1, <1>2, <1>3, <1>7 DEF CallOK, Deciding, Brokered
  <1> QED
    BY <1>2, <1>4, <1>7, <1>8, OwnStep, Zenon

-----------------------------------------------------------------------------
(* The rest of the system *)

\* Connections, snapshots, the clock, the plugin's lifecycle and what disturbs
\* them settle waiters and withdraw entries at most.
LEMMA RestKeeps ==
  ASSUME Inv,
         \/ \E a \in Agents : Observed(a) \/ Withdraw(a)
         \/ Connect \/ Opened \/ Dispose \/ DriverDisposed \/ StoreCloses \/ Tick
         \/ Lost \/ Unregister \/ ClockJumps
         \/ \E c \in Execs : PathChanges(c)
  PROVE  Inv'
  <1>1. /\ TypeOK /\ exec = [d \in Execs |-> exec[d]]
        /\ {"unavailable", "cancelled"} \subseteq Outcomes \ {"allowed-once"}
    BY Zenon DEF Inv, TypeOK, Outcomes
  <1>2. ASSUME RestTyped', exec' = exec, actions' = actions PROVE Inv'
    <2>1. \A d \in Execs : Carried(d)
      BY <1>2, Zenon DEF Carried
    <2> QED
      BY <1>1, <1>2, <2>1, CarriedStep, Zenon
  <1>3. ASSUME NEW who, NEW o \in {"unavailable", "cancelled"}, RestTyped',
               exec' = Settled(exec, who, o), actions' = actions
        PROVE  Inv'
    BY <1>1, <1>3, SettledCarried, CarriedStep, Zenon
  <1>4. ASSUME NEW a \in Agents, Observed(a) PROVE Inv'
    <2>1. Cached(a) \in [Agents -> Snapshots \cup {None}]
      <3>1. Validity \in Int
        BY TimesKnown, Zenon
      <3>2. [at |-> mono, skew |-> skew, until |-> mono + Validity] \in Snapshots
        BY <1>1, <3>1 DEF Snapshots, TypeOK
      <3> QED
        BY <1>1, <3>2, Zenon DEF Cached, TypeOK
    <2> QED
      BY <1>1, <1>2, <1>4, <2>1, Zenon DEF Observed, env, RestTyped, TypeOK
  <1>5. ASSUME NEW a \in Agents, Withdraw(a) PROVE Inv'
    <2> DEFINE sigs == {actions[c].sig : c \in {c \in Execs : exec[c].agent = a /\ actions[c] # None}}
    <2>1. RestTyped'
      BY <1>1, <1>5, Zenon DEF Withdraw, env, RestTyped, TypeOK
    <2>2. exec' = Settled(exec, WaitersOf(sigs), "cancelled")
      BY <1>5, Zenon DEF Withdraw
    <2>3. \A d \in Execs : actions'[d] \in {actions[d], None}
      BY <1>5, Zenon DEF Withdraw
    <2> QED
      BY <1>1, <2>1, <2>2, <2>3, SettledCarried, CarriedStep, Zenon
  <1>6. CASE Connect \/ DriverDisposed
    BY <1>1, <1>2, <1>6, Zenon DEF Connect, DriverDisposed, env, RestTyped, TypeOK
  <1>7. CASE Opened \/ Tick
    BY <1>1, <1>2, <1>7, SMTT(30) DEF Opened, Tick, env, RestTyped, TypeOK
  <1>8. CASE Dispose
    BY <1>1, <1>3, <1>8, Zenon DEF Dispose, env, RestTyped, TypeOK
  <1>9. CASE StoreCloses
    BY <1>1, <1>3, <1>9, Zenon DEF StoreCloses, env, RestTyped, TypeOK
  <1>10. CASE Lost
    BY <1>1, <1>3, <1>10, Zenon DEF Lost, env, RestTyped, TypeOK
  <1>11. CASE Unregister
    BY <1>1, <1>3, <1>11, Zenon DEF Unregister, env, RestTyped, TypeOK
  <1>12. CASE ClockJumps
    BY <1>1, <1>2, <1>12, TimesKnown, Zenon DEF ClockJumps, env, RestTyped, TypeOK
  <1>13. ASSUME NEW c \in Execs, PathChanges(c) PROVE Inv'
    BY <1>1, <1>2, <1>13 DEF PathChanges, RestTyped, TypeOK
  <1> QED
    BY <1>4, <1>5, <1>6, <1>7, <1>8, <1>9, <1>10, <1>11, <1>12, <1>13, Zenon

\* The invariant holds in every reachable state.
THEOREM Invariance == Spec => []Inv
  <1>1. Init => Inv
    <2> SUFFICES ASSUME Init PROVE Inv
      BY Zenon
    <2>1. NewExec \in ExecRows /\ CallOK(NewExec, None)
      BY DEF NewExec, ExecRows, Points, Actions, Signals, Outcomes, CallOK, Deciding,
             Brokered
    <2>2. \A c \in Execs : exec[c] = NewExec /\ actions[c] = None
      BY Zenon DEF Init
    <2>3. TypeOK
      BY <2>1, TimesKnown, SMTT(30) DEF Init, TypeOK
    <2>4. Admitted = {}
      BY <2>2 DEF Admitted, NewExec
    <2> QED
      BY <2>1, <2>2, <2>3, <2>4, Zenon DEF Inv, OneAdmission
  <1>2. Inv /\ [Next]_vars => Inv'
    <2> SUFFICES ASSUME Inv, [Next]_vars PROVE Inv'
      BY Zenon
    <2>1. ASSUME NEW c \in Execs, NEW a \in Agents, NEW willing \in BOOLEAN,
                 PreExecute(c, a, willing)
          PROVE  Inv'
      BY <2>1, PreExecuteKeeps, Zenon
    <2>2. ASSUME NEW c \in Execs, Steps(c) PROVE Inv'
      BY <2>2, PreExecuteReturnsKeeps, AnswerKeeps, ElsewhereKeeps, RefreshKeeps,
         PublishKeeps, TimerKeeps, BrokerKeeps, AnswererKeeps, Zenon DEF Steps
    <2>3. ASSUME NEW c \in Execs, Guard(c) PROVE Inv'
      BY <2>3, GuardKeeps, Zenon
    <2>4. ASSUME NEW c \in Execs, NEW approve \in BOOLEAN, NEW fits \in BOOLEAN,
                 NEW life \in DecisionLives, Decision(c, approve, fits, life)
          PROVE  Inv'
      BY <2>4, DecisionKeeps, Zenon
    <2>5. CASE Disturbance
      BY <2>5, RestKeeps, AbortKeeps, Zenon DEF Disturbance
    <2>6. CASE \/ \E a \in Agents : Observed(a)
               \/ Connect \/ Opened \/ Dispose \/ DriverDisposed \/ StoreCloses \/ Tick
      BY <2>6, RestKeeps, Zenon
    <2>7. CASE UNCHANGED vars
      BY <2>7, Zenon DEF vars, Inv, TypeOK, OneAdmission, Admitted
    <2> QED
      BY <2>1, <2>2, <2>3, <2>4, <2>5, <2>6, <2>7, Zenon DEF Next
  <1> QED
    BY <1>1, <1>2, PTL DEF Spec

\* Whatever the path, the connection, the clocks and the registry do between the
\* question and the run, a tool runs at most once per execution, as an action
\* that needs no approval or as the approved one (preExecute, guard,
\* acceptDecision).
THEOREM RunsApprovedHolds == Spec => []RunsApproved
  <1>1. Inv => RunsApproved
    BY SMTT(30) DEF Inv, CallOK, Permitted, RunsApproved
  <1> QED
    BY <1>1, Invariance, PTL

\* A grant falls inside the monotonic lifetime of its reservation for any
\* timeout, job expiry and clock drift (isCurrent, request).
THEOREM GrantInLifetimeHolds == Spec => []GrantInLifetime
  <1>1. Inv => GrantInLifetime
    BY Zenon DEF Inv, CallOK, GrantInLifetime
  <1> QED
    BY <1>1, Invariance, PTL

\* Requests of one attempt exclude each other, for any number of calls and any
\* bound on the admissions (admit).
THEOREM OneWaiterPerAttemptHolds == Spec => []OneWaiterPerAttempt
  <1>1. Inv => OneWaiterPerAttempt
    BY Zenon DEF Inv, OneAdmission, Admitted, OneWaiterPerAttempt
  <1> QED
    BY <1>1, Invariance, PTL

=============================================================================
