---------------------------- MODULE ConnectorLink ----------------------------
(***************************************************************************)
(* The durable link between the control plane and one Connector that       *)
(* negotiated durable receipts and job coordination.                       *)
(*                                                                         *)
(* The control plane's end is acceptClientMessage, pendingServerMessages   *)
(* and tombstoneReplayBatch of connector/outbox.ts behind one WebSocket of *)
(* connector/gateway.ts; the Connector's end is DurableConnectorClient     *)
(* (transport/connector-client.ts) over PluginStore (store/plugin-store.ts)*)
(*                                                                         *)
(* Both ends number their messages from 1 and keep them: "out" and "rows"  *)
(* are indexed by the sequence number.  A WebSocket delivers in order and  *)
(* loses what is in flight when it drops; the Connector process can crash. *)
(* A server row's deadline can pass, whereupon replay replaces the row in  *)
(* place by a tombstone and a duplicate of the client message it answers   *)
(* restores it, each time under a fresh message id: "ver" counts the ids a *)
(* row has had.  Real time is shared, so a deadline passes for both ends.  *)
(***************************************************************************)
EXTENDS Integers, Sequences, FiniteSets, FiniteSetsExt

CONSTANTS
  Dispositions, \* what a consumed client message may be answered with
  Window,       \* MAX_UNCONFIRMED_FRAMES
  MaxEvents,    \* bound on messages the Connector's runtime publishes
  MaxCommands,  \* bound on commands the control plane queues
  MaxDrops,     \* bound on lost connections
  MaxCrashes,   \* bound on crashes of the Connector process
  MaxExpiries,  \* bound on server rows whose deadline passes
  MaxStalls,    \* bound on gateway sends that miss SOCKET_WRITE_TIMEOUT_MS
  MaxInFlight,  \* frames a direction of the connection buffers
  MaxLate       \* bound on deadlines that pass while the frame is in flight

ASSUME LinkAssumption ==
  /\ Dispositions \subseteq {"ack", "reject", "state"} /\ Dispositions # {}
  /\ Window \in Nat \ {0} /\ MaxInFlight \in Nat \ {0}
  /\ {MaxEvents, MaxCommands, MaxDrops, MaxCrashes, MaxExpiries, MaxStalls,
      MaxLate} \subseteq Nat

VARIABLES
  rows,     \* connector_messages of direction server
  receipts, \* connector_messages of direction client, with their responses
  resumed,  \* rows whose client ack found the command still in place
  gate,     \* the gateway's state of the current connection
  upward,   \* frames in flight from the Connector
  downward, \* frames in flight to the Connector
  out,      \* outbound_events
  proven,   \* transport-proven-prefix
  hello,    \* transport-hello: the sequence of the pinned hello, or 0
  journal,  \* inbound_messages with their delivered markers
  handled,  \* rows whose command handlers have completed
  client,   \* the Connector process
  expired,  \* <<sequence, ver>> of the server messages past their deadline
  spent     \* how much of each bound is used up

server == <<rows, receipts, resumed>>
wire == <<gate, upward, downward>>
store == <<out, proven, hello, journal>>
vars == <<server, wire, store, handled, client, expired, spent>>

-----------------------------------------------------------------------------
(* Messages *)

\* What a server row says; ref is the client sequence it answers, or the
\* number of the command.
Row(kind, ref) == [ver |-> 1, kind |-> kind, ref |-> ref]

\* Row n of an outbox, on the wire.
Frame(table, n) == [seq |-> n, ver |-> table[n].ver, kind |-> table[n].kind,
                    ref |-> table[n].ref]

\* A hello carries the Connector's cursor and its last sequence, an ack the
\* server sequence it acknowledges.
Message(kind, ref, last) == [kind |-> kind, ref |-> ref, last |-> last]

Late(seq, ver) == <<seq, ver>> \in expired

Spend(what) == spent' = [spent EXCEPT ![what] = @ + 1]

Idle == [init |-> FALSE, replaying |-> FALSE, scan |-> 0, resend |-> <<>>]

\* A started process without a connection.  busy is the command whose handler
\* runs, live says that the connection it came on is still open, recover is
\* -1 outside recoverPendingInbound.
Started == [state |-> "offline", welcomed |-> FALSE, recover |-> -1,
            sent |-> 0, busy |-> 0, live |-> FALSE]

-----------------------------------------------------------------------------
(* The control plane *)

\* tombstoneReplayBatch after sequence n
Tombstoned(n) ==
  [i \in DOMAIN rows |->
     IF i > n /\ Late(i, rows[i].ver)
       THEN [ver |-> rows[i].ver + 1, kind |-> "tomb", ref |-> rows[i].ref]
       ELSE rows[i]]

\* The rows that answer client message i (rememberOriginalResponse): a
\* welcome, an ack, or a disposition followed by an ack.
OriginalKind(i, k) ==
  IF receipts[i].msg.kind = "hello" THEN "welcome"
  ELSE IF k = Len(receipts[i].answer) THEN "ack" ELSE receipts[i].disposition

\* The rows of the response to client message i that expired or are
\* tombstones now, and what each said.
Restorable(i) ==
  {<<receipts[i].answer[k], OriginalKind(i, k)>> :
     k \in {m \in DOMAIN receipts[i].answer :
             LET n == receipts[i].answer[m]
             IN Late(n, rows[n].ver) \/ rows[n].kind # OriginalKind(i, m)}}

\* findOriginalResponse and refreshServerMessage: what expired or became a
\* tombstone is restored under a fresh id.
Refreshed(i) ==
  [n \in DOMAIN rows |->
     IF \E r \in Restorable(i) : r[1] = n
       THEN LET r == CHOOSE x \in Restorable(i) : x[1] = n
            IN [ver |-> rows[n].ver + 1, kind |-> r[2], ref |-> i]
       ELSE rows[n]]

\* The checks of handle and acceptClientMessage on the next frame: its order,
\* its identity with an earlier receipt, the cursors of a hello, the row an
\* ack names.
ServerAccepts(f) ==
  /\ (f.msg.kind = "hello") = ~gate.init
  /\ \/ f.seq \in DOMAIN receipts /\ receipts[f.seq].msg = f.msg
     \/ /\ f.seq = Len(receipts) + 1
        /\ f.msg.kind = "hello" =>
             f.msg.last = Len(receipts) /\ f.msg.ref <= Len(rows)
        /\ f.msg.kind = "ack" => f.msg.ref \in DOMAIN rows

\* A message that was consumed before: no effect, its response again.
AcceptDuplicate(f) ==
  /\ f.seq \in DOMAIN receipts
  /\ rows' = Refreshed(f.seq)
  /\ gate' = [gate EXCEPT
       !.init = TRUE,
       !.scan = IF f.msg.kind = "hello" THEN f.msg.ref ELSE @,
       !.replaying = f.msg.kind = "hello",
       !.resend = [k \in DOMAIN receipts[f.seq].answer |->
                     Frame(Refreshed(f.seq), receipts[f.seq].answer[k])]]
  /\ UNCHANGED <<receipts, resumed>>

AcceptHello(f) ==
  /\ f.seq = Len(receipts) + 1
  /\ f.msg.kind = "hello"
  /\ rows' = Append(Tombstoned(f.msg.ref), Row("welcome", f.seq))
  /\ receipts' = Append(receipts, [msg |-> f.msg, disposition |-> "ack",
                                   answer |-> <<Len(rows) + 1>>])
  /\ gate' = [gate EXCEPT !.init = TRUE, !.scan = f.msg.ref,
                          !.replaying = TRUE]
  /\ UNCHANGED resumed

\* Faulty variant: only the newest row is looked at.
ResumesNewest(msg) ==
  {n \in {Len(rows)} :
     msg.kind = "ack" /\ n = msg.ref /\ rows[n].kind = "command"}

\* resumeDeliveredApproval: the acknowledged row is still the command.
Resumes(msg) ==
  {n \in DOMAIN rows :
     msg.kind = "ack" /\ n = msg.ref /\ rows[n].kind = "command"}

\* The handlers of JobStore decide whether an event is applied ("ack"),
\* consumed as a rejection ("reject") or answered with a state ("state").
AcceptNew(f, disposition) ==
  /\ f.seq = Len(receipts) + 1
  /\ f.msg.kind # "hello"
  /\ f.msg.kind = "ack" => disposition = "ack"
  /\ LET n == Len(rows) + 1
         ack == Row("ack", f.seq)
     IN IF disposition = "ack"
          THEN /\ rows' = Append(rows, ack)
               /\ receipts' = Append(receipts,
                    [msg |-> f.msg, disposition |-> "ack", answer |-> <<n>>])
          ELSE /\ rows' = rows \o <<Row(disposition, f.seq), ack>>
               /\ receipts' = Append(receipts,
                    [msg |-> f.msg, disposition |-> disposition,
                     answer |-> <<n, n + 1>>])
  /\ resumed' = resumed \cup Resumes(f.msg)
  /\ UNCHANGED gate

\* handle: messages are processed one at a time, each to the end of its
\* replay and its response.  A message that was committed when its connection
\* drops is consumed although its response is lost.
Accept ==
  /\ upward # <<>> /\ ~gate.replaying /\ gate.resend = <<>>
  /\ ServerAccepts(Head(upward))
  /\ \/ AcceptDuplicate(Head(upward))
     \/ AcceptHello(Head(upward))
     \/ \E disposition \in Dispositions : AcceptNew(Head(upward), disposition)
  /\ upward' = Tail(upward)
  /\ UNCHANGED <<downward, store, handled, client, expired, spent>>

\* pump, and the replay loop of an initial hello: tombstone what has expired,
\* send the row after the scan cursor.
Pump ==
  /\ gate.init /\ gate.scan < Len(rows) /\ Len(downward) < MaxInFlight
  /\ rows' = Tombstoned(gate.scan)
  /\ LET n == gate.scan + 1
     IN /\ downward' = Append(downward, Frame(Tombstoned(gate.scan), n))
        /\ gate' = [gate EXCEPT !.scan = n,
                                !.replaying = @ /\ n < Len(rows)]
  /\ UNCHANGED <<receipts, resumed, upward, store, handled, client, expired,
                 spent>>

\* The retransmitted response of a duplicate, outside the scan order.  A
\* response that expired meanwhile is not sent, nor is what follows it.
Resend ==
  /\ ~gate.replaying /\ gate.resend # <<>> /\ Len(downward) < MaxInFlight
  /\ LET f == Head(gate.resend)
     IN IF Late(f.seq, f.ver)
          THEN /\ gate' = [gate EXCEPT !.resend = <<>>]
               /\ UNCHANGED downward
          ELSE /\ gate' = [gate EXCEPT !.resend = Tail(@)]
               /\ downward' = Append(downward, f)
  /\ UNCHANGED <<server, upward, store, handled, client, expired, spent>>

\* The replay or the response misses its deadline: handle returns, the
\* connection stays open and the pump goes on from the scan cursor.
Stall ==
  /\ spent.stall < MaxStalls
  /\ gate.replaying \/ gate.resend # <<>>
  /\ gate' = [gate EXCEPT !.replaying = FALSE, !.resend = <<>>]
  /\ Spend("stall")
  /\ UNCHANGED <<server, upward, downward, store, handled, client, expired>>

\* dispatchNext, or a command of the owner, queues a row.
Command ==
  /\ spent.command < MaxCommands
  /\ receipts # <<>>
  /\ rows' = Append(rows, Row("command", spent.command + 1))
  /\ Spend("command")
  /\ UNCHANGED <<receipts, resumed, wire, store, handled, client, expired>>

InFlight(seq, ver) ==
  \E f \in {downward[i] : i \in DOMAIN downward}
             \cup {gate.resend[i] : i \in DOMAIN gate.resend} :
    f.seq = seq /\ f.ver = ver

\* The deadline of a server row passes, perhaps while its frame is on its way.
\* Tombstones live for 30 days.
Expire(n) ==
  /\ spent.expire < MaxExpiries
  /\ rows[n].kind # "tomb"
  /\ ~Late(n, rows[n].ver)
  /\ expired' = expired \cup {<<n, rows[n].ver>>}
  /\ \/ ~InFlight(n, rows[n].ver) /\ Spend("expire")
     \/ /\ InFlight(n, rows[n].ver) /\ spent.late < MaxLate
        /\ spent' = [spent EXCEPT !.expire = @ + 1, !.late = @ + 1]
  /\ UNCHANGED <<server, wire, store, handled, client>>

-----------------------------------------------------------------------------
(* The Connector *)

Pending(s) == s \in DOMAIN out /\ s > proven

NewHello(cursor) ==
  /\ out' = Append(out, Message("hello", cursor, Len(out)))
  /\ hello' = Len(out) + 1

\* prepareHello: a new hello only when everything allocated before is proven
\* consumed; otherwise the pinned one, with its old cursor, is used again.
PrepareHello ==
  IF hello = 0 \/ proven = Len(out)
    THEN NewHello(Len(journal))
    ELSE UNCHANGED <<out, hello>>

\* The constructor and start.
Start ==
  /\ client.state = "down"
  /\ PrepareHello
  /\ client' = Started
  /\ UNCHANGED <<server, wire, proven, journal, handled, expired, spent>>

\* connectOnce and afterOpen.  A handler of an earlier connection may still
\* be running; the gateway forgets the earlier connection.
Connect ==
  /\ client.state = "offline"
  /\ PrepareHello
  /\ client' = [client EXCEPT !.state = "open", !.welcomed = FALSE,
                              !.recover = -1, !.sent = 0, !.live = FALSE]
  /\ upward' = <<[seq |-> hello', msg |-> out'[hello']]>>
  /\ downward' = <<>>
  /\ gate' = Idle
  /\ UNCHANGED <<server, proven, journal, handled, expired, spent>>

\* publish, publishSync, commitTerminal, heartbeats: persisted, then sent when
\* the window allows.
Publish ==
  /\ client.state # "down" /\ hello # 0
  /\ spent.event < MaxEvents
  /\ out' = Append(out, Message("event", 0, 0))
  /\ Spend("event")
  /\ UNCHANGED <<server, wire, proven, hello, journal, handled, client, expired>>

\* sendPending: in order, once per connection, within the window.
Send ==
  /\ client.state = "open" /\ client.welcomed /\ Len(upward) < MaxInFlight
  /\ LET s == Max({client.sent, proven}) + 1
     IN /\ Pending(s)
        /\ Cardinality({i \in 1..client.sent : Pending(i)}) < Window
        /\ upward' = Append(upward, [seq |-> s, msg |-> out[s]])
        /\ client' = [client EXCEPT !.sent = s]
  /\ UNCHANGED <<server, gate, downward, store, handled, expired, spent>>

\* Faulty variant: a tombstone cannot be restored.
ValidReplacementByExpiry(f) ==
  LET previous == journal[f.seq]
  IN /\ Late(f.seq, previous.ver)
     /\ \/ f.kind = "tomb"
        \/ /\ f.kind # "command"
           /\ f.kind = previous.kind /\ f.ref = previous.ref

\* validReplacement: what may take the place of a journalled message.
ValidReplacement(f) ==
  LET previous == journal[f.seq]
      previousExpired == Late(f.seq, previous.ver)
  IN \/ previousExpired /\ f.kind = "tomb"
     \/ /\ previousExpired /\ f.kind # "command"
        /\ f.kind = previous.kind /\ f.ref = previous.ref
     \/ previous.kind = "tomb" /\ f.kind = "welcome" /\ f.ref = hello
     \/ previous.kind = "tomb" /\ f.kind = "ack" /\ f.ref \in DOMAIN out
     \/ previous.kind = "tomb" /\ f.kind = "state" /\ f.ref \in DOMAIN out
     \/ previous.kind = "tomb" /\ f.kind = "reject" /\ Pending(f.ref)

Journalled(f) == f.seq \in DOMAIN journal
Known(f) == Journalled(f) /\ journal[f.seq].ver = f.ver

\* The checks of handleIncoming.
ClientAccepts(f) ==
  /\ ~Late(f.seq, f.ver)
  /\ f.kind = "welcome" => f.ref = hello
  /\ f.kind = "ack" => f.ref \in DOMAIN out
  /\ Journalled(f) /\ ~Known(f) => ValidReplacement(f)
  /\ ~Journalled(f) =>
       /\ f.seq = Len(journal) + 1
       /\ ~(f.kind = "welcome" /\ client.welcomed)

\* recordInbound or replaceInbound.  A replaced message is to be completed
\* again, unless it is a state that was completed before.
Record(f) ==
  LET Entry(delivered) == [ver |-> f.ver, kind |-> f.kind, ref |-> f.ref,
                           delivered |-> delivered]
  IN IF ~Journalled(f) THEN Append(journal, Entry(FALSE))
     ELSE IF Known(f) THEN journal
     ELSE [journal EXCEPT ![f.seq] =
             Entry(f.kind = "state" /\ journal[f.seq].delivered)]

\* enqueueAck, unless an ack of the row is still pending.
WithAck(n) ==
  IF \E s \in DOMAIN out : Pending(s) /\ out[s].kind = "ack" /\ out[s].ref = n
    THEN out ELSE Append(out, Message("ack", n, 0))

Delivered(log, n) == [log EXCEPT ![n].delivered = TRUE]

\* Faulty variants: what was sent on this connection counts as received; one
\* row too many is retired.
ProvenThroughSent(s) == Max({proven, s, client.sent})
\* acknowledgeThrough: a receipt proves the prefix up to its sequence.
ProvenThrough(s) == Max({proven, s})

\* Faulty variant: a command found unfinished after a restart is not handled
\* again.
NeedsHandlerOnce(log, n) ==
  /\ client.recover = -1
  /\ log[n].kind = "command" /\ ~log[n].delivered /\ ~Late(n, log[n].ver)

NeedsHandler(log, n) ==
  log[n].kind = "command" /\ ~log[n].delivered /\ ~Late(n, log[n].ver)

\* completeInbound of journal entry n, up to the first handler's await.
Complete(log, n) ==
  \/ /\ log[n].kind = "ack"
     /\ proven' = IF log[n].delivered THEN proven ELSE ProvenThrough(log[n].ref)
     /\ journal' = Delivered(log, n)
     /\ UNCHANGED <<out, client>>
  \/ /\ NeedsHandler(log, n)
     /\ client' = [client EXCEPT !.busy = n, !.live = TRUE]
     /\ journal' = log
     /\ UNCHANGED <<out, proven>>
  \/ /\ log[n].kind # "ack" /\ ~NeedsHandler(log, n)
     /\ out' = WithAck(n)
     /\ journal' = Delivered(log, n)
     /\ UNCHANGED <<proven, client>>

\* The receive pump is serialized and waits for a running handler.
Receiving ==
  client.state = "open" /\ client.busy = 0 /\ client.recover = -1
    /\ downward # <<>>

ReceiveWelcome ==
  /\ Receiving /\ Head(downward).kind = "welcome"
  /\ ClientAccepts(Head(downward))
  /\ LET f == Head(downward)
     IN /\ journal' = Record(f)
        /\ client' = [client EXCEPT
             !.welcomed = TRUE,
             !.recover = IF Known(f) /\ journal[f.seq].delivered
                           THEN f.seq ELSE 0]
  /\ proven' = ProvenThrough(hello)
  /\ downward' = Tail(downward)
  /\ UNCHANGED <<server, gate, upward, out, hello, handled, expired, spent>>

\* Before the welcome a message is only recorded.
Receive ==
  /\ Receiving /\ Head(downward).kind # "welcome"
  /\ ClientAccepts(Head(downward))
  /\ LET f == Head(downward)
     IN IF client.welcomed THEN Complete(Record(f), f.seq)
        ELSE /\ journal' = Record(f)
             /\ UNCHANGED <<out, proven, client>>
  /\ downward' = Tail(downward)
  /\ UNCHANGED <<server, gate, upward, hello, handled, expired, spent>>

\* Faulty variant: nothing is left over after a reconnect.
NothingUndelivered == {}

\* pendingInboundMessages
Undelivered == {n \in DOMAIN journal : ~journal[n].delivered}

\* recoverPendingInbound after a welcome: what is recorded and not completed,
\* in order; what has expired is closed without an ack.
Recover ==
  /\ client.state = "open" /\ client.recover # -1 /\ client.busy = 0
  /\ IF Undelivered = {}
       THEN /\ out' = IF client.recover = 0 THEN out
                      ELSE WithAck(client.recover)
            /\ client' = [client EXCEPT !.recover = -1]
            /\ UNCHANGED <<proven, journal>>
       ELSE \E n \in Undelivered :
              /\ \A m \in Undelivered : n <= m
              /\ IF Late(n, journal[n].ver)
                   THEN /\ journal' = Delivered(journal, n)
                        /\ UNCHANGED <<out, proven, client>>
                   ELSE Complete(journal, n)
  /\ UNCHANGED <<server, wire, hello, handled, expired, spent>>

\* The handlers of a command return.  If its connection is gone meanwhile the
\* receipt stays unfinished, for recovery.
HandlerDone ==
  /\ client.busy # 0
  /\ handled' = handled \cup {client.busy}
  /\ IF client.live
       THEN /\ out' = WithAck(client.busy)
            /\ journal' = Delivered(journal, client.busy)
       ELSE UNCHANGED <<out, journal>>
  /\ client' = [client EXCEPT !.busy = 0, !.live = FALSE]
  /\ UNCHANGED <<server, wire, proven, hello, expired, spent>>

\* rejectIncoming: with coordination negotiated a frame that fails its checks
\* stops the Connector until its host starts it again.
Reject ==
  /\ Receiving
  /\ ~ClientAccepts(Head(downward))
  /\ client' = [Started EXCEPT !.state = "down"]
  /\ upward' = <<>> /\ downward' = <<>> /\ gate' = Idle
  /\ UNCHANGED <<server, store, handled, expired, spent>>

Disconnect ==
  /\ client.state = "open"
  /\ client' = [client EXCEPT !.state = "offline", !.welcomed = FALSE,
                              !.recover = -1, !.live = FALSE]
  /\ upward' = <<>> /\ downward' = <<>> /\ gate' = Idle
  /\ UNCHANGED <<server, store, handled, expired>>

\* The socket fails, is superseded, or is closed by either side.
Drop ==
  /\ spent.drop < MaxDrops
  /\ Disconnect
  /\ Spend("drop")

\* Faulty variant: no receipt timer.
NoReceiptTimeout == FALSE

\* The receipt timer of afterOpen: frames wait for a receipt and nothing is
\* on its way any more.
ReceiptTimeout ==
  /\ ~client.welcomed \/ \E s \in 1..client.sent : Pending(s)
  /\ upward = <<>> /\ downward = <<>> /\ client.busy = 0 /\ client.recover = -1
  /\ ~gate.replaying /\ gate.resend = <<>>
  /\ gate.init => gate.scan = Len(rows)
  /\ Disconnect
  /\ UNCHANGED spent

Crash ==
  /\ client.state # "down" /\ spent.crash < MaxCrashes
  /\ client' = [Started EXCEPT !.state = "down"]
  /\ upward' = <<>> /\ downward' = <<>> /\ gate' = Idle
  /\ Spend("crash")
  /\ UNCHANGED <<server, store, handled, expired>>

-----------------------------------------------------------------------------

Init ==
  /\ rows = <<>> /\ receipts = <<>> /\ resumed = {}
  /\ gate = Idle /\ upward = <<>> /\ downward = <<>>
  /\ out = <<>> /\ proven = 0 /\ hello = 0 /\ journal = <<>>
  /\ handled = {} /\ expired = {}
  /\ client = [Started EXCEPT !.state = "down"]
  /\ spent = [event |-> 0, command |-> 0, drop |-> 0, crash |-> 0,
              expire |-> 0, stall |-> 0, late |-> 0]

Progress ==
  \/ Accept \/ Pump \/ Resend
  \/ Start \/ Connect \/ Send \/ ReceiveWelcome \/ Receive \/ Recover
  \/ HandlerDone \/ ReceiptTimeout

Environment ==
  \/ Publish \/ Command \/ Stall \/ Reject \/ Drop \/ Crash
  \/ \E n \in DOMAIN rows : Expire(n)

Next == Progress \/ Environment

Spec == Init /\ [][Next]_vars

-----------------------------------------------------------------------------
(* Properties *)

\* A deadline has passed while its frame was in flight, or a send has missed
\* its write deadline.  The Connector may refuse what follows, and stop.
Overrun == spent.late + spent.stall > 0

\* The Connector never refuses a frame of the control plane: gaps, rewrites
\* and unknown receipts do not arise from replay, tombstones, restoration and
\* reconnects, as long as nothing overran its deadline on the way.  A refusal
\* stops the Connector for good.
NeverRejects == Receiving /\ ~Overrun => ClientAccepts(Head(downward))

\* The Connector retires an outbound row only when the control plane has
\* consumed it: the proven prefix is within the receipts, and the receipts are
\* the Connector's queue, in its order and without a change.
ProvenIsConsumed ==
  /\ proven <= Len(receipts) /\ Len(receipts) <= Len(out)
  /\ \A i \in DOMAIN receipts : receipts[i].msg = out[i]

\* An ack the Connector allocates for a command says that the command was
\* durably received and is settled: its handlers completed, or its deadline
\* passed.  No crash or reconnect between recording, handling, acknowledging
\* and marking produces an ack for a command that can still be lost.
AckIsSettled ==
  \A s \in DOMAIN out : out[s].kind = "ack" =>
    /\ out[s].ref \in DOMAIN journal
    /\ journal[out[s].ref].kind = "command" =>
         \/ out[s].ref \in handled
         \/ Late(out[s].ref, journal[out[s].ref].ver)

\* A decision that was delivered takes effect: when the ack of a handled command
\* is consumed, resumeDeliveredApproval still finds the command in the outbox
\* and returns the job to running, unless the command's deadline passed before
\* the ack came.
DeliveredDecisionResumes ==
  \A i \in DOMAIN receipts :
    receipts[i].msg.kind = "ack" /\ receipts[i].msg.ref \in handled
      => \/ receipts[i].msg.ref \in resumed
         \/ \E e \in expired : e[1] = receipts[i].msg.ref

\* The loops of both ends go on; what the environment does is never owed.
Fairness == WF_vars(Progress)

\* Everything the Connector allocates is eventually proven consumed, and stays
\* so, unless an overrun stops the Connector: acks of acks end, no lost response
\* leaves a row pending for ever.
AllProven == <>[](Overrun \/ proven = Len(out))

\* Every queued command is eventually handled, unless its deadline passes
\* or an overrun stops the Connector.
CommandsSettled ==
  <>[](Overrun \/ \A n \in DOMAIN rows :
         rows[n].kind = "command" => n \in handled \/ Late(n, rows[n].ver))
=============================================================================
