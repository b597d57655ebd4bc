----------------------------- MODULE RtcSession -----------------------------
(***************************************************************************)
(* The experimental voice mode of the control plane: the callback routes,  *)
(* the session registry with its two timers, the plugin that admits        *)
(* sessions and owns their provider handles, and the composition of the    *)
(* RTC subscription and the speech recognition stream.                     *)
(*                                                                         *)
(* One action is one turn of the event loop.  Closing a session only waits *)
(* for microtasks (createHttpTransport has no asynchronous resources), so  *)
(* it is atomic; joining a room and opening a recognition stream are calls *)
(* to the providers that take as long as they take.  The callbacks here    *)
(* are those the authenticator let through: all are of the one owner.      *)
(*                                                                         *)
(* A session is known by its number (the how-manieth it is).  The code     *)
(* knows it by the platform's session id, which may come back once the     *)
(* session is over.                                                        *)
(***************************************************************************)
EXTENDS Integers, Sequences, FiniteSets

CONSTANTS
  Ids,               \* platform session ids
  Rooms,             \* the rest of a session's identity
  FailureThreshold,  \* failures that open the circuit
  MaxActive,         \* maxConcurrentSessions
  Inactivity,        \* the watchdog's budget
  TokenLives,        \* how long a token may be valid
  DrainTime,
  MaxSessions,       \* bound: sessions created
  LastRequest,       \* bound: the last moment a start or a drain may come
  MaxTime            \* bound on the clock

ASSUME RtcAssumption ==
  /\ FailureThreshold \in Nat \ {0} /\ MaxActive \in Nat \ {0}
  /\ Inactivity \in Nat \ {0} /\ TokenLives \subseteq Nat \ {0}
  /\ DrainTime \in Nat
  /\ LastRequest + Inactivity <= MaxTime /\ LastRequest + DrainTime <= MaxTime

VARIABLES
  now,
  sessions,   \* every session created so far, by number
  registry,   \* registry.sessions: the number of the session of an id, or 0
  plugin,     \* active ids, failures, aborted, end of the drain (-1: none)
  handles,    \* plugin.handles: <<"consumer" or "output", number>> by id
  composed,   \* the composition's record of an id, which it never removes:
              \* aborted, and whose frames recognition reads (0: none yet)
  stream,     \* the provider's subscription of a session
  asr         \* the recognition stream of an id

vars == <<now, sessions, registry, plugin, handles, composed, stream, asr>>

Numbers == 1..MaxSessions
Live(g) == g \in DOMAIN sessions /\ sessions[g].live
IdOf(g) == sessions[g].id

Init ==
  /\ now = 0
  /\ sessions = <<>>
  /\ registry = [i \in Ids |-> 0]
  /\ plugin = [active |-> {}, failures |-> 0, aborted |-> FALSE, drain |-> -1,
               mounted |-> FALSE]
  /\ handles = [i \in Ids |-> {}]
  /\ composed = [i \in Ids |-> [aborted |-> FALSE, frames |-> 0]]
  /\ stream = [g \in Numbers |-> "none"]
  /\ asr = [i \in Ids |-> "none"]

-----------------------------------------------------------------------------
(* The plugin *)

\* degrade, and what the breaker makes of it: only whether failures has
\* reached the threshold is ever asked.
Degrade(p) ==
  [p EXCEPT !.failures = IF @ < FailureThreshold THEN @ + 1 ELSE @]

CanStart ==
  /\ plugin.mounted /\ ~plugin.aborted
  /\ plugin.failures < FailureThreshold
  /\ Cardinality(plugin.active) < MaxActive

\* mount: the routes exist only if building and registering them succeeded.
Mount(ok) ==
  /\ ~plugin.mounted /\ plugin.failures = 0 /\ plugin.drain = -1
  /\ plugin' = IF ok THEN [plugin EXCEPT !.mounted = TRUE] ELSE Degrade(plugin)
  /\ UNCHANGED <<now, sessions, registry, handles, composed, stream, asr>>

\* A consumer handle's close aborts the composition of its id.
Aborts(owned) == \E h \in owned : h[1] = "consumer"

\* closeSessionHandles for the ids in set: every consumer leaves its room, and
\* the aborted recognition drops its stream and the frames it reads.
CloseHandles(set) ==
  LET hit == {i \in set : Aborts(handles[i])}
      gone == {g \in Numbers : \E i \in set : <<"consumer", g>> \in handles[i]}
              \cup {composed[i].frames : i \in {j \in hit : asr[j] = "open"}}
  IN  /\ handles' = [i \in Ids |-> IF i \in set THEN {} ELSE handles[i]]
      /\ composed' = [i \in Ids |->
           [composed[i] EXCEPT !.aborted = @ \/ i \in hit]]
      /\ stream' = [g \in Numbers |-> IF g \in gone THEN "closed" ELSE stream[g]]
      /\ asr' = [i \in Ids |-> IF i \in hit /\ asr[i] = "open" THEN "done"
                               ELSE asr[i]]

DegradingReasons == {"provider_error", "token_expired"}

\* observeSession: endSession, and degrade for the reasons that count.
Observed(i, reason) ==
  LET ended == [plugin EXCEPT !.active = @ \ {i}] IN
  IF reason \in DegradingReasons THEN Degrade(ended) ELSE ended

-----------------------------------------------------------------------------
(* Sessions and the registry *)

Registered == {i \in Ids : registry[i] # 0}

\* dispose ends a writer whose response is still there.
Disposed(response) == IF response = "open" THEN "ended" ELSE response

\* Closing the session: timers stop, every writer ends.
Ended(s) == [s EXCEPT !.live = FALSE, !.extras = 0,
                      !.response = Disposed(@)]

\* LiveRtcSession.close of session g, for the first time.
Close(g, reason) ==
  /\ sessions' = [sessions EXCEPT ![g] = Ended(@)]
  /\ registry' = [registry EXCEPT ![IdOf(g)] = 0]
  /\ plugin' = Observed(IdOf(g), reason)
  /\ CloseHandles({IdOf(g)} \cap plugin.active)
  /\ UNCHANGED now

\* ownerSessions: with one owner, any registered session is the owner's.
OwnerFree == Registered = {}

\* createLiveRtcSession: both timers are armed.
NewSession(i, room, life) ==
  [id |-> i, room |-> room, live |-> TRUE, response |-> "open", extras |-> 0,
   idleAt |-> now + Inactivity, tokenAt |-> now + life]

\* registry.start: what it finds for a start.
Found(i, room) ==
  CASE registry[i] # 0 /\ sessions[registry[i]].room = room -> "existing"
    [] registry[i] # 0 /\ sessions[registry[i]].room # room -> "conflict"
    [] registry[i] = 0 /\ ~OwnerFree -> "conflict"
    [] OTHER -> "nothing"

\* The consumer's join gets no further if its composition is aborted.
JoinBegins(i) == ~composed[i].aborted

\* composeSession of session g: the consumer joins and the output is tracked.
\* A factory that rejects counts as a failure.
Compose(i, g, admitted) ==
  /\ plugin' = IF JoinBegins(i) THEN admitted ELSE Degrade(admitted)
  /\ stream' = [stream EXCEPT ![g] = IF JoinBegins(i) THEN "joining" ELSE "none"]
  /\ handles' = [handles EXCEPT ![i] = @ \cup {<<"output", g>>}]

\* A start that creates a session.  The plugin admits it a second time within
\* the same turn, so the refusal after creation does not happen.
Create(i, room, life) ==
  LET g == Len(sessions) + 1 IN
  /\ CanStart /\ Found(i, room) = "nothing"
  /\ g \in Numbers /\ now <= LastRequest
  /\ sessions' = Append(sessions, NewSession(i, room, life))
  /\ registry' = [registry EXCEPT ![i] = g]
  /\ Compose(i, g, [plugin EXCEPT !.active = @ \cup {i}])
  /\ UNCHANGED <<now, composed, asr>>

\* A duplicate of a live start gets a second writer.
Duplicate(i, room) ==
  /\ CanStart /\ Found(i, room) = "existing"
  /\ sessions[registry[i]].extras = 0  \* bound: one more writer
  /\ sessions' = [sessions EXCEPT ![registry[i]].extras = 1]
  /\ UNCHANGED <<now, registry, plugin, handles, composed, stream, asr>>

\* A start that is refused, with 429 or 409; both count as a failure (bound:
\* a refusal when the circuit is open changes nothing).
Refuse(i, room) ==
  /\ plugin.mounted /\ plugin.failures < FailureThreshold
  /\ ~CanStart \/ Found(i, room) = "conflict"
  /\ plugin' = Degrade(plugin)
  /\ UNCHANGED <<now, sessions, registry, handles, composed, stream, asr>>

\* The platform's SESSION_CLOSE.
PlatformClose(i) ==
  /\ plugin.mounted /\ registry[i] # 0
  /\ Close(registry[i], "platform_close")

\* The response of session g closes, because the client left or because it was
\* ended: whatever session has the id now is closed.
ResponseClosed(g) ==
  LET h == registry[IdOf(g)]
      after == [sessions EXCEPT ![g].response = "closed"]
  IN  /\ sessions[g].response # "closed"
      /\ IF h = 0
           THEN /\ sessions' = after
                /\ UNCHANGED <<now, registry, plugin, handles, composed, stream, asr>>
           ELSE /\ sessions' = [after EXCEPT ![h] = Ended(@)]
                /\ registry' = [registry EXCEPT ![IdOf(g)] = 0]
                /\ plugin' = Observed(IdOf(g), "user_exit")
                /\ CloseHandles({IdOf(g)} \cap plugin.active)
                /\ UNCHANGED now

\* The response of a duplicate start closes: its writer is detached.
Detach(g) ==
  /\ sessions[g].extras = 1
  /\ sessions' = [sessions EXCEPT ![g].extras = 0]
  /\ UNCHANGED <<now, registry, plugin, handles, composed, stream, asr>>

\* Faulty variant: the watchdog is armed by the first activity only.
FaultyIdle(g) == FALSE

\* InactivityWatchdog: the routes never touch a session, so its budget runs
\* from the start.
Idle(g) == Live(g) /\ now = sessions[g].idleAt

Expired(g) == Live(g) /\ now = sessions[g].tokenAt

Timer(g) ==
  \/ Idle(g) /\ Close(g, "inactive")
  \/ Expired(g) /\ Close(g, "token_expired")

-----------------------------------------------------------------------------
(* The providers *)

\* Faulty variant: only a shut down plugin refuses a late handle.
FaultyTracks(i) == ~plugin.aborted

\* trackHandle keeps the handle of a session that is still there.
Tracks(i) == ~plugin.aborted /\ i \in plugin.active

\* startPipeline runs recognition once, and an aborted one reads nothing.
PipelineStarts(i) == composed[i].frames = 0 /\ ~composed[i].aborted

\* consumer.join resolves.  The frames go to recognition, which starts once;
\* the handle is tracked, or closed because its session is gone.
Joined(g) ==
  LET i == IdOf(g) IN
  /\ stream[g] = "joining"
  /\ stream' = [stream EXCEPT ![g] = IF Tracks(i) THEN "open" ELSE "closed"]
  /\ handles' = IF Tracks(i)
       THEN [handles EXCEPT ![i] = @ \cup {<<"consumer", g>>}] ELSE handles
  /\ composed' = [composed EXCEPT ![i].aborted = @ \/ ~Tracks(i),
                                  ![i].frames = IF @ = 0 THEN g ELSE @]
  /\ asr' = IF PipelineStarts(i) THEN [asr EXCEPT ![i] = "opening"] ELSE asr
  /\ UNCHANGED <<now, sessions, registry, plugin>>

\* The provider refuses, or somebody else publishes in the room.
JoinFails(g) ==
  /\ stream[g] = "joining"
  /\ stream' = [stream EXCEPT ![g] = "closed"]
  /\ plugin' = Degrade(plugin)
  /\ UNCHANGED <<now, sessions, registry, handles, composed, asr>>

\* The audio of g, which recognition reads, ends or breaks; an error aborts
\* the composition of the id.
AudioEnds(g, error) ==
  LET i == IdOf(g) IN
  /\ stream[g] = "open" /\ composed[i].frames = g /\ asr[i] = "open"
  /\ stream' = [stream EXCEPT ![g] = "closed"]
  /\ composed' = [composed EXCEPT ![i].aborted = @ \/ error]
  /\ asr' = IF error THEN [asr EXCEPT ![i] = "done"] ELSE asr
  /\ UNCHANGED <<now, sessions, registry, plugin, handles>>

\* openStream: a second attempt follows a first that failed; a recognition
\* aborted meanwhile drops the stream, and the frames it would have read.
AsrOpened(i) ==
  /\ asr[i] \in {"opening", "again"}
  /\ asr' = [asr EXCEPT ![i] = IF composed[i].aborted THEN "done" ELSE "open"]
  /\ stream' = IF composed[i].aborted
       THEN [stream EXCEPT ![composed[i].frames] = "closed"] ELSE stream
  /\ UNCHANGED <<now, sessions, registry, plugin, handles, composed>>

AsrOpenFails(i) ==
  /\ asr[i] \in {"opening", "again"}
  /\ IF asr[i] = "opening" /\ ~composed[i].aborted
       THEN asr' = [asr EXCEPT ![i] = "again"] /\ UNCHANGED plugin
       ELSE asr' = [asr EXCEPT ![i] = "done"] /\ plugin' = Degrade(plugin)
  /\ UNCHANGED <<now, sessions, registry, handles, composed, stream>>

\* recognize ends: the events are over, or sending or receiving failed.
AsrEnds(i, error) ==
  /\ asr[i] = "open"
  /\ asr' = [asr EXCEPT ![i] = "done"]
  /\ plugin' = IF error THEN Degrade(plugin) ELSE plugin
  /\ UNCHANGED <<now, sessions, registry, handles, composed, stream>>

-----------------------------------------------------------------------------
(* Shutting down *)

\* The server closes: drainAndClose sets its deadline.
Drain ==
  /\ plugin.drain = -1 /\ now <= LastRequest
  /\ plugin' = [plugin EXCEPT !.drain = now + DrainTime]
  /\ UNCHANGED <<now, sessions, registry, handles, composed, stream, asr>>

Drained == plugin.active = {} \/ now >= plugin.drain

\* forceClose: handles first, then every registered session.
ForceClose ==
  LET late == IF plugin.active = {} THEN plugin ELSE Degrade(plugin) IN
  /\ plugin.drain # -1 /\ ~plugin.aborted /\ Drained
  /\ plugin' = [late EXCEPT !.aborted = TRUE, !.active = {}]
  /\ CloseHandles(Ids)
  /\ sessions' = [g \in DOMAIN sessions |->
       IF g \in {registry[i] : i \in Registered} THEN Ended(sessions[g])
       ELSE sessions[g]]
  /\ registry' = [i \in Ids |-> 0]
  /\ UNCHANGED now

\* Time passes when no timer is due.
Tick ==
  /\ now < MaxTime
  /\ ~\E g \in DOMAIN sessions : Idle(g) \/ Expired(g)
  /\ ~(plugin.drain = now /\ ~plugin.aborted /\ Drained)
  /\ now' = now + 1
  /\ UNCHANGED <<sessions, registry, plugin, handles, composed, stream, asr>>

Next ==
  \/ \E ok \in BOOLEAN : Mount(ok)
  \/ \E i \in Ids, room \in Rooms :
       \/ \E life \in TokenLives : Create(i, room, life)
       \/ Duplicate(i, room) \/ Refuse(i, room)
  \/ \E i \in Ids : PlatformClose(i) \/ AsrOpened(i) \/ AsrOpenFails(i)
                    \/ \E error \in BOOLEAN : AsrEnds(i, error)
  \/ \E g \in DOMAIN sessions :
       \/ ResponseClosed(g) \/ Detach(g) \/ Timer(g) \/ Joined(g) \/ JoinFails(g)
       \/ \E error \in BOOLEAN : AudioEnds(g, error)
  \/ Drain \/ ForceClose \/ Tick

Spec == Init /\ [][Next]_vars

\* Timers fire and the drain loop polls; the providers promise nothing.
FairSpec ==
  /\ Spec
  /\ WF_vars(Tick) /\ WF_vars(ForceClose)
  /\ \A g \in Numbers : WF_vars(g \in DOMAIN sessions /\ Timer(g))
-----------------------------------------------------------------------------
(* Properties *)

\* A provider stream that is open, of a room or of recognition, has a tracked
\* handle under the id of a live session, so ending that session closes it: a
\* join or an open that is answered late leaks nothing.
StreamsHaveSession ==
  /\ \A g \in DOMAIN sessions : stream[g] = "open" =>
       /\ <<"consumer", g>> \in handles[IdOf(g)]
       /\ registry[IdOf(g)] # 0
  /\ \A i \in Ids : asr[i] = "open" => registry[i] # 0

\* Every session ends, by its timers if by nothing else, whatever the clients
\* and the providers do.
SessionsEnd == \A g \in Numbers : Live(g) ~> ~Live(g)
=============================================================================
