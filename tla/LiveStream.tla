----------------------------- MODULE LiveStream ------------------------------
(***************************************************************************)
(* server/stream as replayd runs it: simulators send the ticks of their    *)
(* rounds over TCP, the hub keeps the rounds that are live, and every      *)
(* viewer gets a channel filled with what it missed and then with what     *)
(* comes.                                                                  *)
(*                                                                         *)
(* A member of Sims is one TCP connection, with its handler goroutine and  *)
(* the stream.Round it may open; a member of Viewers is one GET /live/{id} *)
(* with its goroutine.  Steps are the critical sections of the hub's and   *)
(* the round's mutexes and the operations on channels and sockets.  The    *)
(* messages of a stream are numbered: 1 is the header, k + 1 the k-th      *)
(* tick; Done is DONE.                                                     *)
(***************************************************************************)
EXTENDS Integers, FiniteSets, FiniteSetsExt, Sequences

CONSTANTS
  Sims, Viewers,
  RoundIds,       \* the ids simulators announce and viewers ask for
  LiveBuf,        \* headroom of a subscriber, 180 in WSHandler
  MaxMessages,    \* bound: the headers and ticks all simulators send
  Done,           \* the DONE message
  Nobody          \* no simulator, no message

ASSUME StreamAssumption ==
  /\ LiveBuf \in Nat \ {0}        \* Subscribe raises it to 16
  /\ MaxMessages \in Nat \ {0}
  /\ Done \notin Nat /\ Nobody \notin Sims \cup Nat \cup {Done}

VARIABLES
  hub,       \* Hub.rounds: the simulators whose round is registered
  sPc,       \* control point of a connection's handler
  sId,       \* the round id it announced
  written,   \* header and ticks buffered in Round.hdr and Round.tks
  done,      \* Round.done
  subs,      \* Round.subs
  vPc,       \* control point of a viewer's handler
  vSim,      \* the round Lookup found, as its simulator
  chan,      \* Subscriber.send: the messages in the channel
  room,      \* the channel's capacity
  closed,    \* the channel is closed
  got,       \* the messages taken from the channel and written to the viewer
  accepting, \* the accept loop is running
  server     \* replayd: "up", "draining", "closing", "exited", or "failed"

simVars    == <<sPc, sId, written, done>>
subVars    == <<subs, chan, room, closed>>
viewerVars == <<vPc, vSim, got>>
listenVars == <<accepting, server>>
vars == <<hub, simVars, subVars, viewerVars, listenVars>>

Alive == server \notin {"exited", "failed"}

Backlog(s) == [i \in 1..written[s] |-> i]

Init ==
  /\ hub = {}
  /\ sPc     = [s \in Sims |-> "off"]
  /\ sId     \in [Sims -> RoundIds]
  /\ written = [s \in Sims |-> 0]
  /\ done    = [s \in Sims |-> FALSE]
  /\ subs    = [s \in Sims |-> {}]
  /\ vPc    = [v \in Viewers |-> "off"]
  /\ vSim   = [v \in Viewers |-> Nobody]
  /\ chan   = [v \in Viewers |-> <<>>]
  /\ room   = [v \in Viewers |-> 0]
  /\ closed = [v \in Viewers |-> FALSE]
  /\ got    = [v \in Viewers |-> <<>>]
  /\ accepting = TRUE
  /\ server = "up"
-----------------------------------------------------------------------------
(* The connection of a simulator.                                          *)

SimMoves(s, from, to) ==
  /\ Alive
  /\ sPc[s] = from
  /\ sPc' = [sPc EXCEPT ![s] = to]
  /\ UNCHANGED <<sId, viewerVars, server>>

\* A connection accepted just before the socket was closed still gets its
\* handler; it is the last one.
AcceptConn(s) ==
  /\ SimMoves(s, "off", "hello")
  /\ accepting
  /\ accepting' = (server # "closing")
  /\ UNCHANGED <<hub, written, done, subVars>>

\* No round id within five seconds.
HelloFails(s) ==
  /\ SimMoves(s, "hello", "closed")
  /\ UNCHANGED <<accepting, hub, written, done, subVars>>

Registered(id) == {t \in hub : sId[t] = id}

\* A wrong Open, that replaces the round that has the id.
OpenAnyway(s) ==
  /\ SimMoves(s, "hello", "reading")
  /\ hub' = (hub \ Registered(sId[s])) \cup {s}
  /\ UNCHANGED <<accepting, written, done, subVars>>

OpenRound(s) ==
  /\ SimMoves(s, "hello", "reading")
  /\ Registered(sId[s]) = {}
  /\ hub' = hub \cup {s}
  /\ UNCHANGED <<accepting, written, done, subVars>>

\* ErrRoundExists.
RefuseRound(s) ==
  /\ SimMoves(s, "hello", "closed")
  /\ Registered(sId[s]) # {}
  /\ UNCHANGED <<accepting, hub, written, done, subVars>>

MayWrite(s) == MapThenSumSet(LAMBDA t : written[t], Sims) < MaxMessages

Full(v) == Len(chan[v]) >= room[v]

\* fanoutLocked, and what Done does after it: every subscriber with room gets
\* the message, every other one is cut; if last, all channels are closed.
FanOut(s, m, last) ==
  /\ chan' = [v \in Viewers |->
                IF v \in subs[s] /\ ~Full(v) THEN Append(chan[v], m) ELSE chan[v]]
  /\ closed' = [v \in Viewers |-> closed[v] \/ (v \in subs[s] /\ (last \/ Full(v)))]
  /\ subs' = [subs EXCEPT ![s] = IF last THEN {} ELSE {v \in @ : ~Full(v)}]
  /\ UNCHANGED room

\* A wrong write, that fans the message out without keeping it.
WriteUnbuffered(s) ==
  /\ SimMoves(s, "reading", "reading")
  /\ MayWrite(s)
  /\ FanOut(s, written[s] + 1, FALSE)
  /\ UNCHANGED <<accepting, hub, written, done>>

\* WriteHeader for the first message, WriteTick for the others.
Write(s) ==
  /\ SimMoves(s, "reading", "reading")
  /\ MayWrite(s)
  /\ written' = [written EXCEPT ![s] = @ + 1]
  /\ FanOut(s, written[s] + 1, FALSE)
  /\ UNCHANGED <<accepting, hub, done>>

\* DONE, the end or an error of the connection, an unknown message, a second
\* header, or a tick before the header.
StopReading(s) ==
  /\ SimMoves(s, "reading", "ending")
  /\ UNCHANGED <<accepting, hub, written, done, subVars>>

\* Round.Done, under the round's mutex.
Finalize(s) ==
  /\ SimMoves(s, "ending", "ended")
  /\ done' = [done EXCEPT ![s] = TRUE]
  /\ FanOut(s, Done, TRUE)
  /\ UNCHANGED <<accepting, hub, written>>

\* Round.Done, under the hub's mutex: whatever has the id is removed.
Unregister(s) ==
  /\ SimMoves(s, "ended", "closed")
  /\ hub' = hub \ Registered(sId[s])
  /\ UNCHANGED <<accepting, written, done, subVars>>
-----------------------------------------------------------------------------
(* The handler of a viewer.                                                *)

ViewerMoves(v, from, to) ==
  /\ Alive
  /\ vPc[v] = from
  /\ vPc' = [vPc EXCEPT ![v] = to]
  /\ UNCHANGED <<hub, simVars, listenVars>>

\* A request that came before the signal may be looked up after it.
Lookup(v) ==
  /\ ViewerMoves(v, "off", "found")
  /\ \E s \in hub : vSim' = [vSim EXCEPT ![v] = s]
  /\ UNCHANGED <<subVars, got>>

NotFound(v) ==
  /\ ViewerMoves(v, "off", "ended")
  /\ \E id \in RoundIds : Registered(id) = {}
  /\ UNCHANGED <<subVars, vSim, got>>

AcceptFails(v) ==
  /\ ViewerMoves(v, "found", "ended")
  /\ UNCHANGED <<subVars, vSim, got>>

\* A wrong size, that forgets the header.
RoomForTicks(s) == (IF written[s] = 0 THEN 0 ELSE written[s] - 1) + LiveBuf

\* A wrong size, of the headroom alone.
HeadroomOnly(s) == LiveBuf

\* 1 + len(tks) + liveBuf.
RoomFor(s) == 1 + (IF written[s] = 0 THEN 0 ELSE written[s] - 1) + LiveBuf

\* A wrong Subscribe, that does not see that the round is over.
SubscribeToLive(v) ==
  /\ ViewerMoves(v, "found", "reading")
  /\ LET s == vSim[v] IN
       /\ room' = [room EXCEPT ![v] = RoomFor(s)]
       /\ chan' = [chan EXCEPT ![v] = Backlog(s)]
       /\ subs' = [subs EXCEPT ![s] = @ \cup {v}]
       /\ UNCHANGED closed
  /\ UNCHANGED <<vSim, got>>

\* Anything may have happened to the round since Lookup.
Subscribe(v) ==
  /\ ViewerMoves(v, "found", "reading")
  /\ LET s == vSim[v] IN
       /\ room' = [room EXCEPT ![v] = RoomFor(s)]
       /\ chan' = [chan EXCEPT ![v] = Backlog(s) \o (IF done[s] THEN <<Done>> ELSE <<>>)]
       /\ closed' = [closed EXCEPT ![v] = done[s]]
       /\ subs' = [subs EXCEPT ![s] = IF done[s] THEN @ ELSE @ \cup {v}]
  /\ UNCHANGED <<vSim, got>>

\* The next message is taken and its write begun; the handler comes back for
\* more when the write is over.
Receive(v) ==
  /\ ViewerMoves(v, "reading", "reading")
  /\ chan[v] # <<>>
  /\ got'  = [got EXCEPT ![v] = Append(@, Head(chan[v]))]
  /\ chan' = [chan EXCEPT ![v] = Tail(@)]
  /\ UNCHANGED <<subs, room, closed, vSim>>

\* A wrong Unsubscribe, that leaves the closed channel in the set.
CloseOnly(v) ==
  LET s == vSim[v] IN
  /\ closed' = [closed EXCEPT ![v] = @ \/ v \in subs[s]]
  /\ UNCHANGED <<subs, chan, room>>

Unsubscribe(v) ==
  LET s == vSim[v] IN
  /\ closed' = [closed EXCEPT ![v] = @ \/ v \in subs[s]]
  /\ subs' = [subs EXCEPT ![s] = @ \ {v}]
  /\ UNCHANGED <<chan, room>>

\* The request's context is done, or a write fails or takes ten seconds.
ViewerLeaves(v) ==
  /\ ViewerMoves(v, "reading", "ended")
  /\ Unsubscribe(v)
  /\ UNCHANGED <<vSim, got>>

\* The channel is closed and drained.
StreamEnded(v) ==
  /\ ViewerMoves(v, "reading", "ended")
  /\ chan[v] = <<>> /\ closed[v]
  /\ UNCHANGED <<subVars, vSim, got>>
-----------------------------------------------------------------------------
(* The listener, and the end of replayd.                                   *)

ServerMoves(from, to) ==
  /\ server = from
  /\ server' = to
  /\ UNCHANGED <<hub, simVars, subVars, viewerVars>>

\* SIGINT or SIGTERM: Shutdown takes no new requests; it waits five seconds for
\* those that have come, but not for a connection that is a WebSocket by now.
Signal == ServerMoves("up", "draining") /\ UNCHANGED accepting

\* Listener.Close, up to its wait: the socket is closed.
CloseSocket == ServerMoves("draining", "closing") /\ UNCHANGED accepting

\* Accept fails, as it must once the socket is closed; any failure ends the loop.
StopAccepting ==
  /\ accepting /\ Alive
  /\ accepting' = FALSE
  /\ UNCHANGED <<hub, simVars, subVars, viewerVars, server>>

Running(s) == sPc[s] \notin {"off", "closed"}

\* A wrong wait, for the connections that have opened a round.
NoneOpen == ~accepting /\ \A s \in Sims : Running(s) => sPc[s] = "hello"

\* The wait group is at zero.
NoneRunning == ~accepting /\ \A s \in Sims : ~Running(s)

\* Close returns and main with it, whatever viewers still read.
Exit == ServerMoves("closing", "exited") /\ NoneRunning /\ UNCHANGED accepting

\* log.Fatalf: the address cannot be listened on, or its accept loop fails, and
\* the process ends there and then, simulators or not.
ServeFails == ServerMoves("up", "failed") /\ UNCHANGED accepting
-----------------------------------------------------------------------------
SimStep(s) ==
  \/ HelloFails(s) \/ OpenRound(s) \/ RefuseRound(s)
  \/ Finalize(s) \/ Unregister(s)

ViewerStep(v) ==
  AcceptFails(v) \/ Subscribe(v) \/ Receive(v) \/ StreamEnded(v)

Next ==
  \/ \E s \in Sims : AcceptConn(s) \/ Write(s) \/ StopReading(s) \/ SimStep(s)
  \/ \E v \in Viewers : Lookup(v) \/ NotFound(v) \/ ViewerLeaves(v) \/ ViewerStep(v)
  \/ Signal \/ CloseSocket \/ StopAccepting \/ Exit \/ ServeFails

Spec == Init /\ [][Next]_vars

\* Handlers run: the hello has a deadline, a write to a viewer has one too, and
\* the rest does not block.  Nothing makes a simulator send or stop, a viewer
\* come or leave.
FairSpec ==
  /\ Spec
  /\ \A s \in Sims : WF_vars(SimStep(s))
  /\ \A v \in Viewers : WF_vars(ViewerStep(v))
-----------------------------------------------------------------------------
Messages == (Nat \ {0}) \cup {Done}

SimPoints == {"off", "hello", "reading", "ending", "ended", "closed"}

\* Every variable keeps its type.  The last conjunct is what keeps the server
\* alive: no channel holds more than its capacity, so neither the backfill nor
\* the final DONE of Subscribe blocks while the round's mutex is held.
TypeOK ==
  /\ hub \subseteq Sims
  /\ sPc     \in [Sims -> SimPoints]
  /\ sId     \in [Sims -> RoundIds]
  /\ written \in [Sims -> Nat]
  /\ done    \in [Sims -> BOOLEAN]
  /\ subs    \in [Sims -> SUBSET Viewers]
  /\ vPc     \in [Viewers -> {"off", "found", "reading", "ended"}]
  /\ vSim    \in [Viewers -> Sims \cup {Nobody}]
  /\ chan    \in [Viewers -> Seq(Messages)]
  /\ room    \in [Viewers -> Nat]
  /\ closed  \in [Viewers -> BOOLEAN]
  /\ got     \in [Viewers -> Seq(Messages)]
  /\ accepting \in BOOLEAN
  /\ server \in {"up", "draining", "closing", "exited", "failed"}
  /\ \A v \in Viewers : Len(chan[v]) <= room[v]

Joined(v) == vPc[v] = "reading"

Stream(s) == Backlog(s) \o (IF done[s] THEN <<Done>> ELSE <<>>)

\* What has been or will be written to a viewer.
Feed(v) == got[v] \o chan[v]

\* However late it joined and however slow it is, a viewer sees the stream of
\* its round from the header on, in order, without a gap or a repetition; as
\* long as it is subscribed nothing is missing from its channel.
InStep ==
  \A v \in Viewers : Joined(v) =>
    LET s == vSim[v] IN
    /\ Len(Feed(v)) <= Len(Stream(s))
    /\ Feed(v) = SubSeq(Stream(s), 1, Len(Feed(v)))
    /\ v \in subs[s] => Feed(v) = Stream(s)

\* The set of subscribers holds open channels only, of viewers that still read
\* them: no fan-out sends on a closed channel and no channel is closed twice,
\* either of which would panic.
SubscribersAreOpen ==
  \A s \in Sims : \A v \in subs[s] : ~closed[v] /\ vSim[v] = s /\ Joined(v)

\* A round that is being written is the one the hub finds under its id, even if
\* another connection announces the same id while the first is being finalized.
HubFindsLiveRound ==
  \A s \in Sims : sPc[s] \in {"reading", "ending", "ended"} =>
    Registered(sId[s]) = {s}

\* A viewer that still reads is cut before the end only if more than the
\* promised headroom waits for it.
CutOnlyLaggards ==
  [][ \A s \in Sims : \A v \in subs[s] :
        v \notin subs'[s] /\ vPc'[v] # "ended" =>
          Len(chan[v]) > LiveBuf \/ Feed(v)' = Stream(s)' ]_vars

\* replayd never exits in the middle of a race once it is told to stop (a failure
\* to listen ends it at once): no handler of a simulator is left,
\* the hub is empty, and a viewer that is cut by the exit could read the rest of
\* its stream, to the end, from a channel that is closed.
ExitIsQuiet ==
  server = "exited" =>
    /\ hub = {} /\ \A s \in Sims : sPc[s] \in {"off", "closed"}
    /\ \A v \in Viewers : Joined(v) => closed[v]

\* Every viewer of a round that has ended is released, those that found it just
\* before and subscribe just after included, unless the program ends first.
EndReleasesViewers ==
  \A v \in Viewers :
    (\E s \in Sims : done[s] /\ vSim[v] = s) ~> vPc[v] = "ended" \/ ~Alive
=============================================================================
