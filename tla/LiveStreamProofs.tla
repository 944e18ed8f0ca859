-------------------------- MODULE LiveStreamProofs ---------------------------
(***************************************************************************)
(* Proofs about LiveStream, for any simulators, viewers and round ids, any *)
(* headroom and any number of messages.                                    *)
(***************************************************************************)
EXTENDS LiveStream, TLAPS

Streaming == {"reading", "ending", "ended"}

\* The hub holds the rounds whose connection streams, one for each id.
HubIsLive ==
  /\ \A s \in Sims : s \in hub <=> sPc[s] \in Streaming
  /\ \A s, t \in hub : sId[s] = sId[t] => s = t

\* Round.Done comes before the round leaves the hub, and leaves no subscriber.
DoneIsLast ==
  \A s \in Sims :
    /\ sPc[s] = "ended" => done[s]
    /\ done[s] => sPc[s] \in {"ended", "closed"} /\ subs[s] = {}

\* The round a viewer has found was opened, and is over only if it is done.
FoundIsOpened ==
  \A v \in Viewers : vPc[v] \in {"found", "reading"} =>
    vSim[v] \in Sims /\ (sPc[vSim[v]] \in Streaming \/ done[vSim[v]])

\* A viewer that reads and is no subscriber any more reads a closed channel.
CutIsClosed ==
  \A v \in Viewers : Joined(v) => closed[v] \/ v \in subs[vSim[v]]

\* A channel has room for the headroom and a message more.
RoomKept == \A v \in Viewers : Joined(v) => room[v] > LiveBuf

\* The stream of a round, message by message.
StreamAt(s, i) == IF i <= written[s] THEN i ELSE Done
StreamLen(s) == written[s] + (IF done[s] THEN 1 ELSE 0)

FedInStep(v, s) ==
  /\ Len(got[v]) + Len(chan[v]) <= StreamLen(s)
  /\ \A i \in 1..Len(got[v]) : got[v][i] = StreamAt(s, i)
  /\ \A i \in 1..Len(chan[v]) : chan[v][i] = StreamAt(s, Len(got[v]) + i)
  /\ v \in subs[s] => Len(got[v]) + Len(chan[v]) = StreamLen(s)

FeedsInStep ==
  \A v \in Viewers :
    /\ vPc[v] \in {"off", "found"} => got[v] = <<>>
    /\ Joined(v) => FedInStep(v, vSim[v])

\* After the exit nothing runs that could bring a connection back.
ExitIsFinal == server = "exited" => ~accepting /\ \A s \in Sims : ~Running(s)

StreamInv ==
  /\ TypeOK /\ HubIsLive /\ DoneIsLast /\ FoundIsOpened /\ SubscribersAreOpen
  /\ CutIsClosed /\ RoomKept /\ FeedsInStep /\ ExitIsFinal
-----------------------------------------------------------------------------
\* What the handlers of one connection or one viewer leave alone.
USE DEF simVars, subVars, viewerVars, listenVars

\* At the start there is nothing to keep in step.
LEMMA InitInv == Init => StreamInv
<1> SUFFICES ASSUME Init PROVE StreamInv
  OBVIOUS
<1>1. TypeOK
  BY DEF Init, TypeOK, SimPoints
<1>2. HubIsLive /\ DoneIsLast /\ FoundIsOpened /\ SubscribersAreOpen /\ CutIsClosed /\ RoomKept
  BY DEF Init, HubIsLive, Streaming, DoneIsLast, FoundIsOpened, SubscribersAreOpen, CutIsClosed,
         RoomKept, Joined
<1>3. FeedsInStep /\ ExitIsFinal
  BY DEF Init, FeedsInStep, Joined, ExitIsFinal
<1> QED BY <1>1, <1>2, <1>3 DEF StreamInv
-----------------------------------------------------------------------------
(* The connection of a simulator.                                          *)

\* A viewer's feed looks at its round's length, at its end and at its subscribers.
LEMMA FeedsFrame ==
  ASSUME FeedsInStep, UNCHANGED <<written, done, subs, vPc, vSim, chan, got>>
  PROVE  FeedsInStep'
  BY DEF FeedsInStep, FedInStep, Joined, StreamAt, StreamLen

\* A handler that has opened no round, or will do no more to it than it has done.
LEMMA HandlerInv ==
  ASSUME StreamInv, NEW s \in Sims,
         AcceptConn(s) \/ HelloFails(s) \/ RefuseRound(s) \/ StopReading(s)
  PROVE  StreamInv'
<1> USE DEF StreamInv, AcceptConn, HelloFails, RefuseRound, StopReading, SimMoves
<1>1. TypeOK'
  <2>1. accepting' \in BOOLEAN
    <3>1. CASE AcceptConn(s)
      BY <3>1
    <3>2. CASE UNCHANGED accepting
      BY <3>2 DEF TypeOK
    <3> QED BY <3>1, <3>2
  <2>2. sPc' \in [Sims -> SimPoints]
    BY DEF TypeOK, SimPoints
  <2>3. UNCHANGED <<hub, sId, written, done, subs, chan, room, closed, vPc, vSim, got, server>>
    OBVIOUS
  <2>4. TypeOK
    OBVIOUS
  <2> HIDE DEF AcceptConn, HelloFails, RefuseRound, StopReading, StreamInv, SimMoves
  <2> QED BY <2>1, <2>2, <2>3, <2>4 DEF TypeOK
<1>2. /\ \A t \in Sims : (sPc'[t] \in Streaming <=> sPc[t] \in Streaming)
      /\ \A t \in Sims : sPc[t] \in {"ended", "closed"} => sPc'[t] = sPc[t]
      /\ \A t \in Sims : sPc'[t] = "ended" => sPc[t] = "ended"
      /\ UNCHANGED <<hub, sId, done, subs, vPc, vSim>>
  BY DEF TypeOK, Streaming
<1>3. HubIsLive' /\ DoneIsLast' /\ FoundIsOpened'
  <2> HIDE DEF AcceptConn, HelloFails, RefuseRound, StopReading, SimMoves
  <2>1. HubIsLive'
    BY <1>2 DEF TypeOK, HubIsLive
  <2>2. DoneIsLast'
    BY <1>2 DEF TypeOK, DoneIsLast
  <2>3. FoundIsOpened'
    BY <1>2 DEF TypeOK, FoundIsOpened
  <2> QED BY <2>1, <2>2, <2>3
<1>4. SubscribersAreOpen' /\ CutIsClosed' /\ RoomKept'
  BY DEF SubscribersAreOpen, CutIsClosed, RoomKept, Joined
<1>5. FeedsInStep'
  BY FeedsFrame
<1>6. ExitIsFinal'
  BY DEF ExitIsFinal, Alive
<1> QED BY <1>1, <1>3, <1>4, <1>5, <1>6

\* Hub.Open: the id was free.
LEMMA OpenRoundInv ==
  ASSUME StreamInv, NEW s \in Sims, OpenRound(s)
  PROVE  StreamInv'
<1> USE DEF StreamInv, OpenRound, SimMoves
<1>1. TypeOK'
  BY DEF TypeOK, SimPoints
<1>2. HubIsLive'
  BY DEF TypeOK, HubIsLive, Streaming, Registered
<1>3. DoneIsLast' /\ FoundIsOpened'
  BY DEF TypeOK, DoneIsLast, FoundIsOpened, Streaming
<1>4. SubscribersAreOpen' /\ CutIsClosed' /\ RoomKept'
  BY DEF SubscribersAreOpen, CutIsClosed, RoomKept, Joined
<1>5. FeedsInStep' /\ ExitIsFinal'
  BY FeedsFrame DEF ExitIsFinal, Alive
<1> QED BY <1>1, <1>2, <1>3, <1>4, <1>5

\* The hub part of Round.Done: it removes no other round, for no other has the id.
LEMMA UnregisterInv ==
  ASSUME StreamInv, NEW s \in Sims, Unregister(s)
  PROVE  StreamInv'
<1> USE DEF StreamInv, Unregister, SimMoves
<1>1. TypeOK'
  BY DEF TypeOK, SimPoints
<1>2. HubIsLive'
  <2>1. Registered(sId[s]) = {s}
    BY DEF TypeOK, HubIsLive, Streaming, Registered
  <2> QED BY <2>1 DEF TypeOK, HubIsLive, Streaming
<1>3. DoneIsLast' /\ FoundIsOpened'
  BY DEF TypeOK, DoneIsLast, FoundIsOpened, Streaming
<1>4. SubscribersAreOpen' /\ CutIsClosed' /\ RoomKept'
  BY DEF SubscribersAreOpen, CutIsClosed, RoomKept, Joined
<1>5. FeedsInStep' /\ ExitIsFinal'
  BY FeedsFrame DEF ExitIsFinal, Alive
<1> QED BY <1>1, <1>2, <1>3, <1>4, <1>5

\* What a fan-out leaves of a channel.
LEMMA FanOutType ==
  ASSUME TypeOK, NEW s \in Sims, NEW m \in Messages, NEW last \in BOOLEAN, FanOut(s, m, last)
  PROVE  /\ subs' \in [Sims -> SUBSET Viewers] /\ closed' \in [Viewers -> BOOLEAN]
         /\ chan' \in [Viewers -> Seq(Messages)]
         /\ \A v \in Viewers :
              IF v \in subs[s] /\ ~Full(v)
              THEN /\ Len(chan'[v]) = Len(chan[v]) + 1 /\ Len(chan'[v]) <= room[v]
                   /\ chan'[v][Len(chan[v]) + 1] = m
                   /\ \A i \in 1..Len(chan[v]) : chan'[v][i] = chan[v][i]
              ELSE chan'[v] = chan[v]
<1>1. \A v \in Viewers : chan[v] \in Seq(Messages) /\ Len(chan[v]) \in Nat /\ room[v] \in Nat
  BY DEF TypeOK
<1>2. \A v \in Viewers : Append(chan[v], m) \in Seq(Messages)
  BY <1>1
<1>3. chan' \in [Viewers -> Seq(Messages)]
  BY <1>1, <1>2 DEF FanOut
<1>4. ASSUME NEW v \in Viewers, v \in subs[s], ~Full(v)
      PROVE  /\ Len(chan'[v]) = Len(chan[v]) + 1 /\ Len(chan'[v]) <= room[v]
             /\ chan'[v][Len(chan[v]) + 1] = m
             /\ \A i \in 1..Len(chan[v]) : chan'[v][i] = chan[v][i]
  <2>1. chan'[v] = Append(chan[v], m)
    BY <1>4 DEF FanOut
  <2>2. Len(chan[v]) < room[v]
    BY <1>1, <1>4 DEF Full
  <2> QED BY <1>1, <2>1, <2>2
<1>5. \A v \in Viewers : ~(v \in subs[s] /\ ~Full(v)) => chan'[v] = chan[v]
  BY DEF FanOut
<1>6. subs' \in [Sims -> SUBSET Viewers] /\ closed' \in [Viewers -> BOOLEAN]
  BY DEF TypeOK, FanOut
<1> QED BY <1>3, <1>4, <1>5, <1>6

\* A fan-out closes the channels of those it lets go, and of no one else.
LEMMA FanOutSubscribers ==
  ASSUME TypeOK, SubscribersAreOpen, CutIsClosed, FoundIsOpened, NEW s \in Sims, NEW m,
         NEW last \in BOOLEAN, FanOut(s, m, last), UNCHANGED <<vPc, vSim>>
  PROVE  SubscribersAreOpen' /\ CutIsClosed'
<1>1. \A v \in Viewers : v \in subs'[s] <=> v \in subs[s] /\ ~last /\ ~Full(v)
  BY DEF TypeOK, FanOut
<1>2. \A t \in Sims \ {s} : subs'[t] = subs[t]
  BY DEF TypeOK, FanOut
<1>3. \A v \in Viewers : closed'[v] <=> closed[v] \/ (v \in subs[s] /\ (last \/ Full(v)))
  BY DEF TypeOK, FanOut
<1>4. SubscribersAreOpen'
  <2> SUFFICES ASSUME NEW t \in Sims, NEW v \in subs'[t]
               PROVE  ~closed'[v] /\ vSim[v] = t /\ Joined(v)
    BY DEF SubscribersAreOpen, Joined
  <2>1. v \in subs[t] /\ v \in Viewers
    BY <1>1, <1>2 DEF TypeOK, FanOut
  <2>2. ~closed[v] /\ vSim[v] = t /\ Joined(v)
    BY <2>1 DEF SubscribersAreOpen
  <2>3. t = s => ~last /\ ~Full(v)
    BY <1>1, <2>1
  <2>4. t # s => v \notin subs[s]
    BY <2>2 DEF SubscribersAreOpen
  <2> QED BY <1>3, <2>1, <2>2, <2>3, <2>4
<1>5. CutIsClosed'
  BY <1>1, <1>2, <1>3 DEF CutIsClosed, Joined, FoundIsOpened
<1> QED BY <1>4, <1>5

\* A fan-out of the next message of a round keeps the feeds of its viewers in
\* step: a subscriber with room gets it, the others are subscribers no more.
LEMMA FanOutFeeds ==
  ASSUME StreamInv, NEW s \in Sims, NEW m \in Messages, NEW last \in BOOLEAN,
         FanOut(s, m, last), UNCHANGED <<vPc, vSim, got>>,
         \A t \in Sims \ {s} : written'[t] = written[t] /\ done'[t] = done[t],
         NEW n \in Nat, n = StreamLen(s), StreamLen(s)' = n + 1, StreamAt(s, n + 1)' = m,
         \A i \in 1..n : StreamAt(s, i)' = StreamAt(s, i)
  PROVE  FeedsInStep'
<1>1. TypeOK /\ SubscribersAreOpen /\ FeedsInStep /\ FoundIsOpened
  BY DEF StreamInv
<1>2. SUFFICES ASSUME NEW v \in Viewers, Joined(v), NEW t \in Sims, t = vSim[v]
               PROVE  FedInStep(v, t)'
  BY <1>1, <1>2 DEF FeedsInStep, Joined, FoundIsOpened
<1>3. FedInStep(v, t)
  BY <1>1, <1>2 DEF FeedsInStep
<1>4. got'[v] = got[v]
  OBVIOUS
<1>5. got \in [Viewers -> Seq(Messages)] /\ chan \in [Viewers -> Seq(Messages)]
  BY <1>1 DEF TypeOK
<1>6. t = s => StreamLen(t) = n /\ StreamLen(t)' = n + 1
  OBVIOUS
<1>7. v \in subs'[t] => v \in subs[t] /\ (t = s => ~Full(v))
  BY <1>1 DEF TypeOK, FanOut
<1>8. CASE t # s
  <2>1. v \notin subs[s]
    BY <1>1, <1>2, <1>8 DEF SubscribersAreOpen
  <2>2. chan'[v] = chan[v]
    BY <1>1, <2>1 DEF TypeOK, FanOut
  <2> QED BY <1>3, <1>4, <1>7, <1>8, <2>2 DEF FedInStep, StreamAt, StreamLen
<1>9. CASE t = s /\ v \in subs[s] /\ ~Full(v)
  <2>1. /\ Len(chan'[v]) = Len(chan[v]) + 1 /\ chan'[v][Len(chan[v]) + 1] = m
        /\ \A i \in 1..Len(chan[v]) : chan'[v][i] = chan[v][i]
    BY <1>1, <1>9, FanOutType
  <2>2. Len(got[v]) + Len(chan[v]) = n
    BY <1>3, <1>9 DEF FedInStep
  <2>3. ASSUME NEW i \in 1..Len(got[v])
        PROVE  got'[v][i] = StreamAt(s, i)'
    <3>1. i \in 1..n /\ got[v][i] = StreamAt(s, i)
      BY <1>3, <1>5, <1>9, <2>2 DEF FedInStep
    <3> QED BY <1>4, <3>1
  <2>4. ASSUME NEW i \in 1..Len(chan'[v]), NEW k \in Nat, k = Len(got[v]) + i
        PROVE  chan'[v][i] = StreamAt(s, k)'
    <3>1. CASE i = Len(chan[v]) + 1
      <4>1. k = n + 1
        BY <1>5, <2>2, <2>4, <3>1
      <4> QED BY <2>1, <3>1, <4>1
    <3>2. CASE i \in 1..Len(chan[v])
      <4>1. chan'[v][i] = StreamAt(s, k)
        BY <1>3, <1>9, <2>1, <2>4, <3>2 DEF FedInStep
      <4>2. k \in 1..n
        BY <1>5, <2>2, <2>4, <3>2
      <4> QED BY <4>1, <4>2
    <3> QED BY <1>5, <2>1, <3>1, <3>2
  <2>5. Len(got[v]) \in Nat /\ Len(chan[v]) \in Nat
    BY <1>5
  <2>6. \A i \in 1..Len(chan'[v]) : Len(got[v]) + i \in Nat
    BY <2>1, <2>5
  <2>7. \A i \in 1..Len(chan'[v]) : chan'[v][i] = StreamAt(s, Len(got[v]) + i)'
    BY <1>4, <2>4, <2>6
  <2>8. /\ Len(got'[v]) + Len(chan'[v]) = StreamLen(t)'
        /\ Len(got'[v]) + Len(chan'[v]) <= StreamLen(t)'
    <3> DEFINE g == Len(got[v])
               h == Len(chan[v])
    <3>1. g \in Nat /\ h \in Nat /\ g + h = n /\ Len(chan'[v]) = h + 1
      BY <2>1, <2>2, <2>5
    <3>2. StreamLen(t)' = n + 1 /\ Len(got'[v]) = g
      BY <1>4, <1>6, <1>9
    <3> HIDE DEF g, h
    <3> QED BY <3>1, <3>2
  <2>9. \A i \in 1..Len(got'[v]) : got'[v][i] = StreamAt(t, i)'
    BY <1>4, <1>9, <2>3
  <2>10. \A i \in 1..Len(chan'[v]) : chan'[v][i] = StreamAt(t, Len(got[v]) + i)'
    BY <1>9, <2>7
  <2> QED BY <2>8, <2>9, <2>10 DEF FedInStep
<1>10. CASE t = s /\ ~(v \in subs[s] /\ ~Full(v))
  <2>1. chan'[v] = chan[v]
    BY <1>1, <1>10, FanOutType
  <2>2. Len(got[v]) + Len(chan[v]) <= n
    BY <1>3, <1>10 DEF FedInStep
  <2>3. ASSUME NEW i \in 1..Len(got[v])
        PROVE  got'[v][i] = StreamAt(s, i)'
    <3>1. i \in 1..n /\ got[v][i] = StreamAt(s, i)
      BY <1>3, <1>5, <1>10, <2>2 DEF FedInStep
    <3> QED BY <1>4, <3>1
  <2>4. ASSUME NEW i \in 1..Len(chan[v]), NEW k \in Nat, k = Len(got[v]) + i
        PROVE  chan'[v][i] = StreamAt(s, k)'
    <3>1. k \in 1..n
      BY <1>5, <2>2, <2>4
    <3>2. chan'[v][i] = StreamAt(s, k)
      BY <1>3, <1>10, <2>1, <2>4 DEF FedInStep
    <3> QED BY <3>1, <3>2
  <2> QED BY <1>4, <1>5, <1>6, <1>7, <1>10, <2>1, <2>2, <2>3, <2>4 DEF FedInStep
<1> QED BY <1>8, <1>9, <1>10

\* WriteHeader and WriteTick, while the round is not done.
LEMMA WriteInv ==
  ASSUME StreamInv, NEW s \in Sims, Write(s)
  PROVE  StreamInv'
<1>1. /\ sPc' = sPc /\ written' = [written EXCEPT ![s] = @ + 1] /\ FanOut(s, written[s] + 1, FALSE)
      /\ sPc[s] = "reading" /\ Alive
      /\ UNCHANGED <<hub, sId, done, vPc, vSim, got, room, accepting, server>>
  BY DEF StreamInv, TypeOK, Write, SimMoves, FanOut
<1>2. TypeOK /\ SubscribersAreOpen /\ CutIsClosed /\ FoundIsOpened
  BY DEF StreamInv
<1>3. written[s] \in Nat /\ written[s] + 1 \in Messages /\ ~done[s]
  BY <1>1 DEF StreamInv, TypeOK, Messages, DoneIsLast
<1>4. TypeOK'
  <2>1. /\ subs' \in [Sims -> SUBSET Viewers] /\ closed' \in [Viewers -> BOOLEAN]
        /\ chan' \in [Viewers -> Seq(Messages)]
        /\ \A v \in Viewers : Len(chan'[v]) <= room[v]
    BY <1>1, <1>2, <1>3, FanOutType DEF TypeOK
  <2>2. written' \in [Sims -> Nat]
    BY <1>1, <1>2 DEF TypeOK
  <2> QED BY <1>1, <1>2, <2>1, <2>2 DEF TypeOK
<1>5. HubIsLive' /\ FoundIsOpened' /\ RoomKept' /\ ExitIsFinal'
  BY <1>1 DEF StreamInv, HubIsLive, FoundIsOpened, RoomKept, ExitIsFinal, Joined, Running
<1>6. DoneIsLast'
  BY <1>1, <1>2 DEF StreamInv, TypeOK, DoneIsLast, FanOut
<1>7. SubscribersAreOpen' /\ CutIsClosed'
  BY <1>1, <1>2, FanOutSubscribers
<1>8. FeedsInStep'
  <2>1. \A t \in Sims \ {s} : written'[t] = written[t] /\ done'[t] = done[t]
    BY <1>1, <1>2 DEF TypeOK
  <2>2. written'[s] = written[s] + 1 /\ ~done'[s]
    BY <1>1, <1>2, <1>3 DEF TypeOK
  <2>3. PICK n \in Nat : n = written[s]
    BY <1>3
  <2>4. n = StreamLen(s) /\ StreamLen(s)' = n + 1
    BY <1>3, <2>2, <2>3 DEF StreamLen
  <2>5. StreamAt(s, n + 1)' = written[s] + 1 /\ \A i \in 1..n : StreamAt(s, i)' = StreamAt(s, i)
    BY <1>3, <2>2, <2>3 DEF StreamAt
  <2> QED BY <1>1, <1>3, <2>1, <2>4, <2>5, FanOutFeeds
<1> QED BY <1>4, <1>5, <1>6, <1>7, <1>8 DEF StreamInv

\* The round part of Round.Done: DONE is the last message, and no subscriber is left.
LEMMA FinalizeInv ==
  ASSUME StreamInv, NEW s \in Sims, Finalize(s)
  PROVE  StreamInv'
<1>1. /\ sPc' = [sPc EXCEPT ![s] = "ended"] /\ done' = [done EXCEPT ![s] = TRUE]
      /\ FanOut(s, Done, TRUE) /\ sPc[s] = "ending" /\ Alive
      /\ UNCHANGED <<hub, sId, written, vPc, vSim, got, room, accepting, server>>
  BY DEF Finalize, SimMoves, FanOut
<1>2. TypeOK /\ SubscribersAreOpen /\ CutIsClosed /\ FoundIsOpened
  BY DEF StreamInv
<1>3. written[s] \in Nat /\ Done \in Messages /\ ~done[s]
  BY <1>1 DEF StreamInv, TypeOK, Messages, DoneIsLast
<1>4. TypeOK'
  <2>1. /\ subs' \in [Sims -> SUBSET Viewers] /\ closed' \in [Viewers -> BOOLEAN]
        /\ chan' \in [Viewers -> Seq(Messages)]
        /\ \A v \in Viewers : Len(chan'[v]) <= room[v]
    BY <1>1, <1>2, <1>3, FanOutType DEF TypeOK
  <2>2. done' \in [Sims -> BOOLEAN] /\ sPc' \in [Sims -> SimPoints]
    BY <1>1, <1>2 DEF TypeOK, SimPoints
  <2> QED BY <1>1, <1>2, <2>1, <2>2 DEF TypeOK
<1>5. HubIsLive' /\ RoomKept' /\ ExitIsFinal'
  BY <1>1, <1>2 DEF StreamInv, TypeOK, HubIsLive, Streaming, RoomKept, ExitIsFinal, Joined, Running
<1>6. DoneIsLast' /\ FoundIsOpened'
  BY <1>1, <1>2 DEF StreamInv, TypeOK, DoneIsLast, FoundIsOpened, Streaming, FanOut
<1>7. SubscribersAreOpen' /\ CutIsClosed'
  BY <1>1, <1>2, FanOutSubscribers
<1>8. FeedsInStep'
  <2>1. \A t \in Sims \ {s} : written'[t] = written[t] /\ done'[t] = done[t]
    BY <1>1, <1>2 DEF TypeOK
  <2>2. written'[s] = written[s] /\ done'[s]
    BY <1>1, <1>2, <1>3 DEF TypeOK
  <2>3. PICK n \in Nat : n = written[s]
    BY <1>3
  <2>4. n = StreamLen(s) /\ StreamLen(s)' = n + 1
    BY <1>3, <2>2, <2>3 DEF StreamLen
  <2>5. StreamAt(s, n + 1)' = Done /\ \A i \in 1..n : StreamAt(s, i)' = StreamAt(s, i)
    BY <1>3, <2>2, <2>3 DEF StreamAt
  <2> QED BY <1>1, <1>3, <2>1, <2>4, <2>5, FanOutFeeds
<1> QED BY <1>4, <1>5, <1>6, <1>7, <1>8 DEF StreamInv
-----------------------------------------------------------------------------
(* The handler of a viewer.                                                *)

\* A viewer that does not read yet, or that ends before it does.
LEMMA LookingInv ==
  ASSUME StreamInv, NEW v \in Viewers, Lookup(v) \/ NotFound(v) \/ AcceptFails(v)
  PROVE  StreamInv'
<1> DEFINE T == {"off", "found", "reading", "ended"}
<1>1. /\ vPc[v] \in {"off", "found"} /\ Alive
      /\ vPc' = [vPc EXCEPT ![v] = "found"] \/ vPc' = [vPc EXCEPT ![v] = "ended"]
      /\ \/ vPc' = [vPc EXCEPT ![v] = "found"] /\ \E s \in hub : vSim' = [vSim EXCEPT ![v] = s]
         \/ vPc' = [vPc EXCEPT ![v] = "ended"] /\ vSim' = vSim
      /\ UNCHANGED <<hub, sPc, sId, written, done, subs, chan, room, closed, got, accepting, server>>
  BY DEF Lookup, NotFound, AcceptFails, ViewerMoves
<1>2. TypeOK
  BY DEF StreamInv
<1>3. vPc' \in [Viewers -> T] /\ vSim' \in [Viewers -> Sims \cup {Nobody}]
  BY ZenonT(30), <1>1, <1>2 DEF TypeOK
<1>4. TypeOK'
  BY <1>1, <1>2, <1>3 DEF TypeOK
<1>5. \A w \in Viewers : /\ Joined(w)' <=> Joined(w)
                         /\ Joined(w) => vSim'[w] = vSim[w]
  BY <1>1, <1>2 DEF TypeOK, Joined
<1>6. HubIsLive' /\ DoneIsLast' /\ ExitIsFinal'
  BY <1>1 DEF StreamInv, HubIsLive, DoneIsLast, ExitIsFinal, Running
<1>7. FoundIsOpened'
  <2> SUFFICES ASSUME NEW w \in Viewers, vPc'[w] \in {"found", "reading"}
               PROVE  vSim'[w] \in Sims /\ (sPc[vSim'[w]] \in Streaming \/ done[vSim'[w]])
    BY <1>1 DEF FoundIsOpened
  <2>1. CASE w # v
    BY <1>1, <1>2, <2>1 DEF StreamInv, TypeOK, FoundIsOpened
  <2>2. CASE w = v
    <3>1. vPc'[v] = "found"
      BY <1>1, <1>2, <2>2 DEF TypeOK
    <3>2. CASE vPc' = [vPc EXCEPT ![v] = "found"] /\ \E s \in hub : vSim' = [vSim EXCEPT ![v] = s]
      BY <1>2, <2>2, <3>2 DEF StreamInv, TypeOK, HubIsLive
    <3>3. CASE vPc' = [vPc EXCEPT ![v] = "ended"] /\ vSim' = vSim
      BY <1>2, <3>1, <3>3 DEF TypeOK
    <3> QED BY <1>1, <3>2, <3>3
  <2> QED BY <2>1, <2>2
<1>8. SubscribersAreOpen' /\ CutIsClosed' /\ RoomKept'
  BY <1>1, <1>2, <1>5 DEF StreamInv, TypeOK, SubscribersAreOpen, CutIsClosed, RoomKept
<1>9. FeedsInStep'
  <2>1. FeedsInStep
    BY DEF StreamInv
  <2>2. \A w \in Viewers : Joined(w)' => FedInStep(w, vSim[w])'
    BY ZenonT(30), <1>1, <1>5, <2>1 DEF FeedsInStep, FedInStep, StreamAt, StreamLen
  <2>3. \A w \in Viewers : vPc'[w] \in {"off", "found"} => vPc[w] \in {"off", "found"}
    BY <1>1, <1>2 DEF TypeOK
  <2> QED BY <1>1, <1>5, <2>1, <2>2, <2>3 DEF FeedsInStep
<1> QED BY <1>4, <1>6, <1>7, <1>8, <1>9 DEF StreamInv

\* What Subscribe puts into the channel: the stream so far.
LEMMA BacklogIsStream ==
  ASSUME TypeOK, NEW s \in Sims
  PROVE  /\ Stream(s) \in Seq(Messages) /\ Len(Stream(s)) = StreamLen(s)
         /\ \A i \in 1..Len(Stream(s)) : Stream(s)[i] = StreamAt(s, i)
<1>1. written[s] \in Nat
  BY DEF TypeOK
<1>2. Backlog(s) \in Seq(Messages) /\ Len(Backlog(s)) = written[s]
  BY <1>1 DEF Backlog, Messages
<1>3. CASE done[s]
  <2>1. Stream(s) = Backlog(s) \o <<Done>> /\ <<Done>> \in Seq(Messages)
    BY <1>3 DEF Stream, Messages
  <2> QED BY <1>1, <1>2, <1>3, <2>1 DEF StreamLen, StreamAt, Backlog
<1>4. CASE ~done[s]
  <2>1. Stream(s) = Backlog(s)
    BY <1>2, <1>4 DEF Stream
  <2> QED BY <1>1, <1>2, <1>4, <2>1 DEF StreamLen, StreamAt, Backlog
<1> QED BY <1>3, <1>4

\* Round.Subscribe, to a round that streams or one that is done.
LEMMA SubscribeInv ==
  ASSUME StreamInv, NEW v \in Viewers, Subscribe(v)
  PROVE  StreamInv'
<1>1. TypeOK /\ vPc[v] = "found"
  BY DEF StreamInv, Subscribe, ViewerMoves
<1>2. PICK s \in Sims : s = vSim[v]
  BY <1>1 DEF StreamInv, FoundIsOpened
<1>3. /\ room' = [room EXCEPT ![v] = RoomFor(s)]
      /\ chan' = [chan EXCEPT ![v] = Stream(s)]
      /\ closed' = [closed EXCEPT ![v] = done[s]]
      /\ subs' = [subs EXCEPT ![s] = IF done[s] THEN @ ELSE @ \cup {v}]
      /\ vPc' = [vPc EXCEPT ![v] = "reading"] /\ Alive
      /\ UNCHANGED <<hub, sPc, sId, written, done, vSim, got, accepting, server>>
  BY <1>2 DEF Subscribe, ViewerMoves, Stream
<1>4. /\ Stream(s) \in Seq(Messages) /\ Len(Stream(s)) = StreamLen(s)
      /\ \A i \in 1..Len(Stream(s)) : Stream(s)[i] = StreamAt(s, i)
  BY <1>1, BacklogIsStream
<1>5. written[s] \in Nat /\ done[s] \in BOOLEAN /\ LiveBuf \in Nat \ {0}
  BY <1>1, StreamAssumption DEF TypeOK
<1>6. RoomFor(s) \in Nat /\ RoomFor(s) > LiveBuf /\ StreamLen(s) <= RoomFor(s)
  <2>1. CASE written[s] = 0
    BY <1>5, <2>1 DEF RoomFor, StreamLen
  <2>2. CASE written[s] # 0
    BY <1>5, <2>2 DEF RoomFor, StreamLen
  <2> QED BY <2>1, <2>2
<1>7. TypeOK'
  <2>1. room' \in [Viewers -> Nat] /\ chan' \in [Viewers -> Seq(Messages)]
    BY <1>1, <1>3, <1>4, <1>6 DEF TypeOK
  <2>2. closed' \in [Viewers -> BOOLEAN]
    BY <1>1, <1>3, <1>5 DEF TypeOK
  <2>3. subs' \in [Sims -> SUBSET Viewers]
    BY <1>1, <1>3 DEF TypeOK
  <2>4. \A w \in Viewers : Len(chan'[w]) <= room'[w]
    BY <1>1, <1>3, <1>4, <1>6 DEF TypeOK
  <2>5. vPc' \in [Viewers -> {"off", "found", "reading", "ended"}]
    BY <1>1, <1>3 DEF TypeOK
  <2> QED BY <1>1, <1>3, <2>1, <2>2, <2>3, <2>4, <2>5 DEF TypeOK
<1>8. HubIsLive' /\ DoneIsLast' /\ ExitIsFinal'
  BY <1>1, <1>3 DEF StreamInv, TypeOK, HubIsLive, DoneIsLast, ExitIsFinal, Running
<1>9. FoundIsOpened' /\ RoomKept'
  BY <1>1, <1>3, <1>6 DEF StreamInv, TypeOK, FoundIsOpened, RoomKept, Joined
<1>10. SubscribersAreOpen' /\ CutIsClosed'
  <2>1. \A t \in Sims : v \notin subs[t]
    BY <1>1 DEF StreamInv, SubscribersAreOpen, Joined
  <2>2. \A t \in Sims : \A w \in subs'[t] : w \in subs[t] \/ (w = v /\ t = s /\ ~done[s])
    BY <1>1, <1>3 DEF TypeOK
  <2>3. v \in subs'[s] \/ closed'[v]
    BY <1>1, <1>3 DEF TypeOK
  <2>4. SubscribersAreOpen'
    BY <1>1, <1>2, <1>3, <2>1, <2>2 DEF StreamInv, TypeOK, SubscribersAreOpen, Joined
  <2>5. CutIsClosed'
    BY <1>1, <1>2, <1>3, <2>3 DEF StreamInv, TypeOK, CutIsClosed, Joined
  <2> QED BY <2>4, <2>5
<1>11. FeedsInStep'
  <2>1. FeedsInStep /\ got[v] = <<>>
    BY <1>1 DEF StreamInv, FeedsInStep
  <2>2. Len(got[v]) = 0 /\ got'[v] = got[v] /\ chan'[v] = Stream(s)
    BY <1>1, <1>3, <2>1 DEF TypeOK
  <2>3. FedInStep(v, s)'
    BY <1>3, <1>4, <2>2 DEF FedInStep, StreamAt, StreamLen
  <2>4. ASSUME NEW w \in Viewers \ {v}, Joined(w)
        PROVE  FedInStep(w, vSim[w])'
    <3>1. w \in subs'[vSim[w]] => w \in subs[vSim[w]]
      BY <1>1, <1>3 DEF TypeOK
    <3>2. chan'[w] = chan[w] /\ FedInStep(w, vSim[w])
      BY <1>1, <1>3, <2>1, <2>4 DEF TypeOK, FeedsInStep
    <3> QED BY <1>3, <3>1, <3>2 DEF FedInStep, StreamAt, StreamLen
  <2>5. \A w \in Viewers \ {v} : vPc'[w] = vPc[w]
    BY <1>1, <1>3 DEF TypeOK
  <2>6. vPc'[v] = "reading" /\ vSim' = vSim /\ got' = got
    BY <1>1, <1>3 DEF TypeOK
  <2> QED BY <1>2, <2>1, <2>3, <2>4, <2>5, <2>6 DEF FeedsInStep, Joined
<1> QED BY <1>7, <1>8, <1>9, <1>10, <1>11 DEF StreamInv

\* A message moves from the channel to what the viewer got.
LEMMA ReceiveInv ==
  ASSUME StreamInv, NEW v \in Viewers, Receive(v)
  PROVE  StreamInv'
<1>1. /\ chan[v] # <<>> /\ vPc[v] = "reading" /\ Alive
      /\ got'  = [got EXCEPT ![v] = Append(@, Head(chan[v]))]
      /\ chan' = [chan EXCEPT ![v] = Tail(@)]
      /\ vPc' = [vPc EXCEPT ![v] = "reading"]
      /\ UNCHANGED <<hub, sPc, sId, written, done, subs, room, closed, vSim, accepting, server>>
  BY DEF Receive, ViewerMoves
<1>2. TypeOK
  BY DEF StreamInv
<1>3. vPc' = vPc
  BY <1>1, <1>2 DEF TypeOK
<1>4. got \in [Viewers -> Seq(Messages)] /\ chan \in [Viewers -> Seq(Messages)]
  BY <1>2 DEF TypeOK
<1>5. /\ Append(got[v], Head(chan[v])) \in Seq(Messages) /\ Tail(chan[v]) \in Seq(Messages)
      /\ Len(Tail(chan[v])) = Len(chan[v]) - 1
      /\ Len(Append(got[v], Head(chan[v]))) = Len(got[v]) + 1
      /\ Len(chan[v]) \in Nat \ {0}
      /\ got'[v] = Append(got[v], Head(chan[v])) /\ chan'[v] = Tail(chan[v])
  BY <1>1, <1>4
<1>6. got' \in [Viewers -> Seq(Messages)] /\ chan' \in [Viewers -> Seq(Messages)]
  BY <1>1, <1>4, <1>5
<1>7. \A w \in Viewers \ {v} : got'[w] = got[w] /\ chan'[w] = chan[w]
  BY <1>1, <1>4
<1>8. TypeOK'
  <2>1. ASSUME NEW w \in Viewers
        PROVE  Len(chan'[w]) <= room[w]
    <3>1. Len(chan[w]) <= room[w] /\ room[w] \in Nat
      BY <1>2 DEF TypeOK
    <3>2. CASE w = v
      BY <1>4, <1>5, <3>1, <3>2
    <3>3. CASE w # v
      BY <1>7, <3>1, <3>3
    <3> QED BY <3>2, <3>3
  <2> QED BY <1>1, <1>2, <1>3, <1>6, <2>1 DEF TypeOK
<1>9. HubIsLive' /\ DoneIsLast' /\ ExitIsFinal' /\ FoundIsOpened' /\ RoomKept'
  BY <1>1, <1>3 DEF StreamInv, HubIsLive, DoneIsLast, ExitIsFinal, Running, FoundIsOpened, RoomKept,
                    Joined
<1>10. SubscribersAreOpen' /\ CutIsClosed'
  BY <1>1, <1>3 DEF StreamInv, SubscribersAreOpen, CutIsClosed, Joined
<1>11. FeedsInStep'
  <2>1. FeedsInStep /\ FedInStep(v, vSim[v])
    BY <1>1 DEF StreamInv, FeedsInStep, Joined
  <2>a. PICK a \in Nat : a = Len(got[v])
    BY <1>4
  <2>b. PICK b \in Nat : b = Len(chan[v])
    BY <1>4
  <2>2. a = Len(got[v]) /\ b = Len(chan[v])
    BY <2>a, <2>b
  <2>3. Len(got'[v]) = a + 1 /\ Len(chan'[v]) = b - 1
    BY <1>5, <2>2
  <2>4. \A i \in 1..a : got'[v][i] = StreamAt(vSim[v], i)
    BY <1>4, <1>5, <2>1, <2>2 DEF FedInStep
  <2>5. got'[v][a + 1] = StreamAt(vSim[v], a + 1)
    <3>1. got'[v][a + 1] = chan[v][1]
      BY <1>1, <1>4, <1>5, <2>2
    <3>2. 1 \in 1..Len(chan[v])
      BY <1>5
    <3>3. chan[v][1] = StreamAt(vSim[v], a + 1)
      BY <2>1, <2>2, <3>2 DEF FedInStep
    <3> QED BY <3>1, <3>3
  <2>6. ASSUME NEW i \in 1..(b - 1)
        PROVE  chan'[v][i] = StreamAt(vSim[v], (a + 1) + i)
    <3>1. chan'[v][i] = chan[v][i + 1]
      BY <1>1, <1>4, <1>5, <2>2
    <3>2. i + 1 \in 1..b /\ a + (i + 1) = (a + 1) + i
      OBVIOUS
    <3>3. chan[v][i + 1] = StreamAt(vSim[v], a + (i + 1))
      BY <2>1, <2>2, <3>2 DEF FedInStep
    <3> QED BY <3>1, <3>2, <3>3
  <2>7. a + b = (a + 1) + (b - 1)
    OBVIOUS
  <2>8. \A i \in 1..(a + 1) : got'[v][i] = StreamAt(vSim[v], i)
    BY <2>4, <2>5
  <2>9. FedInStep(v, vSim[v])'
    <3>1. /\ Len(got'[v]) + Len(chan'[v]) <= StreamLen(vSim[v])
          /\ v \in subs[vSim[v]] => Len(got'[v]) + Len(chan'[v]) = StreamLen(vSim[v])
      BY <2>1, <2>2, <2>3, <2>7 DEF FedInStep
    <3>2. \A i \in 1..Len(got'[v]) : got'[v][i] = StreamAt(vSim[v], i)
      BY <2>3, <2>8
    <3>3. \A i \in 1..Len(chan'[v]) : chan'[v][i] = StreamAt(vSim[v], Len(got'[v]) + i)
      BY <2>3, <2>6
    <3>4. UNCHANGED <<written, done, subs, vSim>>
      BY <1>1
    <3>5. (Len(got[v]) + Len(chan[v]) <= StreamLen(vSim[v]))'
      BY <3>1, <3>4 DEF StreamLen
    <3>6. (v \in subs[vSim[v]] => Len(got[v]) + Len(chan[v]) = StreamLen(vSim[v]))'
      BY <3>1, <3>4 DEF StreamLen
    <3>7. (\A i \in 1..Len(got[v]) : got[v][i] = StreamAt(vSim[v], i))'
      BY <3>2, <3>4 DEF StreamAt
    <3>8. (\A i \in 1..Len(chan[v]) : chan[v][i] = StreamAt(vSim[v], Len(got[v]) + i))'
      BY <3>3, <3>4 DEF StreamAt
    <3> QED BY <3>5, <3>6, <3>7, <3>8 DEF FedInStep
  <2>10. ASSUME NEW w \in Viewers \ {v}, Joined(w)
         PROVE  FedInStep(w, vSim[w])'
    <3>1. FedInStep(w, vSim[w])
      BY <2>1, <2>10 DEF FeedsInStep
    <3> QED BY ZenonT(30), <1>1, <1>7, <3>1 DEF FedInStep, StreamAt, StreamLen
  <2> QED BY <1>1, <1>3, <1>7, <2>1, <2>9, <2>10 DEF FeedsInStep, Joined
<1> QED BY <1>8, <1>9, <1>10, <1>11 DEF StreamInv

\* Unsubscribe, and the end of a stream that was closed before.
LEMMA EndingInv ==
  ASSUME StreamInv, NEW v \in Viewers, ViewerLeaves(v) \/ StreamEnded(v)
  PROVE  StreamInv'
<1>1. /\ vPc[v] = "reading" /\ vPc' = [vPc EXCEPT ![v] = "ended"] /\ Alive
      /\ UNCHANGED <<hub, sPc, sId, written, done, chan, room, vSim, got, accepting, server>>
  BY DEF ViewerLeaves, StreamEnded, ViewerMoves, Unsubscribe
<1>2. TypeOK /\ SubscribersAreOpen
  BY DEF StreamInv
<1>3. vSim[v] \in Sims
  BY <1>1 DEF StreamInv, FoundIsOpened
<1>4. /\ subs' \in [Sims -> SUBSET Viewers] /\ closed' \in [Viewers -> BOOLEAN]
      /\ \A t \in Sims : subs'[t] = subs[t] \ {v}
      /\ \A w \in Viewers \ {v} : closed'[w] = closed[w]
  <2>1. CASE ViewerLeaves(v)
    <3>1. \A t \in Sims : v \in subs[t] => t = vSim[v]
      BY <1>2 DEF SubscribersAreOpen
    <3>2. \A t \in Sims : subs'[t] = subs[t] \ {v}
      BY <1>2, <1>3, <2>1, <3>1 DEF TypeOK, ViewerLeaves, Unsubscribe
    <3>3. /\ closed' = [closed EXCEPT ![v] = @ \/ v \in subs[vSim[v]]]
          /\ subs' = [subs EXCEPT ![vSim[v]] = @ \ {v}]
      BY <2>1 DEF ViewerLeaves, Unsubscribe
    <3>4. closed' \in [Viewers -> BOOLEAN] /\ \A w \in Viewers \ {v} : closed'[w] = closed[w]
      BY <1>2, <3>3 DEF TypeOK
    <3> QED BY <1>2, <1>3, <3>2, <3>3, <3>4 DEF TypeOK
  <2>2. CASE StreamEnded(v)
    <3>1. \A t \in Sims : v \notin subs[t]
      BY <1>2, <2>2 DEF SubscribersAreOpen, StreamEnded
    <3> QED BY <1>2, <2>2, <3>1 DEF TypeOK, StreamEnded
  <2> QED BY <2>1, <2>2
<1>5. TypeOK'
  <2>1. vPc' \in [Viewers -> {"off", "found", "reading", "ended"}]
    BY <1>1, <1>2 DEF TypeOK
  <2> QED BY <1>1, <1>2, <1>4, <2>1 DEF TypeOK
<1>6. \A w \in Viewers : Joined(w)' <=> Joined(w) /\ w # v
  BY <1>1, <1>2 DEF TypeOK, Joined
<1>7. HubIsLive' /\ DoneIsLast' /\ ExitIsFinal'
  BY <1>1, <1>4 DEF StreamInv, HubIsLive, DoneIsLast, ExitIsFinal, Running
<1>8. FoundIsOpened' /\ RoomKept'
  BY <1>1, <1>2 DEF StreamInv, TypeOK, FoundIsOpened, RoomKept, Joined
<1>9. SubscribersAreOpen'
  <2> SUFFICES ASSUME NEW t \in Sims, NEW w \in subs'[t]
               PROVE  ~closed'[w] /\ vSim'[w] = t /\ Joined(w)'
    BY DEF SubscribersAreOpen
  <2> QED BY <1>1, <1>2, <1>4, <1>6 DEF TypeOK, SubscribersAreOpen
<1>10. CutIsClosed'
  BY <1>1, <1>4, <1>6 DEF StreamInv, CutIsClosed, FoundIsOpened, Joined
<1>11. FeedsInStep'
  <2>1. FeedsInStep
    BY DEF StreamInv
  <2>2. \A w \in Viewers : Joined(w)' => FedInStep(w, vSim[w])'
    <3> SUFFICES ASSUME NEW w \in Viewers, Joined(w)' PROVE FedInStep(w, vSim[w])'
      OBVIOUS
    <3>1. FedInStep(w, vSim[w]) /\ vSim[w] \in Sims
      BY <1>6, <2>1 DEF StreamInv, FeedsInStep, FoundIsOpened, Joined
    <3>2. w \in subs'[vSim[w]] => w \in subs[vSim[w]]
      BY <1>4, <3>1
    <3> QED BY <1>1, <3>1, <3>2 DEF FedInStep, StreamAt, StreamLen
  <2>3. \A w \in Viewers : vPc'[w] \in {"off", "found"} => vPc[w] \in {"off", "found"}
    BY <1>1, <1>2 DEF TypeOK
  <2> QED BY <1>1, <2>1, <2>2, <2>3 DEF FeedsInStep
<1> QED BY <1>5, <1>7, <1>8, <1>9, <1>10, <1>11 DEF StreamInv
-----------------------------------------------------------------------------
(* The listener, and the end of replayd.                                   *)

\* Nothing of a stream moves; main returns only when no handler is left.
LEMMA ServerInv ==
  ASSUME StreamInv, Signal \/ CloseSocket \/ StopAccepting \/ Exit \/ ServeFails
  PROVE  StreamInv'
<1>1. /\ UNCHANGED <<hub, sPc, sId, written, done, subs, chan, room, closed, vPc, vSim, got>>
      /\ server' \in {"draining", "closing", "exited", "failed", server}
      /\ accepting' = accepting \/ accepting' = FALSE
  BY DEF Signal, CloseSocket, StopAccepting, Exit, ServeFails, ServerMoves
<1>2. TypeOK'
  BY <1>1 DEF StreamInv, TypeOK
<1>3. HubIsLive' /\ DoneIsLast' /\ FoundIsOpened' /\ SubscribersAreOpen' /\ CutIsClosed' /\ RoomKept'
  BY <1>1 DEF StreamInv, HubIsLive, DoneIsLast, FoundIsOpened, SubscribersAreOpen, CutIsClosed,
              RoomKept, Joined
<1>4. FeedsInStep'
  BY <1>1, FeedsFrame DEF StreamInv
<1>5. ExitIsFinal'
  BY DEF StreamInv, ExitIsFinal, Running, Signal, CloseSocket, StopAccepting, Exit, ServeFails, ServerMoves,
         NoneRunning
<1> QED BY <1>2, <1>3, <1>4, <1>5 DEF StreamInv
-----------------------------------------------------------------------------
(* The theorems.                                                           *)

LEMMA NextInv == StreamInv /\ [Next]_vars => StreamInv'
<1> SUFFICES ASSUME StreamInv, [Next]_vars PROVE StreamInv'
  OBVIOUS
<1>1. CASE UNCHANGED vars
  <2> USE <1>1 DEF vars
  <2>1. TypeOK' /\ HubIsLive' /\ DoneIsLast' /\ FoundIsOpened'
    BY DEF StreamInv, TypeOK, HubIsLive, DoneIsLast, FoundIsOpened
  <2>2. SubscribersAreOpen' /\ CutIsClosed' /\ RoomKept' /\ ExitIsFinal'
    BY DEF StreamInv, SubscribersAreOpen, CutIsClosed, RoomKept, ExitIsFinal, Joined, Running
  <2>3. FeedsInStep'
    BY FeedsFrame DEF StreamInv
  <2> QED BY <2>1, <2>2, <2>3 DEF StreamInv
<1>2. ASSUME NEW s \in Sims, AcceptConn(s) \/ Write(s) \/ StopReading(s) \/ SimStep(s)
      PROVE  StreamInv'
  BY <1>2, HandlerInv, OpenRoundInv, WriteInv, FinalizeInv, UnregisterInv DEF SimStep
<1>3. ASSUME NEW v \in Viewers, Lookup(v) \/ NotFound(v) \/ ViewerLeaves(v) \/ ViewerStep(v)
      PROVE  StreamInv'
  BY <1>3, LookingInv, SubscribeInv, ReceiveInv, EndingInv DEF ViewerStep
<1>4. CASE Signal \/ CloseSocket \/ StopAccepting \/ Exit \/ ServeFails
  BY <1>4, ServerInv
<1> QED BY <1>1, <1>2, <1>3, <1>4 DEF Next

THEOREM Invariance == Spec => []StreamInv
BY InitInv, NextInv, PTL DEF Spec

\* The types, and with them that no channel is ever filled beyond its capacity:
\* nothing Subscribe sends while it holds the round's mutex blocks.
THEOREM TypeCorrect == Spec => []TypeOK
<1>1. StreamInv => TypeOK
  BY DEF StreamInv
<1> QED BY <1>1, Invariance, PTL

\* Neither does a fan-out send on a closed channel nor is one closed twice.
THEOREM SubscribersStayOpen == Spec => []SubscribersAreOpen
<1>1. StreamInv => SubscribersAreOpen
  BY DEF StreamInv
<1> QED BY <1>1, Invariance, PTL

\* A round that is written is the one the hub finds under its id.
THEOREM HubIsRight == Spec => []HubFindsLiveRound
<1>1. StreamInv => HubFindsLiveRound
  BY DEF StreamInv, TypeOK, HubIsLive, Streaming, HubFindsLiveRound, Registered
<1> QED BY <1>1, Invariance, PTL

\* replayd exits with an empty hub, and leaves no viewer that waits for more.
THEOREM ExitsQuietly == Spec => []ExitIsQuiet
<1>1. ASSUME StreamInv, server = "exited"
      PROVE  /\ hub = {} /\ \A s \in Sims : sPc[s] \in {"off", "closed"}
             /\ \A v \in Viewers : Joined(v) => closed[v]
  <2>1. \A s \in Sims : sPc[s] \in {"off", "closed"}
    BY <1>1 DEF StreamInv, ExitIsFinal, Running
  <2>2. hub = {}
    BY <1>1, <2>1 DEF StreamInv, TypeOK, HubIsLive, Streaming
  <2>3. ASSUME NEW v \in Viewers, Joined(v)
        PROVE  closed[v]
    <3>1. vSim[v] \in Sims /\ done[vSim[v]]
      BY <1>1, <2>1, <2>3 DEF StreamInv, FoundIsOpened, Streaming, Joined
    <3>2. v \notin subs[vSim[v]]
      BY <1>1, <3>1 DEF StreamInv, DoneIsLast
    <3> QED BY <1>1, <2>3, <3>2 DEF StreamInv, CutIsClosed
  <2> QED BY <2>1, <2>2, <2>3
<1>2. StreamInv => ExitIsQuiet
  BY <1>1 DEF ExitIsQuiet
<1> QED BY <1>2, Invariance, PTL

\* Two sequences in a row that agree with a third one, place by place.
LEMMA ConcatIsPrefix ==
  ASSUME NEW M, NEW g \in Seq(M), NEW c \in Seq(M), NEW t \in Seq(M), Len(g) + Len(c) <= Len(t),
         \A i \in 1..Len(g) : g[i] = t[i], \A i \in 1..Len(c) : c[i] = t[Len(g) + i]
  PROVE  /\ Len(g \o c) = Len(g) + Len(c)
         /\ g \o c = SubSeq(t, 1, Len(g \o c))
         /\ Len(g) + Len(c) = Len(t) => g \o c = t
<1>1. /\ g \o c \in Seq(M) /\ Len(g \o c) = Len(g) + Len(c)
      /\ \A i \in 1..Len(g \o c) : (g \o c)[i] = t[i]
  OBVIOUS
<1>2. /\ SubSeq(t, 1, Len(g \o c)) \in Seq(M)
      /\ Len(SubSeq(t, 1, Len(g \o c))) = Len(g \o c)
      /\ \A i \in 1..Len(g \o c) : SubSeq(t, 1, Len(g \o c))[i] = t[i]
  BY <1>1
<1>3. g \o c = SubSeq(t, 1, Len(g \o c))
  BY <1>1, <1>2
<1>4. Len(g) + Len(c) = Len(t) => g \o c = t
  BY <1>1
<1> QED BY <1>1, <1>3, <1>4

\* What a viewer got and will get is a prefix of its round's stream, and all of
\* it while the viewer is subscribed.
LEMMA FeedIsPrefix ==
  ASSUME StreamInv, NEW v \in Viewers, Joined(v)
  PROVE  LET s == vSim[v] IN
         /\ Len(Feed(v)) <= Len(Stream(s))
         /\ Feed(v) = SubSeq(Stream(s), 1, Len(Feed(v)))
         /\ v \in subs[s] => Feed(v) = Stream(s)
<1>1. TypeOK /\ FedInStep(v, vSim[v])
  BY DEF StreamInv, FeedsInStep
<1>2. PICK s \in Sims : s = vSim[v]
  BY DEF StreamInv, FoundIsOpened, Joined
<1>3. /\ Stream(s) \in Seq(Messages) /\ Len(Stream(s)) = StreamLen(s)
      /\ \A i \in 1..Len(Stream(s)) : Stream(s)[i] = StreamAt(s, i)
  BY <1>1, BacklogIsStream
<1>4. PICK g \in Seq(Messages), c \in Seq(Messages), t \in Seq(Messages) :
        g = got[v] /\ c = chan[v] /\ t = Stream(s)
  BY <1>1, <1>3 DEF TypeOK
<1>5. /\ Len(g) + Len(c) <= Len(t)
      /\ v \in subs[s] => Len(g) + Len(c) = Len(t)
  BY <1>1, <1>2, <1>3, <1>4 DEF FedInStep
<1>6. ASSUME NEW i \in 1..Len(g)
      PROVE  g[i] = t[i]
  <2>1. g[i] = StreamAt(s, i)
    BY <1>1, <1>2, <1>4 DEF FedInStep
  <2>2. i \in 1..Len(t)
    BY <1>5
  <2> QED BY <1>3, <1>4, <2>1, <2>2
<1>7. ASSUME NEW i \in 1..Len(c)
      PROVE  c[i] = t[Len(g) + i]
  <2>1. c[i] = StreamAt(s, Len(g) + i)
    BY <1>1, <1>2, <1>4 DEF FedInStep
  <2>2. Len(g) + i \in 1..Len(t)
    BY <1>5
  <2> QED BY <1>3, <1>4, <2>1, <2>2
<1>8. /\ Len(g \o c) = Len(g) + Len(c)
      /\ g \o c = SubSeq(t, 1, Len(g \o c))
      /\ Len(g) + Len(c) = Len(t) => g \o c = t
  BY <1>5, <1>6, <1>7, ConcatIsPrefix
<1> QED BY <1>2, <1>4, <1>5, <1>8 DEF Feed

\* A viewer sees its round from the header on, in order, without gap or repetition.
THEOREM StaysInStep == Spec => []InStep
<1>1. StreamInv => InStep
  BY FeedIsPrefix DEF InStep
<1> QED BY <1>1, Invariance, PTL

\* A viewer is cut early by a write only, and only with more than the headroom
\* in its channel; Round.Done cuts those that have got, or will get, everything.
THEOREM CutsLaggardsOnly == Spec => CutOnlyLaggards
<1>1. ASSUME StreamInv, Next, NEW s \in Sims, NEW v \in subs[s],
             v \notin subs'[s], vPc'[v] # "ended"
      PROVE  Len(chan[v]) > LiveBuf \/ Feed(v)' = Stream(s)'
  <2>1. /\ v \in Viewers /\ vSim[v] = s /\ Joined(v) /\ room[v] > LiveBuf /\ room[v] \in Nat
        /\ chan \in [Viewers -> Seq(Messages)] /\ subs \in [Sims -> SUBSET Viewers]
        /\ Feed(v) = Stream(s) /\ LiveBuf \in Nat
    BY <1>1, FeedIsPrefix, StreamAssumption DEF StreamInv, TypeOK, SubscribersAreOpen, RoomKept
  <2>2. Full(v) => Len(chan[v]) > LiveBuf
    BY <2>1 DEF Full
  <2>3. ASSUME NEW t \in Sims, AcceptConn(t) \/ HelloFails(t) \/ OpenRound(t) \/ RefuseRound(t)
                               \/ StopReading(t) \/ Unregister(t)
        PROVE  FALSE
    BY <1>1, <2>3 DEF AcceptConn, HelloFails, OpenRound, RefuseRound, StopReading, Unregister
  <2>4. ASSUME NEW t \in Sims, Write(t)
        PROVE  Full(v)
    BY <1>1, <2>1, <2>4 DEF Write, FanOut
  <2>5. ASSUME NEW t \in Sims, Finalize(t), ~Full(v)
        PROVE  Feed(v)' = Stream(s)'
    <3>1. s = t
      BY <1>1, <2>1, <2>5 DEF Finalize, FanOut
    <3>2. /\ chan'[v] = Append(chan[v], Done) /\ got'[v] = got[v]
          /\ written'[s] = written[s] /\ done'[s] /\ sPc[s] = "ending"
      BY <1>1, <2>1, <2>5, <3>1 DEF Finalize, FanOut, SimMoves, StreamInv, TypeOK
    <3>3. ~done[s]
      BY <1>1, <3>2 DEF StreamInv, DoneIsLast
    <3>4. PICK g \in Seq(Messages), c \in Seq(Messages), b \in Seq(Messages) :
            g = got[v] /\ c = chan[v] /\ b = Backlog(s)
      <4>1. written[s] \in Nat /\ got[v] \in Seq(Messages) /\ chan[v] \in Seq(Messages)
        BY <1>1, <2>1 DEF StreamInv, TypeOK
      <4>2. Backlog(s) \in Seq(Messages)
        BY <4>1 DEF Backlog, Messages
      <4> QED BY <4>1, <4>2
    <3>5. g \o c = b
      <4>1. g \o c = b \o <<>>
        BY <2>1, <3>3, <3>4 DEF Feed, Stream
      <4> QED BY <4>1
    <3>6. Done \in Messages
      BY DEF Messages
    <3>7. g \o Append(c, Done) = Append(g \o c, Done) /\ Append(b, Done) = b \o <<Done>>
      BY <3>6
    <3>8. Feed(v)' = g \o Append(c, Done)
      BY <3>2, <3>4 DEF Feed
    <3>9. Stream(s)' = b \o <<Done>>
      BY <3>2, <3>4 DEF Stream, Backlog
    <3> QED BY <3>5, <3>7, <3>8, <3>9
  <2>6. ASSUME NEW w \in Viewers, Lookup(w) \/ NotFound(w) \/ AcceptFails(w) \/ Receive(w)
                                  \/ StreamEnded(w) \/ Subscribe(w)
        PROVE  FALSE
    <3>1. CASE Subscribe(w)
      BY <1>1, <2>1, <3>1 DEF Subscribe
    <3> QED BY <1>1, <2>6, <3>1 DEF Lookup, NotFound, AcceptFails, Receive, StreamEnded
  <2>7. ASSUME NEW w \in Viewers, ViewerLeaves(w)
        PROVE  FALSE
    <3>1. w = v
      BY <1>1, <2>1, <2>7 DEF ViewerLeaves, Unsubscribe
    <3> QED BY <1>1, <2>1, <2>7, <3>1 DEF ViewerLeaves, ViewerMoves, StreamInv, TypeOK
  <2>8. CASE Signal \/ CloseSocket \/ StopAccepting \/ Exit \/ ServeFails
    BY <1>1, <2>8 DEF Signal, CloseSocket, StopAccepting, Exit, ServeFails, ServerMoves
  <2> QED BY <1>1, <2>2, <2>3, <2>4, <2>5, <2>6, <2>7, <2>8 DEF Next, SimStep, ViewerStep
<1>2. StreamInv /\ [Next]_vars =>
        [ \A s \in Sims : \A v \in subs[s] :
            v \notin subs'[s] /\ vPc'[v] # "ended" =>
              Len(chan[v]) > LiveBuf \/ Feed(v)' = Stream(s)' ]_vars
  BY <1>1
<1> QED BY <1>2, Invariance, PTL DEF Spec, CutOnlyLaggards
=============================================================================
