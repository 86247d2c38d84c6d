----------------------------- MODULE TailProofs -----------------------------
(***************************************************************************)
(* The snapshot-and-tail client, proved: Run returns nil only with the     *)
(* whole run folded, and between two snapshots every fold step is exactly  *)
(* the next event.  The inductive invariant TailKept: the fold is never    *)
(* ahead of the hub, and the connection being read feeds from the event    *)
(* after the fold.  The server's part is Served.                           *)
(***************************************************************************)
EXTENDS Tail, StreamProofs

TailKept ==
    /\ phase \in {"snapshot", "subscribe", "reading", "over"}
    /\ used \subseteq Subs /\ st \in Nat /\ from \in Nat
    /\ st <= folded
    /\ phase \in {"subscribe", "reading"} => from = st + 1
    /\ phase = "reading" => cur \in Subs /\ Feeds(cur, st + 1)
    /\ result = "done" => phase = "over"
    /\ DoneMeansAll

TailInv == Served /\ TailKept

\* The fold of the hub only grows, and stands still once the hub is closed.
LEMMA HubFoldGrows ==
    ASSUME Served, ServerNext
    PROVE  /\ folded' \in Nat /\ folded' >= folded
           /\ closed => closed' /\ folded' = folded
<1>1. HubTypes /\ FoldKept /\ folded \in Nat /\ recorded \in Nat
  BY DEF Served, HubTypes
<1>2. CASE Engine
  BY <1>1, <1>2 DEF Engine, Emit, AppendEvent, AppendFails, HubTypes, FoldKept
<1>3. CASE AttachCloses \/ Handlers \/ Faults \/ Closing \/ Crash
  BY <1>1, <1>3 DEF AttachCloses, CloseHub, Handlers, WriteEvent, WriteMarker, HandlerLeaves,
       Faults, WriteStalls, Break, Closing, BeginClose, CloseDone, ForceClose, Crash, hubVars
<1> QED  BY <1>2, <1>3 DEF ServerNext

\* A step of the client that opens, reads or ends nothing on the server.
LEMMA TailStutters ==
    ASSUME TailInv, UNCHANGED streamVars
    PROVE  Served' /\ folded' = folded /\ closed' = closed /\ folded \in Nat
BY ServedStutters DEF TailInv, Served, HubTypes, streamVars, hubVars

\* Every step keeps the fold behind the hub and the reader at its next event.
LEMMA TailStep ==
    ASSUME TailInv, [Next]_vars
    PROVE  TailInv'
<1>1. Served /\ TailKept /\ st \in Nat /\ st + 1 \in Nat /\ HubTypes /\ folded \in Nat
  BY DEF TailInv, TailKept, Served, HubTypes
<1>2. ASSUME ServerNext, UNCHANGED clientVars PROVE TailInv'
  <2>1. Served'
    BY <1>1, <1>2, ServerStep
  <2>2. folded' \in Nat /\ folded' >= folded /\ (closed => closed' /\ folded' = folded)
    BY <1>1, <1>2, HubFoldGrows
  <2>3. st' = st /\ st' <= folded' /\ DoneMeansAll'
    BY <2>2, <1>1, <1>2 DEF TailKept, DoneMeansAll, clientVars
  <2>4. CASE phase = "reading"
    <3>1. cur \in Subs /\ Feeds(cur, st + 1)
      BY <1>1, <2>4 DEF TailKept
    <3> PICK c \in Subs, r \in Nat : c = cur /\ r = st + 1
      BY <3>1, <1>1
    <3>2. Feeds(c, r)'
      BY <3>1, <1>1, <1>2, FeedsServer
    <3>3. Feeds(cur, st + 1)'
      BY <3>2, <1>2 DEF clientVars, Feeds, First, Took, OnWire
    <3> QED  BY <3>1, <3>3, <2>1, <2>3, <1>1, <1>2 DEF TailInv, TailKept, clientVars
  <2>5. CASE phase # "reading"
    BY <2>1, <2>3, <2>5, <1>1, <1>2 DEF TailInv, TailKept, clientVars
  <2> QED  BY <2>4, <2>5
<1>3. CASE Snapshot
  <2>1. Served' /\ folded' = folded /\ closed' = closed
    BY <1>3, TailStutters DEF Snapshot
  <2>2. /\ phase = "snapshot" /\ result # "done" /\ used' = used
    BY <1>1, <1>3 DEF Snapshot, TailKept
  <2>3. /\ phase' \in {"over", "subscribe"} /\ result' # "done"
        /\ \/ phase' = "over" /\ st' = st /\ from' = from
           \/ st' = folded /\ from' = folded + 1
    BY <2>2, <1>3 DEF Snapshot, Return
  <2> QED  BY <2>1, <2>2, <2>3, <1>1 DEF TailInv, TailKept, DoneMeansAll
<1>4. ASSUME NEW c \in Subs, c = cur', Accept(c, from), phase = "subscribe", phase' = "reading",
             used' = used \cup {c}, UNCHANGED <<result, st, from>>
      PROVE  TailInv'
  <2>1. from = st + 1 /\ from \in Nat /\ result # "done" /\ used \subseteq Subs
    BY <1>1, <1>4 DEF TailKept
  <2> PICK f \in Nat : f = from
    BY <2>1
  <2>2. Served' /\ Feeds(c, Max2(f, 1))'
    BY <1>1, <1>4, AcceptStep, FeedsFromTheStart
  <2>3. Max2(f, 1) = st' + 1
    BY <2>1, <1>1, <1>4 DEF Max2
  <2>4. Feeds(cur, st + 1)'
    BY <2>2, <2>3, <1>4 DEF Feeds, First, Took, OnWire
  <2>5. folded' = folded
    BY <1>4 DEF Accept, Subscribe
  <2> QED  BY <2>1, <2>2, <2>4, <2>5, <1>1, <1>4 DEF TailInv, TailKept, DoneMeansAll
<1>5. ASSUME UNCHANGED <<streamVars, used, st, from>>, phase \in {"subscribe", "reading"},
             phase' \in {"snapshot", "subscribe", "over"}, result' # "done"
      PROVE  TailInv'
  BY <1>1, <1>5, TailStutters DEF TailInv, TailKept, DoneMeansAll
<1>6. ASSUME EndRound, phase \in {"subscribe", "reading"}
      PROVE  phase' \in {"snapshot", "over"} /\ result' # "done"
  BY <1>1, <1>6 DEF EndRound, Return, TailKept
<1>7. CASE OpenStream
  <2>1. phase = "subscribe" /\ UNCHANGED <<st, from, progress>>
    BY <1>7 DEF OpenStream
  <2>2. CASE /\ used # Subs /\ cur' = (CHOOSE c \in Subs \ used : TRUE)
             /\ Accept(cur', from) /\ used' = used \cup {cur'} /\ phase' = "reading"
             /\ UNCHANGED <<result, stalled>>
    <3>1. cur' \in Subs
      BY <2>2, <1>1 DEF TailKept
    <3> QED  BY <3>1, <2>1, <2>2, <1>4
  <2>3. CASE EndRound /\ UNCHANGED <<streamVars, cur, used, delivered>>
    BY <2>1, <2>3, <1>5, <1>6
  <2>4. CASE Return("error") /\ UNCHANGED <<streamVars, cur, used, delivered, stalled>>
    BY <2>1, <2>4, <1>5 DEF Return
  <2> QED  BY <1>7, <2>2, <2>3, <2>4 DEF OpenStream
<1>8. CASE FoldEvent
  <2>1. /\ phase = "reading" /\ cur \in Subs /\ Feeds(cur, st + 1) /\ result # "done"
        /\ wire[cur] # <<>> /\ Head(wire[cur]).kind = "event"
        /\ wire' = [wire EXCEPT ![cur] = Tail(wire[cur])]
        /\ UNCHANGED <<hubVars, server, conn, handler, lastSeq, cur, used>>
    BY <1>1, <1>8 DEF FoldEvent, TailKept
  <2> PICK c \in Subs, r \in Nat : c = cur /\ r = st + 1
    BY <2>1, <1>1
  <2>2. Head(wire[c]).seq = r /\ r <= folded /\ Feeds(c, r + 1)'
    BY <2>1, <1>1, FeedsNext
  <2>3. Served'
    BY <2>1, <1>1, ReadStep
  <2>4. st' = r /\ from' = r + 1 /\ phase' = phase /\ result' = result
    BY <2>1, <2>2, <1>1, <1>8 DEF FoldEvent
  <2>5. Feeds(cur, st + 1)'
    BY <2>1, <2>2, <2>4 DEF Feeds, First, Took, OnWire
  <2>6. folded' = folded
    BY <2>1 DEF hubVars
  <2> QED  BY <2>1, <2>2, <2>3, <2>4, <2>5, <2>6, <1>1 DEF TailInv, TailKept, DoneMeansAll
<1>9. CASE ReadMarker
  <2>1. /\ phase = "reading" /\ cur \in Subs /\ Feeds(cur, st + 1) /\ result # "done"
        /\ wire[cur] # <<>>
        /\ UNCHANGED <<streamVars, cur, used, st, from, progress, delivered>>
    BY <1>1, <1>9 DEF ReadMarker, TailKept
  <2>2. CASE Head(wire[cur]).kind # "run_ended"
    <3>1. EndRound
      BY <2>2, <1>9 DEF ReadMarker
    <3> QED  BY <3>1, <2>1, <1>5, <1>6
  <2>3. CASE Head(wire[cur]).kind = "run_ended"
    <3>1. phase' = "over" /\ result' = "done"
      BY <2>3, <1>9 DEF ReadMarker, Return
    <3>2. /\ ConnKept(cur) /\ wire[cur] \in Seq(Item)
      BY <2>1, <1>1 DEF Served, ServerTypes
    <3>3. 1 \in 1 .. OnWire(cur) /\ wire[cur][1].kind = "run_ended"
      <4>1. Len(wire[cur]) \in Nat /\ Len(wire[cur]) >= 1 /\ Head(wire[cur]) = wire[cur][1]
        BY <3>2, <2>1, WireShrinks
      <4> QED  BY <4>1, <2>3 DEF OnWire
    <3>4. closed /\ (st + 1) + 1 > folded + 1
      BY <3>2, <3>3, <2>1 DEF ConnKept, Feeds
    <3>5. st = folded
      BY <3>4, <1>1 DEF TailKept
    <3>6. Served' /\ folded' = folded /\ closed' = closed
      BY <2>1, TailStutters
    <3> QED  BY <3>1, <3>4, <3>5, <3>6, <2>1, <1>1 DEF TailInv, TailKept, DoneMeansAll
  <2> QED  BY <2>2, <2>3
<1>10. CASE SilentEnd
  <2>1. /\ phase = "reading" /\ result # "done"
        /\ UNCHANGED <<streamVars, cur, used, st, from, progress, delivered>>
        /\ (phase' = "subscribe" /\ result' = result) \/ EndRound
    BY <1>1, <1>10 DEF SilentEnd, TailKept
  <2> QED  BY <2>1, <1>5, <1>6
<1>11. CASE UNCHANGED vars
  <2>1. Served' /\ folded' = folded /\ closed' = closed
    BY <1>11, TailStutters DEF vars
  <2>2. phase = "reading" => Feeds(cur, st + 1)'
    BY <1>1, <1>11 DEF TailKept, Feeds, First, Took, OnWire, vars, clientVars, streamVars,
       hubVars, serverVars, subVars
  <2> QED  BY <2>1, <2>2, <1>1, <1>11 DEF TailInv, TailKept, DoneMeansAll, vars, clientVars
<1> QED  BY <1>2, <1>3, <1>7, <1>8, <1>9, <1>10, <1>11 DEF Next, Client

\* The fold is never ahead of the hub, and the connection being read feeds
\* from the event after it.
THEOREM TailSafe == Spec => []TailInv
<1>1. Init => TailInv
  <2> SUFFICES ASSUME Init PROVE TailInv
    OBVIOUS
  <2>1. Served
    BY ServedAtFirst DEF Init
  <2>2. folded = 0
    BY DEF Init, StreamInit, HubInit
  <2> QED  BY <2>1, <2>2 DEF Init, TailInv, TailKept, DoneMeansAll
<1>2. TailInv /\ [Next]_vars => TailInv'
  BY TailStep
<1> QED  BY <1>1, <1>2, PTL DEF Spec

\* Run returns nil only when every event the hub ever folded is in the
\* client's fold, and the ring it was served from held the newest events.
THEOREM NilMeansTheWholeRun == Spec => []TailIsHonest
<1>1. TailInv => TailIsHonest
  BY RingIsKept DEF TailInv, TailKept, TailIsHonest
<1> QED  BY <1>1, TailSafe, PTL

\* What a renderer sees never goes back, each fold step of a stream is exactly
\* the next event, and the hub disconnects only a client that lags.
THEOREM TheFoldAdvances == Spec => FoldAdvances /\ OnlyLaggardsDropped
<1>1. TailInv /\ [Next]_vars =>
         [/\ st' >= st
          /\ phase = "reading" => st' \in {st, st + 1}]_vars
  <2> SUFFICES ASSUME TailInv, Next
               PROVE  st' >= st /\ (phase = "reading" => st' \in {st, st + 1})
    OBVIOUS
  <2>1. Served /\ TailKept /\ st \in Nat /\ folded \in Nat /\ st <= folded
    BY DEF TailInv, TailKept, Served, HubTypes
  <2>2. CASE Snapshot
    BY <2>1, <2>2 DEF Snapshot, Return
  <2>3. CASE FoldEvent
    <3>1. /\ phase = "reading" /\ cur \in Subs /\ Feeds(cur, st + 1)
          /\ wire[cur] # <<>> /\ Head(wire[cur]).kind = "event"
          /\ wire' = [wire EXCEPT ![cur] = Tail(wire[cur])]
          /\ UNCHANGED <<hubVars, conn>>
      BY <2>1, <2>3 DEF FoldEvent, TailKept
    <3> PICK c \in Subs, r \in Nat : c = cur /\ r = st + 1
      BY <3>1, <2>1
    <3>2. Head(wire[cur]).seq = st + 1
      BY <3>1, <2>1, FeedsNext
    <3>3. st' = st + 1
      BY <3>2, <2>1, <2>3 DEF FoldEvent
    <3> QED  BY <3>3, <2>1
  <2>4. CASE ~Snapshot /\ ~FoldEvent
    BY <2>1, <2>4 DEF Next, Client, OpenStream, ReadMarker, SilentEnd, clientVars
  <2> QED  BY <2>2, <2>3, <2>4
<1>2. TailInv /\ [Next]_vars =>
         [\A s \in dropped' \ dropped :
             recorded - Len(taken[s]) - Max2(asked[s], 1) >= RingSize + 1]_hubVars
  <2> SUFFICES ASSUME TailInv, Next, NEW s \in dropped' \ dropped
               PROVE  recorded - Len(taken[s]) - Max2(asked[s], 1) >= RingSize + 1
    BY DEF vars, streamVars, hubVars
  <2>1. CASE ServerNext
    BY <2>1, DropsALaggard DEF TailInv
  <2>2. CASE ~ServerNext
    BY <2>2 DEF Next, Client, Snapshot, OpenStream, Accept, Subscribe, FoldEvent, ReadMarker,
                SilentEnd, streamVars, hubVars
  <2> QED  BY <2>1, <2>2
<1> QED  BY <1>1, <1>2, TailSafe, PTL DEF Spec, FoldAdvances, OnlyLaggardsDropped
=============================================================================
