--------------------------- MODULE FallbackProofs ---------------------------
(***************************************************************************)
(* The FallbackSource's promise, proved: a call of Subscribe implements    *)
(* Delivery, and neither the markers nor the move to disk ever lie.        *)
(*                                                                         *)
(* The inductive invariant CallKept ties the call to the server: relay's   *)
(* resumeFrom is the event the caller is due, and the connection being     *)
(* relayed feeds from exactly there.  Everything else is Served.           *)
(***************************************************************************)
EXTENDS Fallback, StreamProofs

\* The event the caller is due.
Due == IF resumeFrom = 0 THEN 1 ELSE resumeFrom

CallTypes ==
    /\ phase \in {"idle", "live", "backoff", "disk", "over"}
    /\ used \subseteq Subs /\ start \in Nat /\ resumeFrom \in Nat
    /\ out \in Seq(Nat) /\ fellBack \in BOOLEAN
    /\ phase = "live" => cur \in Subs

CallKept ==
    /\ CallTypes
    /\ (IF start = 0 THEN 1 ELSE start) + Len(out) = Due
    /\ phase = "idle" => start = 0 /\ resumeFrom = 0 /\ out = <<>>
    /\ phase = "live" => Feeds(cur, Due)
    /\ NoFalseDemotion

CallInv == Served /\ CallKept

\* Connect, for the event the call is due: the live stream feeds from there,
\* or the call is over, or the engine is gone.
LEMMA ConnectStep ==
    ASSUME CallInv, NEW from \in Nat, Connect(from)
    PROVE  /\ Served' /\ recorded' = recorded /\ ledger' = ledger
           /\ phase' \in {"live", "over", "disk"}
           /\ phase' = "live" => cur' \in Subs /\ Feeds(cur, Max2(from, 1))'
           /\ phase' = "over" => why' \in {"overflow", "refused"}
           /\ used' \subseteq Subs /\ fellBack' \in BOOLEAN /\ NoFalseDemotion'
<1>1. Served /\ CallTypes /\ NoFalseDemotion
  BY DEF CallInv, CallKept
<1>2. ASSUME used # Subs, cur' = CHOOSE c \in Subs \ used : TRUE, Accept(cur', from),
             used' = used \cup {cur'}, phase' = "live", UNCHANGED <<why, fellBack>>
      PROVE  /\ Served' /\ recorded' = recorded /\ ledger' = ledger /\ cur' \in Subs
             /\ Feeds(cur, Max2(from, 1))' /\ used' \subseteq Subs
             /\ fellBack' \in BOOLEAN /\ NoFalseDemotion'
  <2>1. cur' \in Subs
    BY <1>1, <1>2 DEF CallTypes
  <2> PICK c \in Subs : c = cur'
    BY <2>1
  <2>2. Accept(c, from)
    BY <1>2
  <2>3. Served' /\ Feeds(c, Max2(from, 1))'
    BY <2>2, <1>1, AcceptStep, FeedsFromTheStart
  <2>4. Feeds(cur, Max2(from, 1))'
    BY <2>3 DEF Feeds, First, Took, OnWire
  <2>5. UNCHANGED <<recorded, ledger, closed, server>>
    BY <2>2 DEF Accept, Subscribe, engineVars
  <2> QED  BY <2>1, <2>3, <2>4, <2>5, <1>1, <1>2 DEF CallTypes, NoFalseDemotion
<1>3. ASSUME UNCHANGED streamVars
      PROVE  Served' /\ UNCHANGED <<recorded, ledger, closed, server>>
  BY <1>1, <1>3, ServedStutters DEF streamVars, hubVars, engineVars, serverVars
<1>4. CASE Gone(from) /\ End("overflow") /\ UNCHANGED <<streamVars, cur, used, delivered, fellBack>>
  BY <1>1, <1>3, <1>4 DEF End, CallTypes, NoFalseDemotion
<1>5. CASE Unavailable(from) /\ End("refused")
           /\ UNCHANGED <<streamVars, cur, used, delivered, fellBack>>
  BY <1>1, <1>3, <1>5 DEF End, CallTypes, NoFalseDemotion
<1>6. CASE Unreachable /\ phase' = "disk" /\ fellBack' = TRUE
           /\ UNCHANGED <<streamVars, why, cur, used, delivered>>
  BY <1>1, <1>3, <1>6 DEF Unreachable, CallTypes, NoFalseDemotion
<1>7. CASE /\ used # Subs /\ cur' = (CHOOSE c \in Subs \ used : TRUE) /\ Accept(cur', from)
           /\ used' = used \cup {cur'} /\ phase' = "live" /\ UNCHANGED <<why, fellBack>>
  BY <1>2, <1>7
<1> QED  BY <1>4, <1>5, <1>6, <1>7 DEF Connect

\* A closed hub stays closed, and a server that is gone stays gone.
LEMMA EngineOnlyGoes ==
    ASSUME ServerNext PROVE (closed \/ server = "gone") => (closed' \/ server' = "gone")
BY DEF ServerNext, Engine, AppendEvent, AppendFails, Emit, AttachCloses, CloseHub, Handlers,
       WriteEvent, WriteMarker, HandlerLeaves, Faults, WriteStalls, Break, Closing,
       BeginClose, CloseDone, ForceClose, Crash, hubVars, serverVars

\* What the marker at the head of a wire means.
LEMMA MarkerMeans ==
    ASSUME Served, NEW c \in Subs, wire[c] # <<>>, Head(wire[c]).kind # "event"
    PROVE  /\ Head(wire[c]).kind \in {"overflowed", "run_ended"}
           /\ Head(wire[c]).kind = "run_ended" => closed
<1>1. ServerTypes /\ ConnKept(c) /\ wire[c] \in Seq(Item)
  BY DEF Served, ServerTypes
<1>2. Len(wire[c]) >= 1 /\ Head(wire[c]) = wire[c][1] /\ Len(wire[c]) \in Nat
  BY <1>1, WireShrinks
<1>3. 1 \in 1 .. Len(wire[c]) /\ wire[c][1] \in Item
  BY <1>1, <1>2
<1>4. wire[c][1].kind = "run_ended" => closed
  BY <1>1, <1>3 DEF ConnKept, OnWire
<1>5. Head(wire[c]).kind \in {"overflowed", "run_ended"}
  BY <1>2, <1>3 DEF Item
<1> QED  BY <1>2, <1>4, <1>5

\* Every step keeps the call's account of what is due.
LEMMA CallStep ==
    ASSUME CallInv, [Next]_vars
    PROVE  CallInv'
<1>1. /\ Served /\ CallTypes /\ CallKept
      /\ resumeFrom \in Nat /\ start \in Nat /\ out \in Seq(Nat) /\ Len(out) \in Nat
      /\ Due \in Nat /\ Due = Max2(resumeFrom, 1)
  BY DEF CallInv, CallKept, CallTypes, Due, Max2
<1>2. ASSUME ServerNext, UNCHANGED clientVars PROVE CallInv'
  <2>1. Served'
    BY <1>1, <1>2, ServerStep
  <2>2. NoFalseDemotion'
    BY <1>1, <1>2, EngineOnlyGoes DEF CallKept, NoFalseDemotion, clientVars
  <2>3. CASE phase = "live"
    <3>1. cur \in Subs /\ Feeds(cur, Due)
      BY <1>1, <2>3 DEF CallKept, CallTypes
    <3> PICK c \in Subs, r \in Nat : c = cur /\ r = Due
      BY <3>1, <1>1
    <3>2. Feeds(c, r)'
      BY <3>1, <1>1, <1>2, FeedsServer
    <3>3. cur' = c /\ Due' = r
      BY <1>2 DEF clientVars, Due
    <3>4. Feeds(cur, Due)'
      BY <3>2, <3>3 DEF Feeds, First, Took, OnWire
    <3> QED  BY <3>4, <2>1, <2>2, <1>1, <1>2 DEF CallInv, CallKept, CallTypes, clientVars, Due
  <2>4. CASE phase # "live"
    BY <2>1, <2>2, <2>4, <1>1, <1>2 DEF CallInv, CallKept, CallTypes, clientVars, Due
  <2> QED  BY <2>3, <2>4
<1>3. ASSUME NEW from \in 0 .. MaxSeq, SubscribeCall(from) PROVE CallInv'
  <2>1. from \in Nat /\ phase = "idle" /\ Connect(from)
        /\ start' = from /\ resumeFrom' = from /\ out' = out /\ out = <<>>
    BY <1>1, <1>3, HubAssumption DEF SubscribeCall, CallKept
  <2>2. /\ Served'
        /\ phase' \in {"live", "over", "disk"}
        /\ phase' = "live" => cur' \in Subs /\ Feeds(cur, Max2(from, 1))'
        /\ used' \subseteq Subs /\ fellBack' \in BOOLEAN /\ NoFalseDemotion'
    BY <2>1, ConnectStep
  <2>3. Due' = Max2(from, 1)
    BY <2>1 DEF Due, Max2
  <2>4. phase' = "live" => Feeds(cur, Due)'
    BY <2>2, <2>3 DEF Feeds
  <2>5. (IF start' = 0 THEN 1 ELSE start') + Len(out') = Due'
    <3>1. Len(out') = 0
      BY <2>1
    <3> QED  BY <3>1, <2>1 DEF Due
  <2> QED  BY <2>1, <2>2, <2>4, <2>5 DEF CallInv, CallKept, CallTypes
<1>4. CASE Reconnect
  <2>1. phase = "backoff" /\ Connect(resumeFrom) /\ UNCHANGED <<start, resumeFrom, streak, out>>
    BY <1>4 DEF Reconnect
  <2> PICK from \in Nat : from = resumeFrom
    BY <1>1
  <2>2. /\ Served'
        /\ phase' \in {"live", "over", "disk"}
        /\ phase' = "live" => cur' \in Subs /\ Feeds(cur, Max2(from, 1))'
        /\ used' \subseteq Subs /\ fellBack' \in BOOLEAN /\ NoFalseDemotion'
    BY <2>1, ConnectStep
  <2>3. Due' = Max2(from, 1) /\ Due' = Due
    BY <2>1, <1>1 DEF Due
  <2>4. phase' = "live" => Feeds(cur, Due)'
    BY <2>2, <2>3 DEF Feeds
  <2> QED  BY <2>1, <2>2, <2>3, <2>4, <1>1 DEF CallInv, CallKept, CallTypes
<1>5. CASE RelayEvent
  <2>1. /\ phase = "live" /\ cur \in Subs /\ Feeds(cur, Due)
        /\ wire[cur] # <<>> /\ Head(wire[cur]).kind = "event"
        /\ out' = Append(out, Head(wire[cur]).seq) /\ resumeFrom' = Head(wire[cur]).seq + 1
        /\ wire' = [wire EXCEPT ![cur] = Tail(wire[cur])]
        /\ UNCHANGED <<hubVars, server, conn, handler, lastSeq, faults,
                       phase, why, cur, used, start, streak, fellBack>>
    BY <1>1, <1>5 DEF RelayEvent, CallKept, CallTypes
  <2> PICK c \in Subs, r \in Nat : c = cur /\ r = Due
    BY <2>1, <1>1
  <2>2. Head(wire[c]).seq = r /\ Feeds(c, r + 1)'
    BY <2>1, <1>1, FeedsNext
  <2>3. Served'
    BY <2>1, <1>1, ReadStep
  <2>4. /\ out' = Append(out, r) /\ resumeFrom' = r + 1 /\ Due' = r + 1 /\ cur' = c
        /\ out' \in Seq(Nat) /\ Len(out') = Len(out) + 1
    BY <2>1, <2>2, <1>1 DEF Due
  <2>5. Feeds(cur, Due)'
    BY <2>2, <2>4 DEF Feeds, First, Took, OnWire
  <2>6. (IF start' = 0 THEN 1 ELSE start') + Len(out') = Due'
    BY <2>1, <2>4, <1>1 DEF CallKept
  <2>7. NoFalseDemotion'
    BY <2>1, <1>1 DEF CallKept, NoFalseDemotion, hubVars
  <2> QED  BY <2>1, <2>3, <2>4, <2>5, <2>6, <2>7, <1>1 DEF CallInv, CallKept, CallTypes
<1>6. CASE RelayMarker
  <2>1. /\ phase = "live" /\ cur \in Subs /\ wire[cur] # <<>> /\ Head(wire[cur]).kind # "event"
        /\ phase' \in {"over", "disk"}
        /\ fellBack' = fellBack \/ (fellBack' = TRUE /\ Head(wire[cur]).kind # "overflowed")
        /\ UNCHANGED <<streamVars, cur, used, start, resumeFrom, delivered, streak, out>>
    BY <1>1, <1>6 DEF RelayMarker, End, CallTypes
  <2>2. fellBack' => closed \/ server = "gone"
    BY <2>1, <1>1, MarkerMeans DEF CallKept, NoFalseDemotion
  <2>3. NoFalseDemotion' /\ fellBack' \in BOOLEAN
    BY <2>1, <2>2, <1>1 DEF CallTypes, NoFalseDemotion, streamVars, hubVars, serverVars
  <2>4. Served'
    BY <2>1, <1>1, ServedStutters
  <2> QED  BY <2>1, <2>3, <2>4, <1>1 DEF CallInv, CallKept, CallTypes, Due
<1>7. ASSUME RelaySilentEnd \/ DiskEnd PROVE CallInv'
  <2>1. /\ phase \in {"live", "disk"} /\ phase' \in {"over", "backoff"}
        /\ UNCHANGED <<streamVars, cur, used, start, resumeFrom, out, fellBack>>
    BY <1>7 DEF RelaySilentEnd, DiskEnd, End
  <2>2. Served'
    BY <2>1, <1>1, ServedStutters
  <2>3. NoFalseDemotion'
    BY <2>1, <1>1 DEF CallKept, NoFalseDemotion, streamVars, hubVars, serverVars
  <2> QED  BY <2>1, <2>2, <2>3, <1>1 DEF CallInv, CallKept, CallTypes, Due
<1>8. CASE DiskEvent
  <2>1. /\ phase = "disk" /\ out' = Append(out, Due) /\ resumeFrom' = Due + 1
        /\ UNCHANGED <<streamVars, phase, why, cur, used, start, fellBack>>
    BY <1>1, <1>8 DEF DiskEvent
  <2>2. /\ out' \in Seq(Nat) /\ Len(out') = Len(out) + 1 /\ Due' = Due + 1
    BY <2>1, <1>1 DEF Due
  <2>3. (IF start' = 0 THEN 1 ELSE start') + Len(out') = Due'
    BY <2>1, <2>2, <1>1 DEF CallKept
  <2>4. Served'
    BY <2>1, <1>1, ServedStutters
  <2>5. NoFalseDemotion'
    BY <2>1, <1>1 DEF CallKept, NoFalseDemotion, streamVars, hubVars, serverVars
  <2> QED  BY <2>1, <2>2, <2>3, <2>4, <2>5, <1>1 DEF CallInv, CallKept, CallTypes
<1>9. CASE Leave
  <2>1. /\ phase' = "over" /\ phase # "idle"
        /\ conn' = [conn EXCEPT ![cur] = IF conn[cur] = "open" THEN "cut" ELSE conn[cur]]
        /\ UNCHANGED <<hubVars, server, handler, lastSeq, wire, faults, cur,
                       used, start, resumeFrom, delivered, streak, out, fellBack>>
    BY <1>9 DEF Leave, End
  <2>2. ServerTypes' /\ \A s \in Subs : conn'[s] = conn[s] \/ (conn[s] # "unused" /\ conn'[s] # "open")
    BY <2>1, <1>1 DEF Served, ServerTypes
  <2>3. Served'
    BY <2>1, <2>2, <1>1, ConnectionsEnd
  <2>4. NoFalseDemotion'
    BY <2>1, <1>1 DEF CallKept, NoFalseDemotion, hubVars
  <2> QED  BY <2>1, <2>3, <2>4, <1>1 DEF CallInv, CallKept, CallTypes, Due
<1>10. CASE UNCHANGED vars
  <2>1. Served'
    BY <1>1, <1>10, ServedStutters DEF vars
  <2>2. phase = "live" => Feeds(cur, Due)'
    BY <1>1, <1>10 DEF CallKept, Feeds, First, Took, OnWire, Due, vars, clientVars, streamVars,
       hubVars, serverVars, subVars
  <2>3. NoFalseDemotion'
    BY <1>1, <1>10 DEF CallKept, NoFalseDemotion, vars, clientVars, streamVars, hubVars, serverVars
  <2> QED  BY <2>1, <2>2, <2>3, <1>1, <1>10 DEF CallInv, CallKept, CallTypes, Due, vars, clientVars
<1> QED  BY <1>2, <1>3, <1>4, <1>5, <1>6, <1>7, <1>8, <1>9, <1>10 DEF Next, Relay

\* Delivery's event to come is the call's.
LEMMA SameDue ==
    ASSUME CallInv PROVE Promise!Due = Due /\ Due \in Nat /\ Due >= resumeFrom /\ Due >= 1
BY DEF CallInv, CallKept, CallTypes, Due, Promise!Due

\* Every step of the source, its server and its engine is one of Delivery's,
\* or does not show.
LEMMA DeliveryStep ==
    ASSUME CallInv, [Next]_vars
    PROVE  [Promise!Next]_(Promise!deliveryVars)
<1> USE DEF Promise!deliveryVars
<1>1. /\ Served /\ CallTypes /\ CallKept /\ resumeFrom \in Nat /\ start \in Nat /\ recorded \in Nat
      /\ Promise!Due = Due /\ Due \in Nat /\ Due >= resumeFrom /\ Due >= 1
      /\ Due = Max2(resumeFrom, 1)
  <2>1. Served /\ CallTypes /\ CallKept /\ resumeFrom \in Nat /\ start \in Nat /\ recorded \in Nat
    BY DEF CallInv, CallKept, CallTypes, Served, HubTypes
  <2>2. Due = Max2(resumeFrom, 1)
    BY <2>1 DEF Due, Max2
  <2> QED  BY <2>1, <2>2, SameDue
<1>2. ASSUME ServerNext, UNCHANGED clientVars PROVE [Promise!Next]_(Promise!deliveryVars)
  <2>1. ASSUME NEW final \in BOOLEAN, AppendEvent(final) PROVE Promise!Write
    BY <1>2, <2>1 DEF AppendEvent, Promise!Write, clientVars
  <2>2. CASE AppendFails \/ Crash
    BY <1>2, <2>2 DEF AppendFails, Crash, clientVars
  <2>3. CASE Emit \/ AttachCloses \/ Handlers \/ Faults \/ Closing
    <3>1. recorded' = recorded /\ ledger' = ledger
      BY <2>3 DEF Emit, AttachCloses, CloseHub, Handlers, WriteEvent, WriteMarker,
                  HandlerLeaves, Faults, WriteStalls, Break, Closing, BeginClose, CloseDone,
                  ForceClose, hubVars, engineVars
    <3> QED  BY <3>1, <1>2 DEF clientVars
  <2> QED  BY <1>2, <2>1, <2>2, <2>3 DEF ServerNext, Engine, Promise!Next
<1>3. ASSUME NEW from \in 0 .. MaxSeq, SubscribeCall(from) PROVE Promise!Subscribe
  <2>1. from \in Nat /\ phase = "idle" /\ Connect(from) /\ start' = from /\ out' = out
    BY <1>3, HubAssumption DEF SubscribeCall
  <2>2. /\ recorded' = recorded /\ ledger' = ledger /\ phase' \in {"live", "over", "disk"}
        /\ phase' = "over" => why' \in {"overflow", "refused"}
    BY <2>1, ConnectStep
  <2> QED  BY <2>1, <2>2 DEF Promise!Subscribe
<1>4. ASSUME Reconnect PROVE Promise!BreakOff \/ UNCHANGED Promise!deliveryVars
  <2>1. phase = "backoff" /\ Connect(resumeFrom) /\ UNCHANGED <<start, out>>
    BY <1>4 DEF Reconnect
  <2>2. /\ recorded' = recorded /\ ledger' = ledger /\ phase' \in {"live", "over", "disk"}
        /\ phase' = "over" => why' \in {"overflow", "refused"}
    BY <2>1, <1>1, ConnectStep
  <2> QED  BY <2>1, <2>2 DEF Promise!BreakOff
<1>5. ASSUME RelayEvent PROVE Promise!Deliver
  <2>1. /\ phase = "live" /\ cur \in Subs /\ Feeds(cur, Due)
        /\ wire[cur] # <<>> /\ Head(wire[cur]).kind = "event"
        /\ out' = Append(out, Head(wire[cur]).seq)
        /\ wire' = [wire EXCEPT ![cur] = Tail(wire[cur])]
        /\ UNCHANGED <<hubVars, conn, phase, why, start>>
    BY <1>1, <1>5 DEF RelayEvent, CallKept, CallTypes
  <2>2. Head(wire[cur]).seq = Due /\ Due <= folded
    BY <2>1, <1>1, FeedsNext
  <2>3. Due <= recorded
    BY <2>2, <1>1 DEF Served, FoldKept, HubTypes
  <2> QED  BY <2>1, <2>2, <2>3, <1>1 DEF Promise!Deliver, hubVars, engineVars
<1>6. ASSUME RelayMarker \/ RelaySilentEnd PROVE Promise!BreakOff \/ UNCHANGED Promise!deliveryVars
  <2>1. /\ phase = "live" /\ phase' \in {"over", "backoff", "disk"}
        /\ phase' = "over" => why' # "finished"
        /\ UNCHANGED <<recorded, ledger, start, out>>
    BY <1>6 DEF RelayMarker, RelaySilentEnd, End, streamVars, hubVars, engineVars
  <2> QED  BY <2>1 DEF Promise!BreakOff
<1>7. ASSUME DiskEvent PROVE Promise!Deliver
  <2>1. /\ phase = "disk" /\ resumeFrom <= recorded /\ recorded > 0
        /\ out' = Append(out, Due)
        /\ UNCHANGED <<recorded, ledger, phase, why, start>>
    BY <1>1, <1>7 DEF DiskEvent, streamVars, hubVars, engineVars
  <2>2. Due <= recorded
    BY <2>1, <1>1 DEF Due
  <2> QED  BY <2>1, <2>2, <1>1 DEF Promise!Deliver
<1>8. ASSUME DiskEnd PROVE Promise!Finish
  <2>1. /\ phase = "disk" /\ ledger = "sealed" /\ resumeFrom > recorded
        /\ phase' = "over" /\ why' = "finished"
        /\ UNCHANGED <<recorded, ledger, start, out>>
    BY <1>8 DEF DiskEnd, End, streamVars, hubVars, engineVars
  <2>2. Due > recorded
    BY <2>1, <1>1
  <2> QED  BY <2>1, <2>2, <1>1 DEF Promise!Finish
<1>9. ASSUME Leave PROVE Promise!BreakOff
  <2>1. /\ phase \in {"live", "backoff", "disk"} /\ phase' = "over" /\ why' = "left"
        /\ UNCHANGED <<recorded, ledger, start, out>>
    BY <1>9 DEF Leave, End, hubVars, engineVars
  <2> QED  BY <2>1 DEF Promise!BreakOff
<1>10. CASE UNCHANGED vars
  BY <1>10 DEF vars, clientVars, streamVars, hubVars, engineVars
<1> QED  BY <1>2, <1>3, <1>4, <1>5, <1>6, <1>7, <1>8, <1>9, <1>10
         DEF Next, Relay, Promise!Next

\* The invariant holds at first.
LEMMA CallAtFirst == Init => CallInv
<1> SUFFICES ASSUME Init PROVE CallInv
  OBVIOUS
<1>1. Served
  BY ServedAtFirst DEF Init
<1>2. CallKept
  <2>1. /\ phase = "idle" /\ used = {} /\ start = 0 /\ resumeFrom = 0
        /\ out = <<>> /\ fellBack = FALSE
    BY DEF Init
  <2>2. out \in Seq(Nat) /\ Len(out) = 0
    BY <2>1
  <2>3. CallTypes
    BY <2>1, <2>2 DEF CallTypes
  <2>4. Due = 1 /\ NoFalseDemotion
    BY <2>1 DEF Due, NoFalseDemotion
  <2> QED  BY <2>1, <2>2, <2>3, <2>4 DEF CallKept
<1> QED  BY <1>1, <1>2 DEF CallInv

\* The call is always where its account says: the connection being relayed
\* feeds from the event the caller is due (relay's resumeFrom).
THEOREM CallSafe == Spec => []CallInv
<1>1. CallInv /\ [Next]_vars => CallInv'
  BY CallStep
<1> QED  BY <1>1, CallAtFirst, PTL DEF Spec

\* For every number of connections, ring size and length of run: no subscriber
\* is passed over, no marker lies, and the source gives the engine up only
\* when it is going (Hub.Emit, handleStream, isEngineGone).
THEOREM StreamNeverLies == Spec => []StreamIsHonest
<1>1. CallInv => StreamIsHonest
  <2> SUFFICES ASSUME CallInv PROVE StreamIsHonest
    OBVIOUS
  <2>1. NoEventSkipped
    BY NothingIsSkipped DEF CallInv
  <2>2. NoFalseDemotion
    BY DEF CallInv, CallKept
  <2>3. MarkersTruthful
    BY DEF CallInv, Served, ConnKept, OnWire, MarkersTruthful
  <2> QED  BY <2>1, <2>2, <2>3 DEF StreamIsHonest
<1> QED  BY <1>1, CallSafe, PTL

\* FallbackSource.Subscribe implements Delivery: across reconnects, broken
\* connections, overflows and the move to disk the caller gets the events from
\* the one it asked for, in order, each once, none before it is recorded, and
\* the end only after the last.
THEOREM SubscribeImplementsDelivery == Spec => ImplementsDelivery
<1>1. Init => Promise!Init
  BY DEF Init, StreamInit, HubInit, Promise!Init
<1>2. CallInv /\ [Next]_vars => [Promise!Next]_(Promise!deliveryVars)
  BY DeliveryStep
<1> QED  BY <1>1, <1>2, CallSafe, PTL DEF Spec, ImplementsDelivery, Promise!Spec
=============================================================================
