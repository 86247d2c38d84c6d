---------------------------- MODULE StreamProofs ----------------------------
(***************************************************************************)
(* What the hub and the attach server keep true whoever reads from them,   *)
(* for any number of connections, any ring and any length of run.  The     *)
(* inductive invariant Served says of the ring that it holds the newest    *)
(* events, of a subscriber that the events it took and the ones in its     *)
(* channel are one run of consecutive numbers that starts where it asked   *)
(* and ends at the fold, and of a connection what its handler remembers    *)
(* and what a marker on its wire means.  Feeds is a reader's view of one   *)
(* connection: what it will get next, as long as it gets anything.         *)
(*                                                                         *)
(* The readers' proofs (FallbackProofs, TailProofs) rest on ServerStep     *)
(* and the lemmas about Feeds.                                             *)
(***************************************************************************)
EXTENDS Stream, FiniteSetTheorems, SequenceTheorems, TLAPS

Item == [kind : {"event", "overflowed", "run_ended"}, seq : Nat]

HubTypes ==
    /\ recorded \in Nat /\ folded \in Nat
    /\ ledger \in {"open", "broken", "sealed"} /\ emitting \in BOOLEAN
    /\ ring \in [Slots -> Nat] /\ ringPos \in Slots
    /\ ringLen \in 0 .. RingSize /\ ringLo \in Nat
    /\ evicted \in BOOLEAN /\ closed \in BOOLEAN
    /\ subs \subseteq joined /\ joined \subseteq Subs
    /\ dropped \subseteq joined \ subs
    /\ asked \in [Subs -> Nat] /\ next \in [Subs -> Nat]
    /\ queue \in [Subs -> Seq(Nat)] /\ taken \in [Subs -> Seq(Nat)]

ServerTypes ==
    /\ server \in {"up", "closing", "done", "gone"}
    /\ conn \in [Subs -> {"unused", "open", "ended", "cut"}]
    /\ handler \in [Subs -> {"none", "streaming", "returned"}]
    /\ lastSeq \in [Subs -> Nat]
    /\ wire \in [Subs -> Seq(Item)]

\* The hub is at most the one event behind the ledger that emitMu is held for.
FoldKept ==
    /\ folded <= recorded
    /\ ~closed => recorded = IF emitting THEN folded + 1 ELSE folded
    /\ closed => ledger # "open" /\ ~emitting

\* RingIsRecent position by position, and where the ring starts until it wraps.
RingKept ==
    /\ ringLen = IF folded < RingSize THEN folded ELSE RingSize
    /\ \A i \in 1 .. ringLen :
          ring[(ringPos + i - 1) % RingSize] = (folded - ringLen) + i
    /\ ringLen < RingSize => ringPos = 0
    /\ ringLen > 0 => ringLo = folded - ringLen + 1
    /\ evicted <=> folded > RingSize

First(s) == Max2(asked[s], 1)

\* How much s has read from its channel, how much is in it, and how much the
\* hub has put there; how much is on its connection.
Took(s) == Len(taken[s])
Held(s) == Len(queue[s])
Count(s) == Took(s) + Held(s)
OnWire(s) == Len(wire[s])

\* As many events as there are from First(s) up to the fold.
UpToDate(s) == Count(s) = IF folded >= First(s) THEN folded + 1 - First(s) ELSE 0

\* One subscriber's channel: consecutive events from the one asked for on,
\* all of them while it is registered, and one less than all once dropped.
SubKept(s) ==
    /\ s \notin joined => taken[s] = <<>> /\ queue[s] = <<>>
    /\ \A i \in 1 .. Took(s) : taken[s][i] = First(s) + i - 1
    /\ \A i \in 1 .. Held(s) : queue[s][i] = First(s) + Took(s) + i - 1
    /\ Count(s) > 0 => First(s) + Count(s) <= folded + 1
    /\ s \in subs => /\ UpToDate(s)
                     /\ next[s] = IF Count(s) = 0 THEN asked[s] ELSE First(s) + Count(s)
    /\ s \in dropped => Count(s) > 0 /\ First(s) + Count(s) <= folded

\* One connection: what its handler remembers, why its channel is closed,
\* and what the markers on its wire mean.
ConnKept(s) ==
    /\ s \notin joined => /\ conn[s] = "unused" /\ handler[s] = "none"
                          /\ wire[s] = <<>> /\ lastSeq[s] = 0
    /\ conn[s] = "open" => handler[s] = "streaming"
    /\ handler[s] = "streaming" =>
          /\ s \in joined
          /\ lastSeq[s] = IF Took(s) = 0 THEN 0
                          ELSE First(s) + Took(s) - 1
          /\ s \notin subs \cup dropped => closed /\ UpToDate(s)
    /\ \A i \in 1 .. OnWire(s) :
          /\ wire[s][i].kind = "overflowed" => s \in dropped
          /\ wire[s][i].kind = "run_ended" => closed /\ s \notin dropped

Served ==
    /\ HubTypes /\ ServerTypes
    /\ FoldKept /\ RingKept
    /\ \A s \in Subs : SubKept(s) /\ ConnKept(s)

\* What a reader of connection c, that is due event r next, can rely on: the
\* events on the wire are r, r + 1, ... and folded; while the connection is
\* open the handler goes on from there; the end is told only after the last.
Feeds(c, r) ==
    /\ c \in joined
    /\ \A i \in 1 .. OnWire(c) :
          /\ wire[c][i].kind = "event" =>
                wire[c][i].seq = r + i - 1 /\ r + i <= folded + 1
          /\ wire[c][i].kind = "run_ended" => r + i > folded + 1
    /\ conn[c] = "open" => First(c) + Took(c) = r + OnWire(c)
-----------------------------------------------------------------------------
(* The ring. *)

\* Positions in the ring wrap once at most.
LEMMA Wraps ==
    ASSUME NEW n \in Nat \ {0}, NEW a \in Nat, a < 2 * n
    PROVE  a % n = IF a < n THEN a ELSE a - n
<1>1. CASE a < n
  BY <1>1
<1>2. CASE a >= n
  BY <1>2
<1> QED  BY <1>1, <1>2

\* What ringSnapshot returns: the newest ringLen events.
LEMMA SnapshotIsRecent ==
    ASSUME HubTypes, RingKept
    PROVE  /\ RingSnapshot = [i \in 1 .. ringLen |-> (folded - ringLen) + i]
           /\ RingSnapshot \in Seq(Nat) /\ Len(RingSnapshot) = ringLen
           /\ folded - ringLen \in Nat
<1>1. folded - ringLen \in Nat
  BY HubAssumption DEF HubTypes, RingKept
<1>2. RingSnapshot = [i \in 1 .. ringLen |-> (folded - ringLen) + i]
  BY DEF RingSnapshot, RingKept
<1>3. ringLen \in Nat
  BY HubAssumption DEF HubTypes
<1> HIDE DEF RingSnapshot
<1> QED  BY <1>1, <1>2, <1>3

\* Subscribe's replay, of a resume point the ring still has: the events from
\* it up to the fold.
LEMMA ReplayIsTheRest ==
    ASSUME HubTypes, RingKept, NEW from \in Nat, ~Overflow(from)
    PROVE  LET n == IF folded >= Max2(from, 1) THEN folded + 1 - Max2(from, 1) ELSE 0
           IN Replay(from) = [k \in 1 .. n |-> Max2(from, 1) + k - 1]
<1> DEFINE first == Max2(from, 1)
           n == IF folded >= first THEN folded + 1 - first ELSE 0
           lo == (folded - ringLen) + 1
           d == ringLen - n
           kept == {i \in 1 .. ringLen : RingSnapshot[i] >= from}
           kth(k) == CHOOSE i \in kept : Cardinality({j \in kept : j <= i}) = k
<1>1. /\ first \in Nat /\ n \in Nat /\ lo \in Nat /\ d \in Nat
      /\ ringLen = d + n
      /\ n > 0 => first = lo + d /\ (from = first \/ (from = 0 /\ lo = 1 /\ d = 0))
      /\ n = 0 => from >= lo + ringLen \/ ringLen = 0
  BY HubAssumption DEF HubTypes, RingKept, Overflow, Max2
<1>2. \A i \in 1 .. ringLen : RingSnapshot[i] = lo + i - 1
  BY SnapshotIsRecent DEF HubTypes
<1> HIDE DEF first, n, lo, d
<1>3. kept = d + 1 .. d + n
  <2>1. \A i \in 1 .. ringLen : RingSnapshot[i] >= from <=> i >= d + 1
    BY <1>1, <1>2
  <2> QED  BY <2>1, <1>1
<1>4. Cardinality(kept) = n
  <2>1. d + 1 \in Int /\ d + n \in Int
    BY <1>1
  <2>2. Cardinality(d + 1 .. d + n) =
            IF d + 1 > d + n THEN 0 ELSE (d + n) - (d + 1) + 1
    BY <2>1, FS_Interval
  <2> HIDE DEF kept
  <2> QED  BY <2>2, <1>1, <1>3
<1>5. ASSUME NEW k \in 1 .. n PROVE RingSnapshot[kth(k)] = first + k - 1
  <2>1. ASSUME NEW i \in kept PROVE Cardinality({j \in kept : j <= i}) = i - d
    <3> HIDE DEF kept
    <3>1. i \in Int /\ i >= d + 1 /\ {j \in kept : j <= i} = d + 1 .. i
      BY <1>1, <1>3
    <3>2. Cardinality(d + 1 .. i) = IF d + 1 > i THEN 0 ELSE i - (d + 1) + 1
      BY <3>1, <1>1, FS_Interval
    <3>3. Cardinality({j \in kept : j <= i}) = Cardinality(d + 1 .. i)
      BY <3>1
    <3>4. Cardinality(d + 1 .. i) = i - d
      BY <3>1, <3>2, <1>1
    <3> QED  BY <3>3, <3>4
  <2> HIDE DEF kept
  <2>2. d + k \in kept /\ \A i \in kept : i - d = k <=> i = d + k
    BY <1>1, <1>3
  <2>3. kth(k) = d + k
    BY <2>1, <2>2
  <2> HIDE DEF kth
  <2> QED  BY <2>3, <1>1, <1>2
<1> HIDE DEF kept
<1>6. Replay(from) = [k \in 1 .. Cardinality(kept) |-> RingSnapshot[kth(k)]]
  BY DEF Replay, kept
<1>7. Replay(from) = [k \in 1 .. n |-> RingSnapshot[kth(k)]]
  BY <1>4, <1>6
<1> HIDE DEF kth
<1>8. Replay(from) = [k \in 1 .. n |-> first + k - 1]
  BY <1>5, <1>7
<1> QED  BY <1>8 DEF n, first

\* appendToRing: the newest event takes the oldest one's place.
LEMMA RingStep ==
    ASSUME HubTypes, RingKept, folded' = folded + 1, AppendToRing(folded + 1)
    PROVE  /\ RingKept'
           /\ ring' \in [Slots -> Nat] /\ ringPos' \in Slots /\ ringLen' \in 0 .. RingSize
           /\ ringLo' \in Nat /\ evicted' \in BOOLEAN
<1> DEFINE at(p, i) == (p + i - 1) % RingSize
<1>1. /\ RingSize \in Nat \ {0} /\ folded \in Nat /\ ringLen \in 0 .. RingSize
      /\ ringPos \in 0 .. RingSize - 1 /\ ring \in [0 .. RingSize - 1 -> Nat]
      /\ ringLo \in Nat /\ evicted \in BOOLEAN
  BY HubAssumption DEF HubTypes, Slots
<1>2. \A p \in 0 .. RingSize - 1, i \in 1 .. RingSize :
          /\ at(p, i) \in 0 .. RingSize - 1
          /\ at(p, i) = IF p + i - 1 < RingSize THEN p + i - 1 ELSE p + i - 1 - RingSize
  <2> TAKE p \in 0 .. RingSize - 1, i \in 1 .. RingSize
  <2> DEFINE a == p + i - 1
  <2>1. a \in Nat /\ a < 2 * RingSize
    BY <1>1
  <2>2. at(p, i) = a % RingSize
    OBVIOUS
  <2> HIDE DEF a, at
  <2>3. a % RingSize = IF a < RingSize THEN a ELSE a - RingSize
    BY <2>1, <1>1, Wraps
  <2>4. at(p, i) \in 0 .. RingSize - 1
    BY <2>1, <2>2, <2>3, <1>1
  <2>5. at(p, i) = IF a < RingSize THEN a ELSE a - RingSize
    BY <2>2, <2>3
  <2> QED  BY <2>4, <2>5, <1>1 DEF a
<1>3. \A i \in 1 .. ringLen : ring[at(ringPos, i)] = (folded - ringLen) + i
  BY DEF RingKept
<1>31. /\ ringLen = IF folded < RingSize THEN folded ELSE RingSize
       /\ ringLen < RingSize => ringPos = 0
       /\ ringLen > 0 => ringLo = folded - ringLen + 1
       /\ evicted <=> folded > RingSize
  BY DEF RingKept
<1> HIDE DEF at
<1>4. CASE ringLen < RingSize
  <2>1. ringPos = 0 /\ ringLen = folded /\ ringPos' = 0 /\ ringLen' = ringLen + 1
    BY <1>1, <1>31, <1>4 DEF AppendToRing
  <2>21. (ringPos + ringLen) % RingSize = ringLen
    <3>1. ringLen + 1 \in 1 .. RingSize /\ (0 + (ringLen + 1)) - 1 = ringPos + ringLen
      BY <2>1, <1>1, <1>4
    <3>2. at(0, ringLen + 1) = ringLen
      BY <3>1, <1>1, <1>2, <1>4
    <3> QED  BY <3>1, <3>2 DEF at
  <2>2. ring' = [ring EXCEPT ![ringLen] = folded + 1]
    BY <2>21, <1>4 DEF AppendToRing
  <2>3. ASSUME NEW i \in 1 .. ringLen' PROVE ring'[at(ringPos', i)] = (folded' - ringLen') + i
    <3>1. at(ringPos', i) = i - 1 /\ at(ringPos, i) = i - 1 /\ i \in 1 .. RingSize
      BY <2>1, <1>1, <1>2, <1>4
    <3>2. CASE i = ringLen'
      BY <3>1, <3>2, <2>1, <2>2, <1>1, <1>4
    <3>3. CASE i # ringLen'
      <4>1. i \in 1 .. ringLen /\ ring[i - 1] = (folded - ringLen) + i
        BY <3>3, <3>1, <2>1, <1>1, <1>3
      <4> QED  BY <4>1, <3>1, <2>1, <2>2, <1>1, <1>4
    <3> QED  BY <3>2, <3>3
  <2>4. ringLo' = 1 /\ evicted' = evicted /\ ~evicted
    BY <2>1, <1>1, <1>31, <1>4 DEF AppendToRing
  <2>5. ring' \in [Slots -> Nat] /\ ringPos' \in Slots /\ ringLen' \in 0 .. RingSize
    BY <2>1, <2>2, <1>1, <1>4 DEF Slots
  <2>6. RingKept'
    BY <2>1, <2>3, <2>4, <1>1, <1>4 DEF RingKept, at
  <2>7. evicted' \in BOOLEAN /\ ringLo' \in Nat
    BY <2>4, <1>1
  <2> QED  BY <2>5, <2>6, <2>7
<1>5. CASE ringLen = RingSize
  <2>1. /\ ring' = [ring EXCEPT ![ringPos] = folded + 1]
        /\ ringPos' = (ringPos + 1) % RingSize /\ ringLen' = RingSize
        /\ evicted' = TRUE /\ ringLo' = ring'[ringPos'] /\ folded >= RingSize
    BY <1>1, <1>31, <1>5 DEF AppendToRing
  <2>2. ringPos' = IF ringPos + 1 < RingSize THEN ringPos + 1 ELSE 0
    <3> DEFINE b == ringPos + 1
    <3>1. b \in Nat /\ b < 2 * RingSize /\ b <= RingSize
      BY <1>1
    <3>2. ringPos' = b % RingSize
      BY <2>1
    <3> HIDE DEF b
    <3>3. b % RingSize = IF b < RingSize THEN b ELSE b - RingSize
      BY <3>1, <1>1, Wraps
    <3>4. ringPos' = IF b < RingSize THEN b ELSE 0
      BY <3>1, <3>2, <3>3, <1>1
    <3> QED  BY <3>4 DEF b
  <2>3. ring' \in [Slots -> Nat] /\ ringPos' \in Slots /\ ringLen' \in 0 .. RingSize
    BY <2>1, <2>2, <1>1 DEF Slots
  <2>4. ASSUME NEW i \in 1 .. ringLen' PROVE ring'[at(ringPos', i)] = (folded' - ringLen') + i
    <3>1. i \in 1 .. RingSize /\ ringPos' \in 0 .. RingSize - 1
      BY <2>1, <2>3 DEF Slots
    <3>2. CASE i = RingSize
      <4>1. at(ringPos', i) = ringPos
        <5>1. at(ringPos', RingSize) = IF ringPos' + RingSize - 1 < RingSize THEN ringPos' + RingSize - 1
                                       ELSE ringPos' + RingSize - 1 - RingSize
          BY <3>1, <3>2, <1>2
        <5>2. CASE ringPos + 1 < RingSize
          BY <5>1, <5>2, <3>2, <2>2, <1>1
        <5>3. CASE ~(ringPos + 1 < RingSize)
          BY <5>1, <5>3, <3>2, <2>2, <1>1
        <5> QED  BY <5>2, <5>3
      <4> QED  BY <4>1, <3>2, <2>1, <1>1
    <3>3. CASE i # RingSize
      <4>1. i + 1 \in 1 .. ringLen /\ i + 1 \in 1 .. RingSize
        BY <3>1, <3>3, <1>1, <1>5
      <4>21. at(ringPos, i + 1) =
                 IF ringPos + i < RingSize THEN ringPos + i ELSE ringPos + i - RingSize
        <5>1. ringPos + (i + 1) - 1 = ringPos + i
          BY <3>1, <1>1
        <5>2. i + 1 \in 1 .. RingSize /\ ringPos \in 0 .. RingSize - 1
          BY <4>1, <1>1
        <5>3. at(ringPos, i + 1) = IF ringPos + (i + 1) - 1 < RingSize
                                   THEN ringPos + (i + 1) - 1
                                   ELSE ringPos + (i + 1) - 1 - RingSize
          BY <5>2, <1>2
        <5> QED  BY <5>1, <5>3, <3>1, <1>1
      <4>22. at(ringPos', i) =
                 IF ringPos + i < RingSize THEN ringPos + i ELSE ringPos + i - RingSize
        <5>1. at(ringPos', i) = IF ringPos' + i - 1 < RingSize
                                THEN ringPos' + i - 1
                                ELSE ringPos' + i - 1 - RingSize
          BY <3>1, <1>2
        <5> QED  BY <5>1, <3>1, <3>3, <2>2, <1>1
      <4>2. at(ringPos', i) = at(ringPos, i + 1) /\ at(ringPos, i + 1) # ringPos
            /\ at(ringPos, i + 1) \in 0 .. RingSize - 1
        BY <4>21, <4>22, <3>1, <3>3, <1>1
      <4>3. ring[at(ringPos, i + 1)] = (folded - ringLen) + (i + 1)
        BY <4>1, <1>3
      <4> QED  BY <4>2, <4>3, <3>1, <2>1, <1>1, <1>5
    <3> QED  BY <3>2, <3>3
  <2>5. ringLo' = folded' - ringLen' + 1 /\ ringLo' \in Nat
    <3>1. 1 \in 1 .. ringLen' /\ at(ringPos', 1) = ringPos'
      BY <2>1, <2>2, <1>1, <1>2
    <3>2. ringLo' = (folded' - ringLen') + 1
      BY <3>1, <2>4, <2>1
    <3> QED  BY <3>2, <2>1, <1>1
  <2>6. RingKept'
    BY <2>1, <2>4, <2>5, <1>1 DEF RingKept, at
  <2> QED  BY <2>1, <2>3, <2>5, <2>6
<1> QED  BY <1>1, <1>4, <1>5

\* Any step that leaves the fold and the ring alone keeps the ring.
LEMMA RingUntouched ==
    ASSUME RingKept, UNCHANGED <<folded, ringVars>> PROVE RingKept'
BY DEF RingKept, ringVars

-----------------------------------------------------------------------------
(* The hub's and the server's steps. *)

\* Types of what is said of one subscriber.
LEMMA SubTypes ==
    ASSUME HubTypes, NEW s \in Subs
    PROVE  /\ asked[s] \in Nat /\ next[s] \in Nat /\ folded \in Nat
           /\ taken[s] \in Seq(Nat) /\ queue[s] \in Seq(Nat)
           /\ Took(s) \in Nat /\ Held(s) \in Nat /\ Count(s) \in Nat
           /\ First(s) \in Nat /\ First(s) >= 1 /\ First(s) >= asked[s]
           /\ First(s) = IF asked[s] = 0 THEN 1 ELSE asked[s]
<1>1. /\ asked[s] \in Nat /\ next[s] \in Nat /\ folded \in Nat
      /\ taken[s] \in Seq(Nat) /\ queue[s] \in Seq(Nat)
  BY DEF HubTypes
<1>2. Took(s) \in Nat /\ Held(s) \in Nat
  BY <1>1 DEF Took, Held
<1>3. Count(s) \in Nat
  BY <1>2 DEF Count
<1> QED  BY <1>1, <1>2, <1>3 DEF First, Max2

\* A step that does not concern subscriber s keeps what is said of it.
LEMMA NotConcerned ==
    ASSUME NEW s \in Subs, SubKept(s), ConnKept(s),
           taken'[s] = taken[s], queue'[s] = queue[s], asked'[s] = asked[s],
           next'[s] = next[s], conn'[s] = conn[s], handler'[s] = handler[s],
           lastSeq'[s] = lastSeq[s], wire'[s] = wire[s],
           s \in joined' <=> s \in joined, s \in subs' <=> s \in subs,
           s \in dropped' <=> s \in dropped,
           folded' = folded, closed' = closed
    PROVE  SubKept(s)' /\ ConnKept(s)'
<1>1. SubKept(s)'
  BY DEF SubKept, First, Count, Took, Held, UpToDate
<1>2. ConnKept(s)'
  BY DEF ConnKept, First, Count, Took, Held, OnWire, UpToDate
<1> QED  BY <1>1, <1>2

\* Hub.Emit: the fold, the ring and every registered subscriber move on.
LEMMA EmitStep ==
    ASSUME Served, Emit, UNCHANGED serverVars
    PROVE  Served'
<1> USE DEF serverVars
<1>1. CASE closed
  <2>1. HubTypes' /\ ServerTypes' /\ FoldKept'
    BY <1>1 DEF Served, Emit, HubTypes, ServerTypes, FoldKept, ringVars
  <2>2. RingKept'
    BY <1>1, RingUntouched DEF Served, Emit
  <2>3. ASSUME NEW s \in Subs PROVE SubKept(s)' /\ ConnKept(s)'
    BY <1>1, NotConcerned DEF Served, Emit
  <2> QED  BY <2>1, <2>2, <2>3 DEF Served
<1>2. CASE ~closed
  <2> DEFINE e == recorded
             wanting == {s \in subs : next[s] <= e}
             full == {s \in wanting : Len(queue[s]) >= Capacity}
             served == wanting \ full
  <2>1. /\ recorded = folded + 1 /\ folded' = recorded /\ recorded' = recorded
        /\ emitting /\ emitting' = FALSE /\ closed' = closed /\ ledger' = ledger
        /\ UNCHANGED <<joined, asked, taken>>
        /\ AppendToRing(recorded)
    BY <1>2 DEF Served, Emit, FoldKept
  <2>2. /\ queue' = [s \in Subs |-> IF s \in served THEN Append(queue[s], e) ELSE queue[s]]
        /\ next' = [s \in Subs |-> IF s \in served THEN e + 1 ELSE next[s]]
        /\ subs' = subs \ full
        /\ dropped' = dropped \cup full
    BY <1>2 DEF Emit, FanOut
  <2>3. HubTypes /\ ServerTypes /\ RingKept /\ FoldKept
    BY DEF Served
  <2>4. FoldKept'
    BY <2>1, <2>3, <1>2 DEF FoldKept, HubTypes
  <2>5. /\ RingKept'
        /\ ring' \in [Slots -> Nat] /\ ringPos' \in Slots /\ ringLen' \in 0 .. RingSize
        /\ ringLo' \in Nat /\ evicted' \in BOOLEAN
    BY <2>1, <2>3, RingStep
  <2>6. ServerTypes'
    BY <2>3 DEF ServerTypes
  <2>7. full \subseteq subs /\ served \subseteq subs
    OBVIOUS
  <2>8. Capacity \in Nat /\ Capacity >= 2
    BY HubAssumption DEF Capacity
  <2>9. ASSUME NEW s \in Subs
        PROVE  /\ SubKept(s)' /\ ConnKept(s)'
               /\ queue'[s] \in Seq(Nat) /\ next'[s] \in Nat
    <3>1. /\ SubKept(s) /\ ConnKept(s) /\ e \in Nat /\ First(s)' = First(s)
          /\ asked[s] \in Nat /\ next[s] \in Nat /\ folded \in Nat
          /\ taken[s] \in Seq(Nat) /\ queue[s] \in Seq(Nat)
          /\ Took(s) \in Nat /\ Held(s) \in Nat /\ Count(s) \in Nat
          /\ First(s) \in Nat /\ First(s) >= 1 /\ First(s) >= asked[s]
          /\ First(s) = IF asked[s] = 0 THEN 1 ELSE asked[s]
      BY <2>1, <2>3, SubTypes DEF Served, HubTypes, First
    <3>2. s \in served => s \notin full
      OBVIOUS
    <3>3. s \in served <=> s \in subs /\ next[s] <= e /\ Held(s) < Capacity
      BY <3>1, <2>8 DEF Held
    <3>4. s \in full <=> s \in subs /\ next[s] <= e /\ Held(s) >= Capacity
      BY DEF Held
    <3>5. /\ queue'[s] = IF s \in served THEN Append(queue[s], e) ELSE queue[s]
          /\ next'[s] = IF s \in served THEN e + 1 ELSE next[s]
          /\ taken'[s] = taken[s] /\ asked'[s] = asked[s] /\ Took(s)' = Took(s)
          /\ (s \in subs') <=> (s \in subs /\ s \notin full)
          /\ (s \in dropped') <=> (s \in dropped \/ s \in full)
          /\ (s \in joined') <=> (s \in joined)
          /\ s \in dropped => s \notin subs /\ s \in joined
          /\ s \in subs => s \in joined
          /\ conn' = conn /\ handler' = handler /\ lastSeq' = lastSeq /\ wire' = wire
      BY <2>1, <2>2, <2>3 DEF HubTypes, Took
    <3> HIDE DEF served, full, wanting
    <3>6. queue'[s] \in Seq(Nat) /\ next'[s] \in Nat
      BY <3>1, <3>5
    <3>7. s \in subs /\ next[s] <= e =>
             /\ First(s) + Count(s) = e
             /\ Count(s) \in Nat
      BY <3>1, <2>1 DEF SubKept, UpToDate
    <3>8. s \in subs /\ next[s] > e => First(s) > e /\ Count(s) = 0 /\ next[s] = asked[s]
      BY <3>1, <2>1 DEF SubKept, UpToDate
    <3>9. SubKept(s)'
      <4>1. CASE s \in served
        <5>1. /\ Held(s)' = Held(s) + 1
              /\ \A i \in 1 .. Held(s) : queue'[s][i] = queue[s][i]
              /\ queue'[s][Held(s) + 1] = e
          BY <4>1, <3>1, <3>5 DEF Held
        <5>2. First(s) + Took(s) + Held(s) = e
          BY <4>1, <3>1, <3>3, <3>7 DEF Count
        <5>3. \A i \in 1 .. Held(s)' : queue'[s][i] = First(s) + Took(s) + i - 1
          <6> TAKE i \in 1 .. Held(s)'
          <6>1. CASE i = Held(s) + 1
            BY <6>1, <5>1, <5>2, <3>1
          <6>2. CASE i \in 1 .. Held(s)
            BY <6>2, <5>1, <3>1 DEF SubKept
          <6> QED  BY <6>1, <6>2, <5>1, <3>1
        <5>4. Count(s)' = Count(s) + 1
          BY <5>1, <3>1, <3>5 DEF Count
        <5>5. First(s) + Count(s) = folded'
          BY <4>1, <3>3, <3>7, <2>1
        <5>6. /\ First(s)' + Count(s)' = folded' + 1 /\ Count(s)' > 0
              /\ Count(s)' = folded' + 1 - First(s)' /\ folded' >= First(s)'
          <6>1. folded' \in Nat /\ First(s)' = First(s) /\ First(s) \in Nat
                /\ First(s) >= 1 /\ Count(s) \in Nat
            BY <3>1, <2>1
          <6>2. Count(s)' \in Nat /\ Count(s)' > 0
            BY <5>4, <6>1
          <6>3. First(s)' + Count(s)' = folded' + 1
            BY <5>4, <5>5, <6>1
          <6>4. Count(s)' = folded' + 1 - First(s)'
            BY <6>1, <6>2, <6>3
          <6>5. folded' >= First(s)'
            BY <5>5, <6>1
          <6> QED  BY <6>2, <6>3, <6>4, <6>5
        <5>7. s \in joined' /\ s \notin dropped' /\ next'[s] = folded' + 1
          BY <4>1, <3>2, <3>3, <3>5, <2>1
        <5>8. \A i \in 1 .. Took(s)' : taken'[s][i] = First(s)' + i - 1
          BY <3>1, <3>5 DEF SubKept
        <5>9. \A i \in 1 .. Held(s)' : queue'[s][i] = First(s)' + Took(s)' + i - 1
          BY <5>3, <3>1, <3>5
        <5>10. UpToDate(s)' /\ next'[s] = First(s)' + Count(s)' /\ Count(s)' # 0
          BY <5>6, <5>7 DEF UpToDate
        <5>11. First(s)' + Count(s)' <= folded' + 1
          BY <5>6, <3>1, <2>1
        <5> QED  BY <5>7, <5>8, <5>9, <5>10, <5>11 DEF SubKept
      <4>2. CASE s \in full
        <5>1. Held(s)' = Held(s) /\ queue'[s] = queue[s]
          BY <4>2, <3>2, <3>5 DEF Held
        <5>2. Count(s)' = Count(s) /\ Count(s) > 0 /\ First(s) + Count(s) = folded'
          BY <5>1, <4>2, <3>1, <3>2, <3>4, <3>5, <3>7, <2>1, <2>8 DEF Count
        <5>3. s \in joined' /\ s \notin subs'
          BY <4>2, <3>4, <3>5
        <5>4. /\ \A i \in 1 .. Took(s)' : taken'[s][i] = First(s)' + i - 1
              /\ \A i \in 1 .. Held(s)' : queue'[s][i] = First(s)' + Took(s)' + i - 1
          BY <5>1, <3>1, <3>5 DEF SubKept
        <5>5. Count(s)' > 0 /\ First(s)' + Count(s)' = folded'
          BY <5>2, <3>1
        <5>6. folded' \in Nat
          BY <3>1, <2>1
        <5>7. First(s)' + Count(s)' <= folded' /\ First(s)' + Count(s)' <= folded' + 1
          BY <5>5, <5>6
        <5> QED  BY <5>3, <5>4, <5>5, <5>7 DEF SubKept
      <4>3. CASE s \notin full /\ s \notin served
        <5>1. Held(s)' = Held(s) /\ queue'[s] = queue[s] /\ next'[s] = next[s]
          BY <4>3, <3>5 DEF Held
        <5>2. Count(s)' = Count(s) /\ Count(s) \in Nat
          BY <5>1, <3>1, <3>5 DEF Count
        <5>3. s \in subs => First(s) > e /\ Count(s) = 0 /\ next[s] = asked[s]
          BY <4>3, <3>1, <3>3, <3>4, <3>8, <2>8
        <5>4. /\ (s \in subs') <=> (s \in subs)
              /\ (s \in dropped') <=> (s \in dropped)
          BY <4>3, <3>5
        <5>5. /\ s \notin joined' => taken'[s] = <<>> /\ queue'[s] = <<>>
              /\ \A i \in 1 .. Took(s)' : taken'[s][i] = First(s)' + i - 1
              /\ \A i \in 1 .. Held(s)' : queue'[s][i] = First(s)' + Took(s)' + i - 1
          BY <5>1, <3>1, <3>5 DEF SubKept
        <5>6. Count(s)' > 0 => First(s)' + Count(s)' <= folded' + 1
          BY <5>2, <3>1, <2>1 DEF SubKept
        <5>7. s \in subs' => /\ UpToDate(s)'
                             /\ next'[s] = IF Count(s)' = 0 THEN asked'[s] ELSE First(s)' + Count(s)'
          BY <5>1, <5>2, <5>3, <5>4, <3>1, <3>5, <2>1 DEF UpToDate
        <5>8. s \in dropped' => Count(s)' > 0 /\ First(s)' + Count(s)' <= folded'
          BY <5>2, <5>4, <3>1, <2>1 DEF SubKept
        <5> QED  BY <5>5, <5>6, <5>7, <5>8 DEF SubKept
      <4> QED  BY <4>1, <4>2, <4>3
    <3>10. ConnKept(s)'
      <4>1. handler[s] = "streaming" /\ s \notin subs' /\ s \notin dropped' => FALSE
        BY <3>1, <3>5, <1>2 DEF ConnKept
      <4>2. \A i \in 1 .. OnWire(s) : wire[s][i].kind # "run_ended"
        BY <3>1, <1>2 DEF ConnKept
      <4> QED  BY <4>1, <4>2, <3>1, <3>5, <2>1 DEF ConnKept, OnWire
    <3> QED  BY <3>6, <3>9, <3>10
  <2>10. HubTypes'
    <3>1. queue' \in [Subs -> Seq(Nat)] /\ next' \in [Subs -> Nat]
      <4> HIDE DEF served
      <4> QED  BY <2>2, <2>9
    <3>2. subs' \subseteq joined' /\ dropped' \subseteq joined' \ subs' /\ joined' \subseteq Subs
      <4> HIDE DEF full
      <4> QED  BY <2>1, <2>2, <2>3, <2>7 DEF HubTypes
    <3> QED  BY <3>1, <3>2, <2>1, <2>3, <2>5 DEF HubTypes
  <2> QED  BY <2>4, <2>5, <2>6, <2>9, <2>10 DEF Served
<1> QED  BY <1>1, <1>2

\* A receive moves the oldest buffered event to what has been read.
LEMMA ReceiveStep ==
    ASSUME HubTypes, NEW s \in joined, SubKept(s), Receive(s),
           UNCHANGED <<asked, next, folded, joined, dropped>>,
           s \in subs' => s \in subs
    PROVE  /\ SubKept(s)' /\ First(s)' = First(s)
           /\ Took(s)' = Took(s) + 1 /\ Count(s)' = Count(s)
           /\ Head(queue[s]) = First(s) + Took(s) /\ First(s) + Took(s) <= folded
           /\ taken' \in [Subs -> Seq(Nat)] /\ queue' \in [Subs -> Seq(Nat)]
           /\ \A r \in Subs \ {s} : taken'[r] = taken[r] /\ queue'[r] = queue[r]
<1> DEFINE x == Head(queue[s])
<1>1. /\ s \in Subs /\ queue[s] # <<>>
      /\ taken' = [taken EXCEPT ![s] = Append(taken[s], x)]
      /\ queue' = [queue EXCEPT ![s] = Tail(queue[s])]
      /\ taken \in [Subs -> Seq(Nat)] /\ queue \in [Subs -> Seq(Nat)]
  BY DEF Receive, HubTypes
<1>2. /\ asked[s] \in Nat /\ next[s] \in Nat /\ folded \in Nat
      /\ taken[s] \in Seq(Nat) /\ queue[s] \in Seq(Nat)
      /\ Took(s) \in Nat /\ Held(s) \in Nat /\ Count(s) \in Nat
      /\ First(s) \in Nat /\ First(s) >= 1
  BY <1>1, SubTypes
<1>3. Held(s) >= 1 /\ x \in Nat /\ x = queue[s][1]
  BY <1>1, <1>2 DEF Held
<1>4. x = First(s) + Took(s)
  <2>1. 1 \in 1 .. Held(s)
    BY <1>2, <1>3
  <2>2. queue[s][1] = First(s) + Took(s) + 1 - 1
    BY <2>1 DEF SubKept
  <2> QED  BY <2>2, <1>2, <1>3
<1>5. /\ taken'[s] = Append(taken[s], x) /\ queue'[s] = Tail(queue[s])
      /\ taken' \in [Subs -> Seq(Nat)] /\ queue' \in [Subs -> Seq(Nat)]
      /\ \A r \in Subs \ {s} : taken'[r] = taken[r] /\ queue'[r] = queue[r]
  <2>1. Append(taken[s], x) \in Seq(Nat) /\ Tail(queue[s]) \in Seq(Nat)
    BY <1>1, <1>2, <1>3
  <2> QED  BY <2>1, <1>1
<1>6. /\ Took(s)' = Took(s) + 1 /\ Held(s)' = Held(s) - 1
      /\ \A i \in 1 .. Took(s) : taken'[s][i] = taken[s][i]
      /\ taken'[s][Took(s) + 1] = x
      /\ \A i \in 1 .. Held(s) - 1 : queue'[s][i] = queue[s][i + 1]
  <2>1. Took(s)' = Took(s) + 1 /\ Held(s)' = Held(s) - 1
    BY <1>1, <1>2, <1>5 DEF Took, Held
  <2>2. /\ \A i \in 1 .. Took(s) : taken'[s][i] = taken[s][i]
        /\ taken'[s][Took(s) + 1] = x
    BY <1>2, <1>3, <1>5 DEF Took
  <2>3. \A i \in 1 .. Held(s) - 1 : queue'[s][i] = queue[s][i + 1]
    BY <1>1, <1>2, <1>3, <1>5 DEF Held
  <2> QED  BY <2>1, <2>2, <2>3
<1>7. Count(s)' = Count(s) /\ First(s)' = First(s) /\ asked'[s] = asked[s] /\ next'[s] = next[s]
  BY <1>2, <1>6 DEF Count, First
<1>8. First(s) + Took(s) <= folded
  <2>1. Count(s) > 0 /\ First(s) + Count(s) <= folded + 1
    BY <1>2, <1>3 DEF SubKept, Count
  <2> QED  BY <2>1, <1>2, <1>3 DEF Count
<1> HIDE DEF x
<1>9. \A i \in 1 .. Took(s)' : taken'[s][i] = First(s)' + i - 1
  <2> TAKE i \in 1 .. Took(s)'
  <2>1. CASE i = Took(s) + 1
    BY <2>1, <1>2, <1>4, <1>6, <1>7
  <2>2. CASE i \in 1 .. Took(s)
    BY <2>2, <1>6, <1>7 DEF SubKept
  <2>3. i = Took(s) + 1 \/ i \in 1 .. Took(s)
    BY <1>2, <1>6
  <2> QED  BY <2>1, <2>2, <2>3
<1>10. \A i \in 1 .. Held(s)' : queue'[s][i] = First(s)' + Took(s)' + i - 1
  <2> TAKE i \in 1 .. Held(s)'
  <2>1. i \in 1 .. Held(s) - 1 /\ i + 1 \in 1 .. Held(s) /\ i \in Nat
    <3>1. i \in 1 .. Held(s) - 1
      BY <1>6
    <3> QED  BY <3>1, <1>2
  <2>2. queue[s][i + 1] = First(s) + Took(s) + (i + 1) - 1
    BY <2>1 DEF SubKept
  <2>3. First(s) + Took(s) + (i + 1) - 1 = First(s)' + Took(s)' + i - 1
    BY <2>1, <1>2, <1>6, <1>7
  <2> QED  BY <2>1, <2>2, <2>3, <1>6
<1>11. SubKept(s)'
  BY <1>7, <1>9, <1>10 DEF SubKept, UpToDate
<1> QED  BY <1>4, <1>5, <1>6, <1>7, <1>8, <1>11 DEF x

\* A step of connection c alone keeps Served if it keeps what is said of c.
LEMMA OneConnection ==
    ASSUME Served, NEW c \in Subs,
           HubTypes', ServerTypes',
           UNCHANGED <<engineVars, folded, ringVars, closed>>,
           SubKept(c)' /\ ConnKept(c)',
           \A s \in Subs \ {c} :
              /\ taken'[s] = taken[s] /\ queue'[s] = queue[s] /\ asked'[s] = asked[s]
              /\ next'[s] = next[s] /\ conn'[s] = conn[s] /\ handler'[s] = handler[s]
              /\ lastSeq'[s] = lastSeq[s] /\ wire'[s] = wire[s]
              /\ (s \in joined' <=> s \in joined) /\ (s \in subs' <=> s \in subs)
              /\ (s \in dropped' <=> s \in dropped)
    PROVE  Served'
<1>1. FoldKept'
  BY DEF Served, FoldKept, engineVars
<1>2. RingKept'
  BY RingUntouched DEF Served
<1>3. ASSUME NEW s \in Subs PROVE SubKept(s)' /\ ConnKept(s)'
  <2>1. CASE s = c
    BY <2>1
  <2>2. CASE s # c
    BY <2>2, NotConcerned DEF Served
  <2> QED  BY <2>1, <2>2
<1> QED  BY <1>1, <1>2, <1>3 DEF Served

\* Markers on the wire of one connection; an appended item.
LEMMA WireGrows ==
    ASSUME NEW w \in Seq(Item), NEW x \in Item
    PROVE  /\ Append(w, x) \in Seq(Item) /\ Len(Append(w, x)) = Len(w) + 1 /\ Len(w) \in Nat
           /\ \A i \in 1 .. Len(Append(w, x)) :
                 \/ i \in 1 .. Len(w) /\ Append(w, x)[i] = w[i]
                 \/ i = Len(w) + 1 /\ Append(w, x)[i] = x
<1>1. Append(w, x) \in Seq(Item) /\ Len(Append(w, x)) = Len(w) + 1 /\ Len(w) \in Nat
  OBVIOUS
<1>2. \A i \in 1 .. Len(w) : Append(w, x)[i] = w[i]
  OBVIOUS
<1>3. Append(w, x)[Len(w) + 1] = x
  OBVIOUS
<1>4. ASSUME NEW i \in 1 .. Len(w) + 1 PROVE i \in 1 .. Len(w) \/ i = Len(w) + 1
  BY <1>1
<1> QED  BY <1>1, <1>2, <1>3, <1>4

\* Reading an event off the wire.
LEMMA WireShrinks ==
    ASSUME NEW w \in Seq(Item), w # <<>>
    PROVE  /\ Tail(w) \in Seq(Item) /\ Len(Tail(w)) = Len(w) - 1 /\ Len(w) \in Nat
           /\ Len(w) >= 1 /\ Head(w) = w[1]
           /\ \A i \in 1 .. Len(Tail(w)) : i + 1 \in 1 .. Len(w) /\ Tail(w)[i] = w[i + 1]
<1>1. Tail(w) \in Seq(Item) /\ Len(Tail(w)) = Len(w) - 1 /\ Len(w) \in Nat /\ Len(w) >= 1
  OBVIOUS
<1>2. \A i \in 1 .. Len(w) - 1 : Tail(w)[i] = w[i + 1] /\ i + 1 \in 1 .. Len(w)
  OBVIOUS
<1> QED  BY <1>1, <1>2

\* A handler writes the event it received.
LEMMA WriteEventStep ==
    ASSUME Served, NEW c \in Subs, WriteEvent(c)
    PROVE  Served'
<1> DEFINE x == Head(queue[c])
           it == EventItem(x)
<1>1. /\ HubTypes /\ ServerTypes /\ SubKept(c) /\ ConnKept(c)
      /\ handler[c] = "streaming" /\ conn[c] = "open" /\ Receive(c) /\ c \in joined
      /\ wire' = [wire EXCEPT ![c] = Append(wire[c], it)]
      /\ lastSeq' = [lastSeq EXCEPT ![c] = x]
      /\ UNCHANGED <<engineVars, folded, ringVars, subs, joined, asked, next, closed,
                     dropped, server, conn, handler, faults>>
  BY DEF Served, WriteEvent, ConnKept
<1>2. /\ SubKept(c)' /\ First(c)' = First(c)
      /\ Took(c)' = Took(c) + 1 /\ Count(c)' = Count(c)
      /\ x = First(c) + Took(c) /\ First(c) + Took(c) <= folded
      /\ taken' \in [Subs -> Seq(Nat)] /\ queue' \in [Subs -> Seq(Nat)]
      /\ \A r \in Subs \ {c} : taken'[r] = taken[r] /\ queue'[r] = queue[r]
  BY <1>1, ReceiveStep
<1>3. First(c) \in Nat /\ First(c) >= 1 /\ Took(c) \in Nat
  BY <1>1, SubTypes
<1>4. x \in Nat /\ it \in Item /\ it.kind = "event"
  BY <1>2, <1>3 DEF Item, EventItem
<1> HIDE DEF x, it
<1>5. wire \in [Subs -> Seq(Item)] /\ lastSeq \in [Subs -> Nat] /\ wire[c] \in Seq(Item)
  BY <1>1 DEF ServerTypes
<1>6. /\ Append(wire[c], it) \in Seq(Item)
      /\ \A i \in 1 .. Len(Append(wire[c], it)) :
            \/ i \in 1 .. Len(wire[c]) /\ Append(wire[c], it)[i] = wire[c][i]
            \/ Append(wire[c], it)[i] = it
  BY <1>4, <1>5, WireGrows
<1>7. HubTypes'
  BY <1>1, <1>2 DEF HubTypes, engineVars, ringVars
<1>8. ServerTypes'
  <2>1. wire' \in [Subs -> Seq(Item)] /\ lastSeq' \in [Subs -> Nat]
    BY <1>1, <1>4, <1>5, <1>6
  <2> QED  BY <2>1, <1>1 DEF ServerTypes
<1>9. ConnKept(c)'
  <2>1. wire'[c] = Append(wire[c], it) /\ lastSeq'[c] = x
    BY <1>1, <1>5
  <2>2. \A i \in 1 .. OnWire(c)' :
           /\ wire'[c][i].kind = "overflowed" => c \in dropped
           /\ wire'[c][i].kind = "run_ended" => closed /\ c \notin dropped
    BY <2>1, <1>1, <1>4, <1>6 DEF ConnKept, OnWire
  <2>3. lastSeq'[c] = First(c)' + Took(c)' - 1 /\ Took(c)' # 0
    BY <2>1, <1>2, <1>3
  <2>4. c \notin subs \cup dropped => closed /\ UpToDate(c)
    BY <1>1 DEF ConnKept
  <2>5. UpToDate(c)' <=> UpToDate(c)
    BY <1>1, <1>2 DEF UpToDate
  <2> QED  BY <2>2, <2>3, <2>4, <2>5, <1>1 DEF ConnKept
<1>10. \A s \in Subs \ {c} : wire'[s] = wire[s] /\ lastSeq'[s] = lastSeq[s]
  BY <1>1, <1>5
<1> QED  BY <1>1, <1>2, <1>7, <1>8, <1>9, <1>10, OneConnection

\* A handler whose channel is closed and drained says why, if it can.
LEMMA WriteMarkerStep ==
    ASSUME Served, NEW c \in Subs, WriteMarker(c)
    PROVE  Served'
<1> DEFINE it == Marker(EndReason(c), lastSeq[c])
<1>1. /\ HubTypes /\ ServerTypes /\ SubKept(c) /\ ConnKept(c)
      /\ handler[c] = "streaming" /\ c \in joined /\ c \notin subs /\ queue[c] = <<>>
      /\ handler' = [handler EXCEPT ![c] = "returned"]
      /\ conn' = [conn EXCEPT ![c] = IF conn[c] = "open" THEN "ended" ELSE conn[c]]
      /\ wire' = [wire EXCEPT ![c] = IF conn[c] = "open" /\ Len(wire[c]) < WireCap
                                     THEN Append(wire[c], it) ELSE wire[c]]
      /\ UNCHANGED <<hubVars, server, lastSeq, faults>>
  BY DEF Served, WriteMarker, ChannelClosed, Finish, Returned
<1>2. /\ First(c) \in Nat /\ First(c) >= 1 /\ Took(c) \in Nat /\ folded \in Nat
      /\ Held(c) = 0 /\ Count(c) = Took(c)
  <2>1. Held(c) = 0
    BY <1>1 DEF Held
  <2> QED  BY <2>1, <1>1, SubTypes DEF Count
<1>3. EndReason(c) = "overflowed" => c \in dropped
  BY <1>1, <1>2 DEF EndReason, ConnKept, UpToDate
<1>4. EndReason(c) # "overflowed" => closed /\ c \notin dropped
  BY <1>1, <1>2 DEF EndReason, ConnKept, SubKept
<1>5. /\ wire \in [Subs -> Seq(Item)] /\ wire[c] \in Seq(Item)
      /\ lastSeq[c] \in Nat
  BY <1>1 DEF ServerTypes
<1>6. it \in Item /\ it.kind = EndReason(c) /\ EndReason(c) \in {"overflowed", "run_ended"}
  BY <1>5 DEF Item, Marker, EndReason
<1> HIDE DEF it
<1>7. /\ Append(wire[c], it) \in Seq(Item)
      /\ \A i \in 1 .. Len(Append(wire[c], it)) :
            \/ i \in 1 .. Len(wire[c]) /\ Append(wire[c], it)[i] = wire[c][i]
            \/ Append(wire[c], it)[i] = it
  BY <1>5, <1>6, WireGrows
<1>8. HubTypes' /\ SubKept(c)'
  BY <1>1 DEF HubTypes, SubKept, UpToDate, Count, Took, Held, First, hubVars, engineVars,
              ringVars, subVars
<1>9. ServerTypes'
  <2>1. /\ conn' \in [Subs -> {"unused", "open", "ended", "cut"}]
        /\ handler' \in [Subs -> {"none", "streaming", "returned"}]
    BY <1>1 DEF ServerTypes
  <2>2. wire' \in [Subs -> Seq(Item)]
    BY <1>1, <1>5, <1>7
  <2> QED  BY <2>1, <2>2, <1>1 DEF ServerTypes
<1>10. ConnKept(c)'
  <2>1. handler'[c] = "returned" /\ conn'[c] # "open" /\ c \in joined'
    BY <1>1 DEF ServerTypes, hubVars, subVars
  <2>2. wire'[c] = Append(wire[c], it) \/ wire'[c] = wire[c]
    BY <1>1, <1>5
  <2>3. closed' = closed /\ dropped' = dropped
    BY <1>1 DEF hubVars
  <2>4. \A i \in 1 .. OnWire(c)' :
           /\ wire'[c][i].kind = "overflowed" => c \in dropped
           /\ wire'[c][i].kind = "run_ended" => closed /\ c \notin dropped
    BY <2>2, <1>1, <1>3, <1>4, <1>6, <1>7 DEF ConnKept, OnWire
  <2> QED  BY <2>1, <2>3, <2>4 DEF ConnKept
<1>11. \A s \in Subs \ {c} :
          wire'[s] = wire[s] /\ conn'[s] = conn[s] /\ handler'[s] = handler[s]
  BY <1>1 DEF ServerTypes
<1> QED  BY <1>1, <1>8, <1>9, <1>10, <1>11, OneConnection DEF hubVars, subVars

\* A handler leaves, with one event more on the wire or without.
LEMMA HandlerLeavesStep ==
    ASSUME Served, NEW c \in Subs, HandlerLeaves(c)
    PROVE  Served'
<1> DEFINE it == EventItem(Head(queue[c]))
<1>1. /\ HubTypes /\ ServerTypes /\ SubKept(c) /\ ConnKept(c)
      /\ handler[c] = "streaming" /\ c \in joined
      /\ handler' = [handler EXCEPT ![c] = "returned"]
      /\ conn' = [conn EXCEPT ![c] = IF conn[c] = "open" THEN "ended" ELSE conn[c]]
      /\ subs' = subs \ {c}
      /\ UNCHANGED <<engineVars, folded, ringVars, joined, asked, next, closed,
                     dropped, server, lastSeq, faults>>
  BY DEF Served, HandlerLeaves, Finish, Returned, Cancel, ConnKept
<1>2. /\ wire \in [Subs -> Seq(Item)] /\ wire[c] \in Seq(Item)
      /\ taken \in [Subs -> Seq(Nat)] /\ queue \in [Subs -> Seq(Nat)]
  BY <1>1 DEF ServerTypes, HubTypes
<1>3. /\ SubKept(c)' /\ wire' \in [Subs -> Seq(Item)]
      /\ taken' \in [Subs -> Seq(Nat)] /\ queue' \in [Subs -> Seq(Nat)]
      /\ \A s \in Subs \ {c} :
            taken'[s] = taken[s] /\ queue'[s] = queue[s] /\ wire'[s] = wire[s]
      /\ \A i \in 1 .. OnWire(c)' :
            (i \in 1 .. OnWire(c) /\ wire'[c][i] = wire[c][i]) \/ wire'[c][i].kind = "event"
  <2>1. CASE queue[c] = <<>>
    <3>1. UNCHANGED <<queue, taken, wire>>
      BY <2>1 DEF HandlerLeaves
    <3>2. SubKept(c)'
      BY <3>1, <1>1 DEF SubKept, UpToDate, Count, Took, Held, First
    <3>3. OnWire(c)' = OnWire(c)
      BY <3>1 DEF OnWire
    <3> QED  BY <3>1, <3>2, <3>3, <1>2
  <2>2. CASE queue[c] # <<>>
    <3>1. /\ Receive(c)
          /\ wire' = [wire EXCEPT ![c] = IF conn[c] = "open" /\ Len(wire[c]) < WireCap
                                         THEN Append(wire[c], it) ELSE wire[c]]
      BY <2>2 DEF HandlerLeaves
    <3>2. /\ SubKept(c)' /\ Head(queue[c]) = First(c) + Took(c)
          /\ taken' \in [Subs -> Seq(Nat)] /\ queue' \in [Subs -> Seq(Nat)]
          /\ \A r \in Subs \ {c} : taken'[r] = taken[r] /\ queue'[r] = queue[r]
      BY <3>1, <1>1, ReceiveStep
    <3>3. First(c) \in Nat /\ Took(c) \in Nat
      BY <1>1, SubTypes
    <3>4. Head(queue[c]) \in Nat /\ it \in Item /\ it.kind = "event"
      BY <3>2, <3>3 DEF Item, EventItem
    <3> HIDE DEF it
    <3>5. /\ Append(wire[c], it) \in Seq(Item)
          /\ \A i \in 1 .. Len(Append(wire[c], it)) :
                \/ i \in 1 .. Len(wire[c]) /\ Append(wire[c], it)[i] = wire[c][i]
                \/ Append(wire[c], it)[i] = it
      BY <3>4, <1>2, WireGrows
    <3>6. wire' \in [Subs -> Seq(Item)] /\ \A s \in Subs \ {c} : wire'[s] = wire[s]
      BY <3>1, <3>5, <1>2
    <3>7. wire'[c] = Append(wire[c], it) \/ wire'[c] = wire[c]
      BY <3>1, <1>2
    <3>8. \A i \in 1 .. OnWire(c)' :
             (i \in 1 .. OnWire(c) /\ wire'[c][i] = wire[c][i]) \/ wire'[c][i].kind = "event"
      BY <3>4, <3>5, <3>7 DEF OnWire
    <3> QED  BY <3>2, <3>6, <3>8
  <2> QED  BY <2>1, <2>2
<1>4. HubTypes'
  BY <1>1, <1>3 DEF HubTypes, engineVars, ringVars
<1>5. /\ conn' \in [Subs -> {"unused", "open", "ended", "cut"}]
      /\ handler' \in [Subs -> {"none", "streaming", "returned"}]
      /\ conn'[c] # "open" /\ handler'[c] = "returned"
      /\ \A s \in Subs \ {c} : conn'[s] = conn[s] /\ handler'[s] = handler[s]
  BY <1>1 DEF ServerTypes
<1>6. ServerTypes'
  BY <1>1, <1>3, <1>5 DEF ServerTypes
<1>7. ConnKept(c)'
  <2>1. \A i \in 1 .. OnWire(c)' :
           /\ wire'[c][i].kind = "overflowed" => c \in dropped
           /\ wire'[c][i].kind = "run_ended" => closed /\ c \notin dropped
    BY <1>1, <1>3 DEF ConnKept
  <2>2. c \in joined' /\ handler'[c] # "streaming" /\ conn'[c] # "open" /\ dropped' = dropped /\ closed' = closed
    BY <1>1, <1>5 DEF ConnKept
  <2> QED  BY <2>1, <2>2 DEF ConnKept
<1> QED  BY <1>1, <1>3, <1>4, <1>5, <1>6, <1>7, OneConnection

\* A handler's write stalls: it leaves with the event in its hands.
LEMMA WriteStallsStep ==
    ASSUME Served, NEW c \in Subs, WriteStalls(c)
    PROVE  Served'
<1>1. /\ HubTypes /\ ServerTypes /\ SubKept(c) /\ ConnKept(c)
      /\ handler[c] = "streaming" /\ c \in joined /\ Receive(c)
      /\ handler' = [handler EXCEPT ![c] = "returned"]
      /\ conn' = [conn EXCEPT ![c] = IF conn[c] = "open" THEN "ended" ELSE conn[c]]
      /\ subs' = subs \ {c}
      /\ UNCHANGED <<engineVars, folded, ringVars, joined, asked, next, closed,
                     dropped, server, lastSeq, wire>>
  BY DEF Served, WriteStalls, Finish, Returned, Cancel, ConnKept
<1>2. /\ SubKept(c)'
      /\ taken' \in [Subs -> Seq(Nat)] /\ queue' \in [Subs -> Seq(Nat)]
      /\ \A r \in Subs \ {c} : taken'[r] = taken[r] /\ queue'[r] = queue[r]
  BY <1>1, ReceiveStep
<1>3. HubTypes'
  BY <1>1, <1>2 DEF HubTypes, engineVars, ringVars
<1>4. /\ conn' \in [Subs -> {"unused", "open", "ended", "cut"}]
      /\ handler' \in [Subs -> {"none", "streaming", "returned"}]
      /\ conn'[c] # "open" /\ handler'[c] = "returned"
      /\ \A s \in Subs \ {c} : conn'[s] = conn[s] /\ handler'[s] = handler[s]
  BY <1>1 DEF ServerTypes
<1>5. ServerTypes'
  BY <1>1, <1>4 DEF ServerTypes
<1>6. ConnKept(c)'
  BY <1>1, <1>4 DEF ConnKept, OnWire
<1> QED  BY <1>1, <1>2, <1>3, <1>4, <1>5, <1>6, OneConnection

\* The engine's append: the hub has not heard of the event yet.
LEMMA EngineStep ==
    ASSUME Served, Engine
    PROVE  Served'
<1>1. CASE Emit
  BY <1>1, EmitStep DEF Engine
<1>2. ASSUME ~Emit
      PROVE  /\ recorded' \in Nat /\ ledger' \in {"open", "broken", "sealed"}
             /\ emitting' \in BOOLEAN /\ FoldKept'
             /\ UNCHANGED <<folded, ringVars, subVars, closed, dropped>>
             /\ UNCHANGED serverVars
  <2>1. HubTypes /\ FoldKept
    BY DEF Served
  <2>2. CASE AppendFails
    BY <2>1, <2>2 DEF Engine, AppendFails, HubTypes, FoldKept
  <2>3. ASSUME NEW final \in BOOLEAN, AppendEvent(final)
        PROVE  /\ recorded' \in Nat /\ ledger' \in {"open", "broken", "sealed"}
               /\ emitting' \in BOOLEAN /\ FoldKept'
               /\ UNCHANGED <<folded, ringVars, subVars, closed, dropped>>
    <3>1. /\ ledger = "open" /\ ~emitting /\ recorded' = recorded + 1 /\ emitting' = TRUE
          /\ UNCHANGED <<folded, ringVars, subVars, closed, dropped>>
          /\ ledger' \in {"open", "sealed"}
      BY <2>3 DEF AppendEvent
    <3>2. ~closed /\ recorded = folded
      BY <3>1, <2>1 DEF FoldKept
    <3>3. recorded \in Nat /\ folded \in Nat
      BY <2>1 DEF HubTypes
    <3>4. folded' <= recorded' /\ recorded' = folded' + 1 /\ recorded' \in Nat /\ ~closed'
      BY <3>1, <3>2, <3>3
    <3> QED  BY <3>1, <3>4 DEF FoldKept
  <2> QED  BY <1>2, <2>2, <2>3 DEF Engine
<1>3. CASE ~Emit
  <2> USE DEF subVars, serverVars
  <2>1. HubTypes' /\ ServerTypes'
    BY <1>2, <1>3 DEF Served, HubTypes, ServerTypes, ringVars
  <2>2. RingKept'
    BY <1>2, <1>3, RingUntouched DEF Served
  <2>3. ASSUME NEW s \in Subs PROVE SubKept(s)' /\ ConnKept(s)'
    BY <1>2, <1>3, NotConcerned DEF Served
  <2> QED  BY <1>2, <1>3, <2>1, <2>2, <2>3 DEF Served
<1> QED  BY <1>1, <1>3

\* The hub closes, with its server or without: every channel closes.
LEMMA HubCloses ==
    ASSUME Served, closed' = TRUE, subs' = {}, ServerTypes',
           recorded' = recorded, emitting' = FALSE,
           ledger' \in {"broken", "sealed"},
           UNCHANGED <<folded, ringVars, joined, asked, next, queue, taken, dropped,
                       lastSeq, wire>>,
           \A s \in Subs :
              /\ (conn'[s] = "open" => conn[s] = "open" /\ handler'[s] = "streaming")
              /\ (handler'[s] = "streaming" => handler[s] = "streaming")
              /\ (s \notin joined => conn'[s] = conn[s] /\ handler'[s] = handler[s])
    PROVE  Served'
<1>1. HubTypes'
  BY DEF Served, HubTypes, ringVars
<1>2. RingKept' /\ FoldKept'
  BY RingUntouched DEF Served, FoldKept, HubTypes
<1>3. ASSUME NEW s \in Subs PROVE SubKept(s)' /\ ConnKept(s)'
  <2>1. SubKept(s) /\ ConnKept(s)
    BY DEF Served
  <2>2. /\ SubKept(s)' /\ Count(s)' = Count(s) /\ First(s)' = First(s) /\ Took(s)' = Took(s)
        /\ OnWire(s)' = OnWire(s) /\ (UpToDate(s)' <=> UpToDate(s))
    BY <2>1 DEF SubKept, UpToDate, Count, Took, Held, First, OnWire
  <2>3. handler'[s] = "streaming" =>
           /\ s \in joined'
           /\ lastSeq'[s] = IF Took(s)' = 0 THEN 0 ELSE First(s)' + Took(s)' - 1
           /\ s \notin subs' \cup dropped' => closed' /\ UpToDate(s)'
    <3>1. handler[s] = "streaming" /\ s \notin dropped => UpToDate(s)
      BY <2>1 DEF ConnKept, SubKept
    <3> QED  BY <3>1, <2>1, <2>2 DEF ConnKept
  <2> QED  BY <2>1, <2>2, <2>3 DEF ConnKept
<1> QED  BY <1>1, <1>2, <1>3 DEF Served

\* Attach.Close, when the run is over.
LEMMA AttachClosesStep ==
    ASSUME Served, AttachCloses
    PROVE  Served'
<1>1. /\ closed' = TRUE /\ subs' = {} /\ recorded' = recorded /\ emitting' = FALSE
      /\ ledger' \in {"broken", "sealed"}
      /\ UNCHANGED <<folded, ringVars, joined, asked, next, queue, taken, dropped,
                     lastSeq, wire, conn, handler>>
  BY DEF Served, HubTypes, AttachCloses, CloseHub, engineVars, serverVars
<1>2. ServerTypes'
  BY DEF Served, ServerTypes, AttachCloses, serverVars
<1>3. \A s \in Subs : conn[s] = "open" => handler[s] = "streaming"
  BY DEF Served, ConnKept
<1> QED  BY <1>1, <1>2, <1>3, HubCloses

\* kill -9.
LEMMA CrashStep ==
    ASSUME Served, Crash
    PROVE  Served'
<1>1. /\ conn' = [c \in Subs |-> IF conn[c] = "open" THEN "ended" ELSE conn[c]]
      /\ handler' = [c \in Subs |-> IF handler[c] = "streaming" THEN "returned" ELSE handler[c]]
      /\ ServerTypes
  BY DEF Served, Crash
<1>2. ServerTypes'
  BY <1>1 DEF ServerTypes, Crash
<1>3. /\ closed' = TRUE /\ subs' = {} /\ recorded' = recorded /\ emitting' = FALSE
      /\ ledger' \in {"broken", "sealed"}
      /\ UNCHANGED <<folded, ringVars, joined, asked, next, queue, taken, dropped,
                     lastSeq, wire>>
  BY DEF Served, HubTypes, Crash
<1>4. \A s \in Subs :
         /\ conn'[s] # "open" /\ handler'[s] # "streaming"
         /\ s \notin joined => conn'[s] = conn[s] /\ handler'[s] = handler[s]
  BY <1>1 DEF Served, ConnKept, ServerTypes
<1> QED  BY <1>2, <1>3, <1>4, HubCloses

\* A step that only ends connections.
LEMMA ConnectionsEnd ==
    ASSUME Served, ServerTypes',
           UNCHANGED <<hubVars, handler, lastSeq>>,
           \A s \in Subs :
              /\ (conn'[s] = conn[s] \/ (conn[s] # "unused" /\ conn'[s] # "open"))
              /\ (wire'[s] = wire[s] \/ wire'[s] = <<>>)
    PROVE  Served'
<1>1. HubTypes' /\ FoldKept'
  BY DEF Served, HubTypes, FoldKept, hubVars, engineVars, ringVars, subVars
<1>2. RingKept'
  BY RingUntouched DEF Served, hubVars
<1>3. ASSUME NEW s \in Subs PROVE SubKept(s)' /\ ConnKept(s)'
  <2>1. SubKept(s) /\ ConnKept(s)
    BY DEF Served
  <2>2. /\ SubKept(s)' /\ First(s)' = First(s) /\ Took(s)' = Took(s)
        /\ (UpToDate(s)' <=> UpToDate(s))
    BY <2>1 DEF SubKept, UpToDate, Count, Took, Held, First, hubVars, subVars
  <2>3. \A i \in 1 .. OnWire(s)' :
           /\ wire'[s][i].kind = "overflowed" => s \in dropped
           /\ wire'[s][i].kind = "run_ended" => closed /\ s \notin dropped
    <3>1. CASE wire'[s] = wire[s]
      BY <3>1, <2>1 DEF ConnKept, OnWire
    <3>2. CASE wire'[s] = <<>>
      BY <3>2 DEF OnWire
    <3> QED  BY <3>1, <3>2
  <2>4. s \notin joined => conn'[s] = "unused" /\ wire'[s] = <<>>
    BY <2>1 DEF ConnKept
  <2> QED  BY <2>1, <2>2, <2>3, <2>4 DEF ConnKept, hubVars, subVars
<1> QED  BY <1>1, <1>2, <1>3 DEF Served

\* The server's steps, whoever is connected.
LEMMA ServerStep ==
    ASSUME Served, ServerNext
    PROVE  Served'
<1>1. CASE Engine
  BY <1>1, EngineStep
<1>2. CASE AttachCloses
  BY <1>2, AttachClosesStep
<1>3. CASE Handlers
  BY <1>3, WriteEventStep, WriteMarkerStep, HandlerLeavesStep DEF Handlers
<1>4. CASE Faults
  <2> PICK c \in Subs : WriteStalls(c) \/ Break(c)
    BY <1>4 DEF Faults
  <2>1. CASE WriteStalls(c)
    BY <2>1, WriteStallsStep
  <2>2. CASE Break(c)
    <3>1. /\ ServerTypes /\ conn' = [conn EXCEPT ![c] = "cut"] /\ wire' = [wire EXCEPT ![c] = <<>>]
          /\ conn[c] # "unused" /\ UNCHANGED <<hubVars, server, handler, lastSeq>>
      BY <2>2 DEF Served, Break
    <3>2. ServerTypes'
      BY <3>1 DEF ServerTypes
    <3>3. \A s \in Subs :
             /\ conn'[s] = conn[s] \/ (conn[s] # "unused" /\ conn'[s] # "open")
             /\ wire'[s] = wire[s] \/ wire'[s] = <<>>
      BY <3>1 DEF ServerTypes
    <3> QED  BY <3>1, <3>2, <3>3, ConnectionsEnd
  <2> QED  BY <2>1, <2>2
<1>5. CASE Closing
  <2>1. /\ ServerTypes' /\ UNCHANGED <<hubVars, handler, lastSeq, wire>>
        /\ \A s \in Subs : conn'[s] = conn[s] \/ (conn[s] # "unused" /\ conn'[s] # "open")
    <3>1. CASE BeginClose \/ CloseDone
      BY <3>1 DEF BeginClose, CloseDone, Served, ServerTypes
    <3>2. CASE ForceClose
      BY <3>2 DEF ForceClose, Served, ServerTypes
    <3> QED  BY <1>5, <3>1, <3>2 DEF Closing
  <2> QED  BY <2>1, ConnectionsEnd
<1>6. CASE Crash
  BY <1>6, CrashStep
<1> QED  BY <1>1, <1>2, <1>3, <1>4, <1>5, <1>6 DEF ServerNext

\* Nothing has happened yet.
LEMMA ServedAtFirst == StreamInit => Served
<1> SUFFICES ASSUME StreamInit PROVE Served
  OBVIOUS
<1> USE DEF StreamInit, HubInit
<1>1. HubTypes
  <2>1. Slots = 0 .. RingSize - 1 /\ 0 \in Slots
    BY HubAssumption DEF Slots
  <2>2. <<>> \in Seq(Nat)
    OBVIOUS
  <2>3. ringLen \in 0 .. RingSize
    BY HubAssumption
  <2>4. ring \in [Slots -> Nat]
    OBVIOUS
  <2>5. queue \in [Subs -> Seq(Nat)] /\ taken \in [Subs -> Seq(Nat)]
    BY <2>2
  <2> QED  BY <2>1, <2>3, <2>4, <2>5 DEF HubTypes
<1>2. ServerTypes
  <2>1. <<>> \in Seq(Item)
    OBVIOUS
  <2> QED  BY <2>1 DEF ServerTypes
<1>3. FoldKept /\ RingKept
  BY HubAssumption DEF FoldKept, RingKept
<1>4. ASSUME NEW s \in Subs PROVE SubKept(s) /\ ConnKept(s)
  <2>1. Took(s) = 0 /\ Held(s) = 0 /\ OnWire(s) = 0 /\ Count(s) = 0
    BY DEF Took, Held, OnWire, Count
  <2> QED  BY <2>1 DEF SubKept, ConnKept
<1> QED  BY <1>1, <1>2, <1>3, <1>4 DEF Served

\* A step of a client alone.
LEMMA ServedStutters ==
    ASSUME Served, UNCHANGED streamVars PROVE Served'
BY DEF Served, HubTypes, ServerTypes, FoldKept, RingKept, SubKept, ConnKept, First, Count, Took,
       Held, OnWire, UpToDate, streamVars, hubVars, serverVars, engineVars, ringVars, subVars

\* A new connection: the replay is in its channel, and nothing on its wire.
LEMMA AcceptStep ==
    ASSUME Served, NEW c \in Subs, NEW from \in Nat, Accept(c, from)
    PROVE  /\ Served'
           /\ c \in joined' /\ asked'[c] = from /\ Took(c)' = 0 /\ OnWire(c)' = 0
<1> DEFINE first == Max2(from, 1)
           n == IF folded >= first THEN folded + 1 - first ELSE 0
           q == [k \in 1 .. n |-> first + k - 1]
<1>1. /\ HubTypes /\ ServerTypes /\ RingKept /\ SubKept(c) /\ ConnKept(c)
      /\ c \notin joined /\ ~closed /\ ~Overflow(from)
      /\ queue' = [queue EXCEPT ![c] = Replay(from)]
      /\ next' = [next EXCEPT ![c] = IF Replay(from) = <<>> THEN from
                                     ELSE Replay(from)[Len(Replay(from))] + 1]
      /\ asked' = [asked EXCEPT ![c] = from]
      /\ subs' = subs \cup {c} /\ joined' = joined \cup {c}
      /\ conn' = [conn EXCEPT ![c] = "open"]
      /\ handler' = [handler EXCEPT ![c] = "streaming"]
      /\ UNCHANGED <<engineVars, folded, ringVars, taken, closed, dropped,
                     server, lastSeq, wire, faults>>
  BY DEF Served, Accept, Subscribe
<1>2. Replay(from) = q
  BY <1>1, ReplayIsTheRest
<1>3. first \in Nat /\ first >= 1 /\ n \in Nat /\ folded \in Nat /\ first >= from
      /\ first = IF from = 0 THEN 1 ELSE from
  BY <1>1 DEF HubTypes, Max2
<1>4. n = IF folded >= first THEN folded + 1 - first ELSE 0
  OBVIOUS
<1> HIDE DEF first, n
<1>5. /\ q \in Seq(Nat) /\ Len(q) = n /\ (q = <<>> <=> n = 0)
      /\ \A i \in 1 .. n : q[i] = first + i - 1
  <2>1. \A i \in 1 .. n : first + i - 1 \in Nat
    BY <1>3
  <2> QED  BY <2>1, <1>3
<1> HIDE DEF q
<1>6. /\ queue'[c] = q /\ taken'[c] = <<>> /\ wire'[c] = <<>> /\ asked'[c] = from
      /\ conn'[c] = "open" /\ handler'[c] = "streaming" /\ lastSeq'[c] = lastSeq[c]
      /\ next'[c] = IF n = 0 THEN from ELSE first + n
  <2>1. next'[c] = IF q = <<>> THEN from ELSE q[Len(q)] + 1
    BY <1>1, <1>2 DEF HubTypes
  <2>2. n # 0 => q[n] + 1 = first + n
    BY <1>3, <1>5
  <2>3. next'[c] = IF n = 0 THEN from ELSE first + n
    BY <2>1, <2>2, <1>5
  <2> QED  BY <2>3, <1>1, <1>2 DEF HubTypes, ServerTypes, SubKept, ConnKept
<1>7. /\ Took(c)' = 0 /\ Held(c)' = n /\ OnWire(c)' = 0 /\ First(c)' = first
  BY <1>5, <1>6 DEF Took, Held, OnWire, First, first
<1>8. Count(c)' = n
  BY <1>3, <1>7 DEF Count
<1>9. HubTypes'
  <2>1. next'[c] \in Nat
    BY <1>3, <1>6
  <2>2. next' \in [Subs -> Nat] /\ queue' \in [Subs -> Seq(Nat)] /\ asked' \in [Subs -> Nat]
    BY <2>1, <1>1, <1>2, <1>5, <1>6 DEF HubTypes
  <2>3. subs' \subseteq joined' /\ joined' \subseteq Subs /\ dropped' \subseteq joined' \ subs'
    BY <1>1 DEF HubTypes
  <2> QED  BY <2>2, <2>3, <1>1 DEF HubTypes, engineVars, ringVars
<1>10. ServerTypes'
  BY <1>1 DEF ServerTypes
<1>11. SubKept(c)'
  <2>1. c \in joined' /\ c \notin dropped'
    BY <1>1 DEF HubTypes
  <2>2. UpToDate(c)' /\ next'[c] = IF Count(c)' = 0 THEN asked'[c] ELSE First(c)' + Count(c)'
    BY <1>1, <1>4, <1>6, <1>7, <1>8 DEF UpToDate
  <2>3. \A i \in 1 .. Held(c)' : queue'[c][i] = First(c)' + Took(c)' + i - 1
    BY <1>3, <1>5, <1>6, <1>7
  <2>4. Count(c)' > 0 => First(c)' + Count(c)' <= folded' + 1
    BY <1>1, <1>3, <1>4, <1>7, <1>8
  <2> QED  BY <2>1, <2>2, <2>3, <2>4, <1>7 DEF SubKept
<1>12. lastSeq[c] = 0
  BY <1>1 DEF ConnKept
<1>13. ConnKept(c)'
  BY <1>1, <1>6, <1>7, <1>12 DEF ConnKept
<1>14. \A s \in Subs \ {c} :
          /\ queue'[s] = queue[s] /\ next'[s] = next[s] /\ asked'[s] = asked[s]
          /\ conn'[s] = conn[s] /\ handler'[s] = handler[s]
  BY <1>1 DEF HubTypes, ServerTypes
<1>15. Served'
  BY <1>1, <1>9, <1>10, <1>11, <1>13, <1>14, OneConnection
<1> QED  BY <1>1, <1>6, <1>7, <1>15

\* A reader takes an item off its wire.
LEMMA ReadStep ==
    ASSUME Served, NEW c \in Subs, wire[c] # <<>>,
           wire' = [wire EXCEPT ![c] = Tail(wire[c])],
           UNCHANGED <<hubVars, server, conn, handler, lastSeq>>
    PROVE  Served'
<1>1. HubTypes /\ ServerTypes /\ SubKept(c) /\ ConnKept(c)
      /\ wire \in [Subs -> Seq(Item)] /\ wire[c] \in Seq(Item) /\ wire'[c] = Tail(wire[c])
  BY DEF Served, ServerTypes
<1>2. /\ Tail(wire[c]) \in Seq(Item)
      /\ \A i \in 1 .. Len(Tail(wire[c])) :
            i + 1 \in 1 .. Len(wire[c]) /\ Tail(wire[c])[i] = wire[c][i + 1]
  BY <1>1, WireShrinks
<1>3. HubTypes' /\ SubKept(c)'
  BY <1>1 DEF HubTypes, SubKept, UpToDate, Count, Took, Held, First, hubVars, engineVars,
              ringVars, subVars
<1>4. ServerTypes'
  <2>1. wire' \in [Subs -> Seq(Item)]
    BY <1>1, <1>2
  <2> QED  BY <2>1, <1>1 DEF ServerTypes
<1>5. ConnKept(c)'
  <2>1. c \in joined
    BY <1>1 DEF ConnKept
  <2>2. \A i \in 1 .. OnWire(c)' :
           /\ wire'[c][i].kind = "overflowed" => c \in dropped
           /\ wire'[c][i].kind = "run_ended" => closed /\ c \notin dropped
    BY <1>1, <1>2 DEF ConnKept, OnWire
  <2>3. First(c)' = First(c) /\ Took(c)' = Took(c) /\ (UpToDate(c)' <=> UpToDate(c))
    BY DEF UpToDate, Count, Took, Held, First, hubVars, subVars
  <2> QED  BY <2>1, <2>2, <2>3, <1>1 DEF ConnKept, hubVars, subVars
<1>6. \A s \in Subs \ {c} : wire'[s] = wire[s]
  BY <1>1
<1> QED  BY <1>3, <1>4, <1>5, <1>6, OneConnection DEF hubVars, subVars

-----------------------------------------------------------------------------
(* What a reader of one connection can rely on. *)

\* A new connection feeds from the event it was opened for.
LEMMA FeedsFromTheStart ==
    ASSUME Served, NEW c \in Subs, NEW from \in Nat, Accept(c, from)
    PROVE  Feeds(c, Max2(from, 1))'
<1>1. /\ Served' /\ c \in joined' /\ asked'[c] = from /\ Took(c)' = 0 /\ OnWire(c)' = 0
  BY AcceptStep
<1>2. First(c)' = Max2(from, 1) /\ Max2(from, 1) \in Nat
  BY <1>1 DEF First, Max2
<1> QED  BY <1>1, <1>2 DEF Feeds

\* A step that puts nothing on c's wire leaves its reader where it was.
LEMMA FeedsUntouched ==
    ASSUME NEW c \in Subs, NEW r \in Nat, Feeds(c, r),
           c \in joined', wire'[c] = wire[c], folded' = folded,
           conn'[c] = "open" => /\ conn[c] = "open"
                                /\ asked'[c] = asked[c] /\ taken'[c] = taken[c]
    PROVE  Feeds(c, r)'
<1>1. OnWire(c)' = OnWire(c)
  BY DEF OnWire
<1>2. conn'[c] = "open" => First(c)' = First(c) /\ Took(c)' = Took(c)
  BY DEF First, Took
<1> QED  BY <1>1, <1>2 DEF Feeds

\* The next event is appended to c's wire.
LEMMA FeedsOn ==
    ASSUME Served, NEW c \in joined, NEW r \in Nat, Feeds(c, r), conn[c] = "open",
           Receive(c), wire'[c] = Append(wire[c], EventItem(Head(queue[c]))),
           UNCHANGED <<asked, next, folded, joined, dropped>>,
           c \in subs' => c \in subs
    PROVE  Feeds(c, r)'
<1> DEFINE it == EventItem(Head(queue[c]))
<1>1. /\ HubTypes /\ ServerTypes /\ SubKept(c) /\ c \in Subs /\ wire[c] \in Seq(Item)
  BY DEF Served, HubTypes, ServerTypes
<1>2. /\ First(c)' = First(c) /\ Took(c)' = Took(c) + 1
      /\ Head(queue[c]) = First(c) + Took(c) /\ First(c) + Took(c) <= folded
  BY <1>1, ReceiveStep
<1>3. /\ First(c) \in Nat /\ Took(c) \in Nat /\ OnWire(c) \in Nat /\ folded \in Nat
  BY <1>1, SubTypes DEF OnWire
<1>4. First(c) + Took(c) = r + OnWire(c)
  BY DEF Feeds
<1>5. it \in Item /\ it.kind = "event" /\ it.seq = r + OnWire(c)
  BY <1>2, <1>3, <1>4 DEF Item, EventItem
<1> HIDE DEF it
<1>6. wire'[c] = Append(wire[c], it)
  BY DEF it
<1>7. /\ OnWire(c)' = OnWire(c) + 1
      /\ \A i \in 1 .. OnWire(c)' :
            \/ i \in 1 .. OnWire(c) /\ wire'[c][i] = wire[c][i]
            \/ i = OnWire(c) + 1 /\ wire'[c][i] = it
  BY <1>1, <1>5, <1>6, WireGrows DEF OnWire
<1>8. ASSUME NEW i \in 1 .. OnWire(c)'
      PROVE  /\ wire'[c][i].kind = "event" =>
                   wire'[c][i].seq = r + i - 1 /\ r + i <= folded + 1
             /\ wire'[c][i].kind = "run_ended" => r + i > folded + 1
  <2>1. CASE i \in 1 .. OnWire(c) /\ wire'[c][i] = wire[c][i]
    BY <2>1 DEF Feeds
  <2>2. CASE i = OnWire(c) + 1 /\ wire'[c][i] = it
    <3>1. r + i - 1 = r + OnWire(c) /\ r + i <= folded + 1
      BY <2>2, <1>2, <1>3, <1>4
    <3> QED  BY <3>1, <2>2, <1>5
  <2> QED  BY <2>1, <2>2, <1>7
<1>9. First(c)' + Took(c)' = r + OnWire(c)'
  <2>1. OnWire(c)' = OnWire(c) + 1
    BY <1>7
  <2>2. r + OnWire(c)' = (r + OnWire(c)) + 1
    BY <2>1, <1>3
  <2>3. First(c)' + Took(c)' = (First(c) + Took(c)) + 1
    BY <1>2, <1>3
  <2> QED  BY <2>2, <2>3, <1>4
<1> QED  BY <1>8, <1>9 DEF Feeds

\* Whatever the engine, the hub and the server do, a reader goes on where it is.
LEMMA FeedsServer ==
    ASSUME Served, NEW c \in Subs, NEW r \in Nat, Feeds(c, r), ServerNext
    PROVE  Feeds(c, r)'
<1>1. /\ HubTypes /\ ServerTypes /\ FoldKept /\ SubKept(c) /\ ConnKept(c) /\ c \in joined
      /\ folded \in Nat /\ wire[c] \in Seq(Item)
  BY DEF Served, Feeds, HubTypes, ServerTypes
<1>2. CASE Engine
  <2>1. /\ wire' = wire /\ conn' = conn /\ joined' = joined /\ asked' = asked /\ taken' = taken
        /\ folded' \in Nat /\ folded' >= folded /\ (closed => folded' = folded)
    BY <1>1, <1>2 DEF Engine, Emit, AppendEvent, AppendFails, serverVars, subVars,
                      HubTypes, FoldKept
  <2>2. /\ OnWire(c)' = OnWire(c) /\ First(c)' = First(c) /\ Took(c)' = Took(c)
        /\ OnWire(c) \in Nat
    BY <2>1, <1>1 DEF OnWire, First, Took
  <2>3. ASSUME NEW i \in 1 .. OnWire(c)
        PROVE  /\ wire[c][i].kind = "event" =>
                     wire[c][i].seq = r + i - 1 /\ r + i <= folded' + 1
               /\ wire[c][i].kind = "run_ended" => r + i > folded' + 1
    <3>1. wire[c][i].kind = "event" => wire[c][i].seq = r + i - 1 /\ r + i <= folded' + 1
      BY <2>1, <2>2, <1>1 DEF Feeds
    <3>2. wire[c][i].kind = "run_ended" => r + i > folded' + 1
      BY <2>1, <1>1 DEF Feeds, ConnKept
    <3> QED  BY <3>1, <3>2
  <2> QED  BY <2>1, <2>2, <2>3 DEF Feeds
<1>3. CASE AttachCloses \/ Closing \/ Crash
  <2>1. /\ c \in joined' /\ wire'[c] = wire[c] /\ folded' = folded
        /\ conn'[c] = "open" => conn[c] = "open"
        /\ asked'[c] = asked[c] /\ taken'[c] = taken[c]
    BY <1>1, <1>3 DEF AttachCloses, CloseHub, Closing, BeginClose, CloseDone, ForceClose, Crash,
                      hubVars, subVars, serverVars, ServerTypes
  <2> QED  BY <2>1, FeedsUntouched
<1>4. ASSUME NEW d \in Subs,
             WriteEvent(d) \/ WriteMarker(d) \/ HandlerLeaves(d) \/ WriteStalls(d) \/ Break(d),
             d # c
      PROVE  Feeds(c, r)'
  <2>1. /\ c \in joined' /\ wire'[c] = wire[c] /\ folded' = folded
        /\ conn'[c] = conn[c] /\ asked'[c] = asked[c] /\ taken'[c] = taken[c]
    <3>1. CASE WriteEvent(d) \/ WriteStalls(d)
      BY <3>1, <1>1, <1>4 DEF WriteEvent, WriteStalls, Finish, Receive, ServerTypes, HubTypes
    <3>2. CASE WriteMarker(d)
      BY <3>2, <1>1, <1>4 DEF WriteMarker, Finish, hubVars, subVars, ServerTypes
    <3>3. CASE HandlerLeaves(d)
      BY <3>3, <1>1, <1>4 DEF HandlerLeaves, Finish, Receive, hubVars, subVars, ServerTypes, HubTypes
    <3>4. CASE Break(d)
      BY <3>4, <1>1, <1>4 DEF Break, hubVars, subVars, ServerTypes
    <3> QED  BY <3>1, <3>2, <3>3, <3>4, <1>4
  <2> QED  BY <2>1, FeedsUntouched
<1>5. CASE WriteEvent(c)
  <2>1. /\ conn[c] = "open" /\ Receive(c)
        /\ wire'[c] = Append(wire[c], EventItem(Head(queue[c])))
        /\ UNCHANGED <<asked, next, folded, joined, dropped, subs>>
    BY <1>1, <1>5 DEF WriteEvent, ServerTypes
  <2> QED  BY <2>1, <1>1, FeedsOn
<1>6. CASE WriteMarker(c)
  <2> DEFINE it == Marker(EndReason(c), lastSeq[c])
  <2>1. /\ handler[c] = "streaming" /\ c \notin subs /\ queue[c] = <<>>
        /\ conn'[c] # "open" /\ folded' = folded /\ joined' = joined
        /\ wire'[c] = IF conn[c] = "open" /\ Len(wire[c]) < WireCap
                      THEN Append(wire[c], it) ELSE wire[c]
    BY <1>1, <1>6 DEF WriteMarker, ChannelClosed, Finish, hubVars, subVars, ServerTypes
  <2>2. CASE wire'[c] = wire[c]
    BY <2>1, <2>2, <1>1, FeedsUntouched
  <2>3. CASE wire'[c] # wire[c]
    <3>1. wire'[c] = Append(wire[c], it) /\ First(c) + Took(c) = r + OnWire(c)
      BY <2>1, <2>3 DEF Feeds
    <3>2. /\ First(c) \in Nat /\ First(c) >= 1 /\ Took(c) \in Nat /\ lastSeq[c] \in Nat
          /\ OnWire(c) \in Nat /\ Held(c) = 0 /\ Count(c) = Took(c)
      <4>1. Held(c) = 0
        BY <2>1 DEF Held
      <4> QED  BY <4>1, <1>1, SubTypes DEF Count, ServerTypes, OnWire
    <3>3. it \in Item /\ it.kind = EndReason(c) /\ EndReason(c) \in {"overflowed", "run_ended"}
      BY <3>2 DEF Item, Marker, EndReason
    <3>4. EndReason(c) = "run_ended" => First(c) + Took(c) >= folded + 1
      <4>1. EndReason(c) = "run_ended" => c \notin dropped
        BY <2>1, <3>2, <1>1 DEF EndReason, ConnKept, SubKept
      <4>2. c \notin dropped => UpToDate(c)
        BY <2>1, <1>1 DEF ConnKept
      <4> QED  BY <4>1, <4>2, <3>2, <1>1 DEF UpToDate
    <3> HIDE DEF it
    <3>5. /\ OnWire(c)' = OnWire(c) + 1
          /\ \A i \in 1 .. OnWire(c)' :
                \/ i \in 1 .. OnWire(c) /\ wire'[c][i] = wire[c][i]
                \/ i = OnWire(c) + 1 /\ wire'[c][i] = it
      BY <3>1, <3>3, <1>1, WireGrows DEF OnWire
    <3>6. ASSUME NEW i \in 1 .. OnWire(c)'
          PROVE  /\ wire'[c][i].kind = "event" =>
                       wire'[c][i].seq = r + i - 1 /\ r + i <= folded + 1
                 /\ wire'[c][i].kind = "run_ended" => r + i > folded + 1
      <4>1. CASE i \in 1 .. OnWire(c) /\ wire'[c][i] = wire[c][i]
        BY <4>1 DEF Feeds
      <4>2. CASE i = OnWire(c) + 1 /\ wire'[c][i] = it
        <5>1. EndReason(c) = "run_ended" => r + i > folded + 1
          BY <4>2, <3>1, <3>2, <3>4, <1>1
        <5> QED  BY <5>1, <4>2, <3>3
      <4> QED  BY <4>1, <4>2, <3>5
    <3> QED  BY <3>6, <2>1, <1>1 DEF Feeds
  <2> QED  BY <2>2, <2>3
<1>7. CASE HandlerLeaves(c)
  <2>1. /\ conn'[c] # "open" /\ c \in joined'
        /\ UNCHANGED <<asked, next, folded, joined, dropped>> /\ subs' = subs \ {c}
        /\ \/ wire'[c] = wire[c]
           \/ /\ conn[c] = "open" /\ Receive(c)
              /\ wire'[c] = Append(wire[c], EventItem(Head(queue[c])))
    BY <1>1, <1>7 DEF HandlerLeaves, Finish, Cancel, ServerTypes
  <2>2. CASE wire'[c] = wire[c]
    BY <2>1, <2>2, FeedsUntouched
  <2>3. CASE wire'[c] # wire[c]
    BY <2>1, <2>3, <1>1, FeedsOn
  <2> QED  BY <2>2, <2>3
<1>8. CASE WriteStalls(c)
  <2>1. conn'[c] # "open" /\ c \in joined' /\ wire'[c] = wire[c] /\ folded' = folded
    BY <1>1, <1>8 DEF WriteStalls, Finish, ServerTypes
  <2> QED  BY <2>1, FeedsUntouched
<1>9. CASE Break(c)
  <2>1. conn'[c] # "open" /\ c \in joined' /\ wire'[c] = <<>>
    BY <1>1, <1>9 DEF Break, ServerTypes, hubVars, subVars
  <2>2. OnWire(c)' = 0
    BY <2>1 DEF OnWire
  <2> QED  BY <2>1, <2>2 DEF Feeds
<1> QED  BY <1>2, <1>3, <1>4, <1>5, <1>6, <1>7, <1>8, <1>9
         DEF ServerNext, Handlers, Faults

\* An event read is the one that was due, and the next is due.
LEMMA FeedsNext ==
    ASSUME Served, NEW c \in Subs, NEW r \in Nat, Feeds(c, r),
           wire[c] # <<>>, Head(wire[c]).kind = "event",
           wire' = [wire EXCEPT ![c] = Tail(wire[c])],
           UNCHANGED <<hubVars, conn>>
    PROVE  /\ Head(wire[c]).seq = r /\ r <= folded
           /\ Feeds(c, r + 1)'
<1>1. /\ HubTypes /\ ServerTypes /\ wire \in [Subs -> Seq(Item)] /\ wire[c] \in Seq(Item)
      /\ wire'[c] = Tail(wire[c]) /\ folded \in Nat /\ folded' = folded /\ c \in joined'
  BY DEF Served, ServerTypes, HubTypes, Feeds, hubVars, subVars
<1>2. /\ OnWire(c)' = OnWire(c) - 1 /\ OnWire(c) \in Nat
      /\ OnWire(c) >= 1 /\ Head(wire[c]) = wire[c][1]
      /\ \A i \in 1 .. OnWire(c)' : i + 1 \in 1 .. OnWire(c) /\ wire'[c][i] = wire[c][i + 1]
  BY <1>1, WireShrinks DEF OnWire
<1>3. Head(wire[c]).seq = r /\ r <= folded
  <2>1. 1 \in 1 .. OnWire(c)
    BY <1>2
  <2>2. wire[c][1].seq = r + 1 - 1 /\ r + 1 <= folded + 1
    BY <2>1, <1>2 DEF Feeds
  <2> QED  BY <2>2, <1>1, <1>2
<1>4. ASSUME NEW i \in 1 .. OnWire(c)'
      PROVE  /\ wire'[c][i].kind = "event" =>
                   wire'[c][i].seq = (r + 1) + i - 1 /\ (r + 1) + i <= folded' + 1
             /\ wire'[c][i].kind = "run_ended" => (r + 1) + i > folded' + 1
  <2>1. i + 1 \in 1 .. OnWire(c) /\ wire'[c][i] = wire[c][i + 1] /\ i \in Nat
    <3>1. OnWire(c)' \in Int
      BY <1>2
    <3>2. i \in Nat
      BY <3>1
    <3>3. i + 1 \in 1 .. OnWire(c) /\ wire'[c][i] = wire[c][i + 1]
      BY <1>2
    <3> QED  BY <3>2, <3>3
  <2>2. /\ wire[c][i + 1].kind = "event" =>
              wire[c][i + 1].seq = r + (i + 1) - 1 /\ r + (i + 1) <= folded + 1
        /\ wire[c][i + 1].kind = "run_ended" => r + (i + 1) > folded + 1
    BY <2>1 DEF Feeds
  <2>3. r + (i + 1) - 1 = (r + 1) + i - 1 /\ r + (i + 1) = (r + 1) + i
    BY <2>1
  <2> QED  BY <2>1, <2>2, <2>3, <1>1
<1>5. conn'[c] = "open" => First(c)' + Took(c)' = (r + 1) + OnWire(c)'
  <2>1. First(c)' = First(c) /\ Took(c)' = Took(c)
    BY DEF First, Took, hubVars, subVars
  <2>2. conn[c] = "open" => First(c) + Took(c) = r + OnWire(c)
    BY DEF Feeds
  <2>3. r + OnWire(c) = (r + 1) + OnWire(c)'
    BY <1>2
  <2> QED  BY <2>1, <2>2, <2>3
<1> QED  BY <1>1, <1>3, <1>4, <1>5 DEF Feeds

-----------------------------------------------------------------------------
(* What Served says in the words of Hub's properties. *)

\* The ring holds exactly the newest events (appendToRing, ringSnapshot).
LEMMA RingIsKept == Served => RingIsRecent
<1> SUFFICES ASSUME Served PROVE RingIsRecent
  OBVIOUS
<1>1. HubTypes /\ RingKept
  BY DEF Served
<1>2. RingSnapshot = [i \in 1 .. ringLen |-> (folded - ringLen) + i] /\ folded - ringLen \in Nat
  BY <1>1, SnapshotIsRecent
<1>3. folded \in Nat /\ ringLen \in Nat
  BY <1>1, HubAssumption DEF HubTypes
<1>4. Run(folded - ringLen + 1, folded) = [i \in 1 .. ringLen |-> (folded - ringLen) + i]
  <2>1. (folded + 1) - (folded - ringLen + 1) = ringLen
    BY <1>3
  <2>2. \A i \in 1 .. ringLen : (folded - ringLen + 1) + i - 1 = (folded - ringLen) + i
    BY <1>3
  <2> QED  BY <2>1, <2>2 DEF Run
<1>5. ringLen > 0 => ringLo = RingSnapshot[1]
  <2> HAVE ringLen > 0
  <2>1. RingSnapshot[1] = (folded - ringLen) + 1
    BY <1>2, <1>3
  <2> QED  BY <2>1, <1>1, <1>3 DEF RingKept
<1> QED  BY <1>1, <1>2, <1>4, <1>5 DEF RingIsRecent, RingKept

\* What a subscriber is handed has no gap and no repetition, and is all there
\* is while it is registered (Hub.Emit, Hub.Subscribe).
LEMMA NothingIsSkipped == Served => NoEventSkipped
<1> SUFFICES ASSUME Served, NEW s \in joined
             PROVE  /\ Handed(s) = Run(First(s), First(s) + Len(Handed(s)) - 1)
                    /\ (s \in subs /\ folded >= First(s))
                          => Len(Handed(s)) = folded + 1 - First(s)
  BY DEF NoEventSkipped, First
<1>1. HubTypes /\ SubKept(s) /\ s \in Subs
  BY DEF Served, HubTypes
<1>2. /\ folded \in Nat /\ taken[s] \in Seq(Nat) /\ queue[s] \in Seq(Nat)
      /\ Took(s) \in Nat /\ Held(s) \in Nat /\ First(s) \in Nat
  BY <1>1, SubTypes
<1>3. /\ Handed(s) \in Seq(Nat) /\ Len(Handed(s)) = Count(s)
      /\ \A i \in 1 .. Count(s) :
            Handed(s)[i] = IF i <= Took(s) THEN taken[s][i] ELSE queue[s][i - Took(s)]
  <2>1. /\ Handed(s) \in Seq(Nat) /\ Len(Handed(s)) = Len(taken[s]) + Len(queue[s])
    BY <1>2, ConcatProperties DEF Handed
  <2>2. \A i \in 1 .. Len(taken[s]) + Len(queue[s]) :
           Handed(s)[i] = IF i <= Len(taken[s]) THEN taken[s][i]
                          ELSE queue[s][i - Len(taken[s])]
    BY <1>2, ConcatProperties DEF Handed
  <2> QED  BY <2>1, <2>2 DEF Count, Took, Held
<1>4. ASSUME NEW i \in 1 .. Count(s) PROVE Handed(s)[i] = First(s) + i - 1
  <2>1. Count(s) = Took(s) + Held(s) /\ i \in Nat /\ i >= 1 /\ i <= Took(s) + Held(s)
    BY <1>2 DEF Count
  <2>2. CASE i <= Took(s)
    <3>1. i \in 1 .. Took(s)
      BY <2>1, <2>2, <1>2
    <3> QED  BY <3>1, <2>2, <1>1, <1>3 DEF SubKept
  <2>3. CASE ~(i <= Took(s))
    <3>1. i - Took(s) \in 1 .. Held(s)
      BY <2>1, <2>3, <1>2
    <3>2. queue[s][i - Took(s)] = First(s) + Took(s) + (i - Took(s)) - 1
      BY <3>1, <1>1 DEF SubKept
    <3>3. First(s) + Took(s) + (i - Took(s)) - 1 = First(s) + i - 1
      BY <2>1, <1>2
    <3> QED  BY <3>2, <3>3, <2>3, <1>3
  <2> QED  BY <2>2, <2>3
<1>5. Run(First(s), First(s) + Count(s) - 1) = [i \in 1 .. Count(s) |-> First(s) + i - 1]
  <2>1. Count(s) \in Nat
    BY <1>2 DEF Count
  <2>2. (First(s) + Count(s) - 1 + 1) - First(s) = Count(s)
    BY <2>1, <1>2
  <2> QED  BY <2>2 DEF Run
<1>6. Handed(s) = [i \in 1 .. Count(s) |-> Handed(s)[i]]
  BY <1>3
<1> HIDE DEF Handed
<1>7. Handed(s) = Run(First(s), First(s) + Len(Handed(s)) - 1)
  BY <1>3, <1>4, <1>5, <1>6
<1>8. (s \in subs /\ folded >= First(s)) => Count(s) = folded + 1 - First(s)
  BY <1>1 DEF SubKept, UpToDate
<1> QED  BY <1>3, <1>7, <1>8

\* Emit disconnects a subscriber only when more than a ring's worth of events
\* is waiting for it (subscriberHeadroom).
LEMMA DropsALaggard ==
    ASSUME Served, ServerNext, NEW s \in dropped' \ dropped
    PROVE  recorded - Len(taken[s]) - Max2(asked[s], 1) >= RingSize + 1
<1>1. CASE Engine /\ Emit /\ ~closed
  <2>1. s \in subs /\ next[s] <= recorded /\ Len(queue[s]) >= Capacity
    BY <1>1 DEF Emit, FanOut
  <2>2. HubTypes /\ SubKept(s) /\ FoldKept /\ s \in Subs
    BY <2>1 DEF Served, HubTypes
  <2>3. /\ asked[s] \in Nat /\ next[s] \in Nat /\ folded \in Nat
        /\ Took(s) \in Nat /\ Held(s) \in Nat /\ Count(s) \in Nat
        /\ First(s) \in Nat /\ First(s) >= 1
        /\ First(s) = IF asked[s] = 0 THEN 1 ELSE asked[s]
    BY <2>2, SubTypes
  <2>4. Held(s) >= 2 * RingSize /\ RingSize \in Nat /\ RingSize >= 1
    BY <2>1, HubAssumption DEF Held, Capacity
  <2>5. recorded = folded + 1
    BY <1>1, <2>2 DEF FoldKept, Emit
  <2>6. Count(s) = Took(s) + Held(s) /\ Count(s) > 0
    BY <2>3, <2>4 DEF Count
  <2>7. Count(s) = folded + 1 - First(s)
    BY <2>1, <2>2, <2>3, <2>6 DEF SubKept, UpToDate
  <2>8. recorded - Took(s) - First(s) = Held(s)
    BY <2>3, <2>5, <2>6, <2>7
  <2>9. recorded - Took(s) - First(s) >= RingSize + 1
    BY <2>3, <2>4, <2>8
  <2> QED  BY <2>9 DEF Took, First
<1>2. ASSUME ~(Engine /\ Emit /\ ~closed) PROVE dropped' = dropped
  BY <1>2 DEF ServerNext, Engine, AppendEvent, AppendFails, Emit, AttachCloses, CloseHub,
              Handlers, WriteEvent, WriteMarker, HandlerLeaves, Faults, WriteStalls, Break,
              Closing, BeginClose, CloseDone, ForceClose, Crash, hubVars
<1> QED  BY <1>1, <1>2

=============================================================================
