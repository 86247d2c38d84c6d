-------------------------------- MODULE Hub --------------------------------
(***************************************************************************)
(* The way one run's events leave the engine: the append-before-emit       *)
(* critical section of runCore.append, the ledger on disk                  *)
(* (internal/eventlog) and the hub (internal/attachsrv/hub.go) that folds  *)
(* every event, keeps a ring of the most recent ones for resume, and fans  *)
(* them out to subscribers without ever waiting for one.                   *)
(*                                                                         *)
(* An event is its sequence number: the ledger numbers them 1, 2, 3, ...   *)
(* and nothing here looks at any other field, except that the last one is  *)
(* run.finished.  The materialised RunState is the number it was folded    *)
(* at.                                                                     *)
(***************************************************************************)
EXTENDS Naturals, Sequences, FiniteSets

CONSTANTS
    Subs,      \* subscriber identities; each is used for one Subscribe call
    RingSize,  \* NewHub's ringSize, already clamped to at least 1
    MaxSeq     \* bound: events one run emits

ASSUME HubAssumption ==
    /\ RingSize \in Nat \ {0}
    /\ MaxSeq \in Nat

VARIABLES
    recorded,  \* events in the ledger: events.jsonl holds 1 .. recorded
    ledger,    \* "open", "broken" (a write failed) or "sealed" (run.finished is last)
    emitting,  \* emitMu is held between the ledger's append and the sink's Emit
    folded,    \* Hub.state.Seq
    ring,      \* Hub.ring: slots 0 .. RingSize - 1
    ringPos,   \* Hub.ringPos: index of the oldest entry
    ringLen,   \* Hub.ringLen
    ringLo,    \* Hub.ringLo
    evicted,   \* Hub.evicted
    subs,      \* Hub.subs: the registered subscribers
    joined,    \* every identity Subscribe has returned a channel for
    asked,     \* the fromSeq each subscriber gave
    next,      \* subscriber.next
    queue,     \* what is buffered in subscriber.ch
    taken,     \* what its reader has received from subscriber.ch so far
    closed,    \* Hub.closed
    dropped    \* the subscribers Emit disconnected (Hub.dropped counts them)

engineVars == <<recorded, ledger, emitting>>
ringVars == <<ring, ringPos, ringLen, ringLo, evicted>>
subVars == <<subs, joined, asked, next, queue, taken>>
hubVars == <<engineVars, folded, ringVars, subVars, closed, dropped>>

Slots == 0 .. RingSize - 1

\* A mutant: no room beyond one replay.
NoHeadroom == RingSize

\* subscriberHeadroom: strictly more room than one replay of the ring needs.
Capacity == RingSize * 2

\* A subscriber's channel is closed exactly when it is no longer registered.
ChannelClosed(s) == s \in joined /\ s \notin subs

HubInit ==
    /\ recorded = 0 /\ ledger = "open" /\ emitting = FALSE
    /\ folded = 0
    /\ ring = [i \in Slots |-> 0] /\ ringPos = 0 /\ ringLen = 0
    /\ ringLo = 0 /\ evicted = FALSE
    /\ subs = {} /\ joined = {}
    /\ asked = [s \in Subs |-> 0] /\ next = [s \in Subs |-> 0]
    /\ queue = [s \in Subs |-> <<>>] /\ taken = [s \in Subs |-> <<>>]
    /\ closed = FALSE /\ dropped = {}

-----------------------------------------------------------------------------
(* The engine's side. *)

\* emit and emitFinal: the record is flushed to events.jsonl before the sink
\* hears of it, and emitMu is held over both.  The final event seals the
\* stream in the same critical section.
AppendEvent(final) ==
    /\ ledger = "open" /\ ~emitting /\ recorded < MaxSeq
    /\ recorded + 1 = MaxSeq => final
    /\ recorded' = recorded + 1
    /\ emitting' = TRUE
    /\ ledger' = IF final THEN "sealed" ELSE "open"
    /\ UNCHANGED <<folded, ringVars, subVars, closed, dropped>>

\* A failed write breaks the ledger for good: no later append succeeds, and
\* nothing reaches the sink.
AppendFails ==
    /\ ledger = "open" /\ ~emitting
    /\ ledger' = "broken"
    /\ UNCHANGED <<recorded, emitting, folded, ringVars, subVars, closed, dropped>>

\* A mutant: ringLo is read before the position moves.
OldestBeforeMove(e) ==
    IF ringLen < RingSize
    THEN /\ ring' = [ring EXCEPT ![(ringPos + ringLen) % RingSize] = e]
         /\ ringLen' = ringLen + 1
         /\ ringLo' = IF ringLen = 0 THEN e ELSE ringLo
         /\ UNCHANGED <<ringPos, evicted>>
    ELSE /\ ring' = [ring EXCEPT ![ringPos] = e]
         /\ ringPos' = (ringPos + 1) % RingSize
         /\ evicted' = TRUE
         /\ ringLo' = ring[ringPos]
         /\ UNCHANGED ringLen

\* Hub.appendToRing.
AppendToRing(e) ==
    IF ringLen < RingSize
    THEN /\ ring' = [ring EXCEPT ![(ringPos + ringLen) % RingSize] = e]
         /\ ringLen' = ringLen + 1
         /\ ringLo' = IF ringLen = 0 THEN e ELSE ringLo
         /\ UNCHANGED <<ringPos, evicted>>
    ELSE /\ ring' = [ring EXCEPT ![ringPos] = e]
         /\ ringPos' = (ringPos + 1) % RingSize
         /\ evicted' = TRUE
         /\ ringLo' = ring'[ringPos']
         /\ UNCHANGED ringLen

\* A mutant: a full channel misses the event and stays subscribed.
SkipTheFull(e) ==
    LET served == {s \in subs : next[s] <= e /\ Len(queue[s]) < Capacity}
    IN /\ queue' = [s \in Subs |-> IF s \in served THEN Append(queue[s], e)
                                   ELSE queue[s]]
       /\ next' = [s \in Subs |-> IF s \in served THEN e + 1 ELSE next[s]]
       /\ UNCHANGED <<subs, dropped>>

\* The fan-out of Hub.Emit: a subscriber that asked for a later event is
\* passed over, one with room gets the event, one without is disconnected.
FanOut(e) ==
    LET wanting == {s \in subs : next[s] <= e}
        full    == {s \in wanting : Len(queue[s]) >= Capacity}
        served  == wanting \ full
    IN /\ queue' = [s \in Subs |-> IF s \in served THEN Append(queue[s], e)
                                   ELSE queue[s]]
       /\ next' = [s \in Subs |-> IF s \in served THEN e + 1 ELSE next[s]]
       /\ subs' = subs \ full
       /\ dropped' = dropped \cup full

\* Hub.Emit, with emitMu released after it.  A closed hub takes no event.
Emit ==
    /\ emitting
    /\ emitting' = FALSE
    /\ IF closed
       THEN UNCHANGED <<folded, ringVars, subs, next, queue, dropped>>
       ELSE /\ folded' = recorded
            /\ AppendToRing(recorded)
            /\ FanOut(recorded)
    /\ UNCHANGED <<recorded, ledger, joined, asked, taken, closed>>

-----------------------------------------------------------------------------
(* The observers' side. *)

\* Hub.ringSnapshot: oldest first.
RingSnapshot == [i \in 1 .. ringLen |-> ring[(ringPos + i - 1) % RingSize]]

\* Subscribe's loop over the snapshot: the entries from fromSeq on, in its order.
Replay(from) ==
    LET kept == {i \in 1 .. ringLen : RingSnapshot[i] >= from}
        kth(k) == CHOOSE i \in kept : Cardinality({j \in kept : j <= i}) = k
    IN [k \in 1 .. Cardinality(kept) |-> RingSnapshot[kth(k)]]

\* Subscribe's ErrLifecycleOverflow.
Overflow(from) == evicted /\ from < ringLo

\* Hub.Subscribe when it succeeds: the retained events from fromSeq on are
\* in the channel before the subscriber is registered.
Subscribe(s, from) ==
    /\ s \notin joined
    /\ ~closed
    /\ ~Overflow(from)
    /\ queue' = [queue EXCEPT ![s] = Replay(from)]
    /\ next' = [next EXCEPT ![s] = IF Replay(from) = <<>> THEN from
                                   ELSE Replay(from)[Len(Replay(from))] + 1]
    /\ asked' = [asked EXCEPT ![s] = from]
    /\ subs' = subs \cup {s}
    /\ joined' = joined \cup {s}
    /\ UNCHANGED <<engineVars, folded, ringVars, taken, closed, dropped>>

\* The subscriber's reader takes the oldest buffered event; a closed channel
\* still hands out what was buffered before the close.
Receive(s) ==
    /\ queue[s] # <<>>
    /\ taken' = [taken EXCEPT ![s] = Append(@, Head(queue[s]))]
    /\ queue' = [queue EXCEPT ![s] = Tail(@)]

\* The cancel func Subscribe returned: a no-op after a disconnect.
Cancel(s) == subs' = subs \ {s}

\* Hub.Close: every subscriber's channel is closed, and the hub with them.
CloseHub ==
    /\ ~closed
    /\ closed' = TRUE
    /\ subs' = {}
    /\ UNCHANGED <<engineVars, folded, ringVars, joined, asked, next, queue,
                   taken, dropped>>

-----------------------------------------------------------------------------
(* Properties. *)

\* Types of the hub's state.
HubTypeOK ==
    /\ recorded \in 0 .. MaxSeq /\ folded \in 0 .. MaxSeq
    /\ ledger \in {"open", "broken", "sealed"} /\ emitting \in BOOLEAN
    /\ ring \in [Slots -> 0 .. MaxSeq] /\ ringPos \in Slots
    /\ ringLen \in 0 .. RingSize /\ ringLo \in 0 .. MaxSeq
    /\ evicted \in BOOLEAN /\ closed \in BOOLEAN
    /\ subs \subseteq joined /\ joined \subseteq Subs /\ dropped \subseteq joined
    /\ asked \in [Subs -> 0 .. MaxSeq + 1] /\ next \in [Subs -> 0 .. MaxSeq + 1]
    /\ queue \in [Subs -> Seq(1 .. MaxSeq)] /\ taken \in [Subs -> Seq(1 .. MaxSeq)]

Max2(a, b) == IF a > b THEN a ELSE b

\* Everything the hub has put in s's channel, read or not.
Handed(s) == taken[s] \o queue[s]

\* The run of events first, first + 1, ..., last.
Run(first, last) == [i \in 1 .. (last + 1) - first |-> first + i - 1]

\* "fixed-size circular buffer": whatever the positions are, the ring holds
\* exactly the newest events, oldest first, and ringLo names the first of
\* them (Hub.appendToRing, Hub.ringSnapshot).
RingIsRecent ==
    /\ RingSnapshot = Run(folded - ringLen + 1, folded)
    /\ ringLen = IF folded < RingSize THEN folded ELSE RingSize
    /\ (ringLen > 0) => (ringLo = RingSnapshot[1])
    /\ evicted <=> (folded > RingSize)

\* "never skipped past": what a subscriber is handed starts at the event it
\* asked for and has no gap and no repetition, and a subscriber that is still
\* registered has been handed everything folded from there on (Hub.Emit,
\* Hub.Subscribe).
NoEventSkipped ==
    \A s \in joined :
        LET first == Max2(asked[s], 1)
        IN /\ Handed(s) = Run(first, first + Len(Handed(s)) - 1)
           /\ (s \in subs /\ folded >= first)
                => Len(Handed(s)) = folded + 1 - first

\* A subscriber is only disconnected for lagging: it has read fewer than the
\* events the hub folded by more than a whole ring, so one that merely
\* received a full replay is not (subscriberHeadroom).
OnlyLaggardsDropped ==
    [][\A s \in dropped' \ dropped :
          recorded - Len(taken[s]) - Max2(asked[s], 1) >= RingSize + 1]_hubVars
=============================================================================
