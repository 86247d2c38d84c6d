------------------------------ MODULE Fallback ------------------------------
(***************************************************************************)
(* One Subscribe call of a FallbackSource (internal/source/fallback.go)    *)
(* over a LiveSource (live.go) and the run's directory on disk (file.go),  *)
(* against the attach server of Stream.  relay copies the live stream to   *)
(* the caller, decides at each end whether the engine is gone, reconnects  *)
(* within a budget, or goes over to events.jsonl for good.                 *)
(*                                                                         *)
(* The run directory is taken to be readable: OpenFile succeeds.  State,   *)
(* Logs and Control of the same source share the fellBack decision and are *)
(* represented by it.                                                      *)
(***************************************************************************)
EXTENDS Stream

CONSTANT MaxNoProgress   \* maxConsecutiveNoProgressReconnects

VARIABLES
    phase,       \* "idle", "live", "backoff", "disk" or "over"
    why,         \* why the call is over
    cur,         \* the connection being relayed
    used,        \* connections the call has opened
    start,       \* the caller's fromSeq
    resumeFrom,  \* relay's resumeFrom
    delivered,   \* relay's delivered > 0
    streak,      \* relay's noProgressStreak
    out,         \* what the caller has received
    fellBack     \* FallbackSource.fellBack

clientVars == <<phase, why, cur, used, start, resumeFrom, delivered, streak, out, fellBack>>
vars == <<streamVars, clientVars>>

Init ==
    /\ StreamInit
    /\ phase = "idle" /\ why = "none"
    /\ cur = CHOOSE c \in Subs : TRUE
    /\ used = {}
    /\ start = 0 /\ resumeFrom = 0
    /\ delivered = FALSE /\ streak = 0
    /\ out = <<>> /\ fellBack = FALSE

-----------------------------------------------------------------------------
\* The call returns, or its channel closes, for the given reason.
End(reason) == phase' = "over" /\ why' = reason

\* SubscribeStream and what its answer means to the call: a status error is
\* the answer of a live server and ends the call, only a transport failure
\* (isEngineGone) moves it to disk.
Connect(from) ==
    \/ /\ used # Subs
       /\ cur' = CHOOSE c \in Subs \ used : TRUE
       /\ Accept(cur', from)
       /\ used' = used \cup {cur'}
       /\ phase' = "live"
       /\ delivered' = FALSE
       /\ UNCHANGED <<why, fellBack>>
    \/ /\ Gone(from)
       /\ End("overflow")
       /\ UNCHANGED <<streamVars, cur, used, delivered, fellBack>>
    \/ /\ Unavailable(from)
       /\ End("refused")
       /\ UNCHANGED <<streamVars, cur, used, delivered, fellBack>>
    \/ /\ Unreachable
       /\ phase' = "disk"
       /\ fellBack' = TRUE
       /\ UNCHANGED <<streamVars, why, cur, used, delivered>>

\* FallbackSource.Subscribe.
SubscribeCall(from) ==
    /\ phase = "idle"
    /\ Connect(from)
    /\ start' = from /\ resumeFrom' = from
    /\ UNCHANGED <<streak, out>>

\* relay, after reconnectBackoff.
Reconnect ==
    /\ phase = "backoff"
    /\ Connect(resumeFrom)
    /\ UNCHANGED <<start, resumeFrom, streak, out>>

\* A mutant: the resume point is the event just relayed.
RelayAgain ==
    /\ phase = "live" /\ wire[cur] # <<>> /\ Head(wire[cur]).kind = "event"
    /\ out' = Append(out, Head(wire[cur]).seq)
    /\ resumeFrom' = Head(wire[cur]).seq
    /\ delivered' = TRUE
    /\ wire' = [wire EXCEPT ![cur] = Tail(@)]
    /\ UNCHANGED <<hubVars, server, conn, handler, lastSeq, faults,
                   phase, why, cur, used, start, streak, fellBack>>

\* relay's inner loop: one event from the stream to the caller.
RelayEvent ==
    /\ phase = "live" /\ wire[cur] # <<>> /\ Head(wire[cur]).kind = "event"
    /\ LET e == Head(wire[cur]).seq
       IN /\ out' = Append(out, e)
          /\ resumeFrom' = e + 1
    /\ delivered' = TRUE
    /\ wire' = [wire EXCEPT ![cur] = Tail(@)]
    /\ UNCHANGED <<hubVars, server, conn, handler, lastSeq, faults,
                   phase, why, cur, used, start, streak, fellBack>>

\* The terminal marker: run_ended is the one that means the engine is gone.
RelayMarker ==
    /\ phase = "live" /\ wire[cur] # <<>> /\ Head(wire[cur]).kind # "event"
    /\ IF Head(wire[cur]).kind = "overflowed"
       THEN End("overflowed") /\ UNCHANGED fellBack
       ELSE phase' = "disk" /\ fellBack' = TRUE /\ UNCHANGED why
    /\ UNCHANGED <<streamVars, cur, used, start, resumeFrom, delivered, streak, out>>

\* Mutants: one reconnect beyond the budget; silence taken for the engine's end.
OverBudget ==
    /\ phase = "live" /\ wire[cur] = <<>> /\ conn[cur] # "open"
    /\ streak' = IF delivered THEN 0 ELSE streak + 1
    /\ IF streak' > MaxNoProgress
       THEN End("noprogress")
       ELSE phase' = "backoff" /\ UNCHANGED why
    /\ UNCHANGED <<streamVars, cur, used, start, resumeFrom, delivered, out, fellBack>>
SilenceIsTheEnd ==
    /\ phase = "live" /\ wire[cur] = <<>> /\ conn[cur] # "open"
    /\ phase' = "disk" /\ fellBack' = TRUE
    /\ UNCHANGED <<streamVars, why, cur, used, start, resumeFrom, delivered, streak, out>>

\* The stream ended and said nothing: the benefit of the doubt, within the
\* no-progress budget, which any delivered event restores.
RelaySilentEnd ==
    /\ phase = "live" /\ wire[cur] = <<>> /\ conn[cur] # "open"
    /\ streak' = IF delivered THEN 0 ELSE streak + 1
    /\ IF streak' >= MaxNoProgress
       THEN End("noprogress")
       ELSE phase' = "backoff" /\ UNCHANGED why
    /\ UNCHANGED <<streamVars, cur, used, start, resumeFrom, delivered, out, fellBack>>

\* FileSource.stream with follow: the events from resumeFrom on, as they
\* are in the ledger, until run.finished has been read.
DiskEvent ==
    /\ phase = "disk"
    /\ resumeFrom <= recorded /\ recorded > 0
    /\ out' = Append(out, Max2(resumeFrom, 1))
    /\ resumeFrom' = Max2(resumeFrom, 1) + 1
    /\ UNCHANGED <<streamVars, phase, why, cur, used, start, delivered, streak, fellBack>>

\* Mutants: the seal is enough; a reader that was given nothing goes on waiting.
EndAtTheSeal ==
    /\ phase = "disk" /\ ledger = "sealed"
    /\ End("finished")
    /\ UNCHANGED <<streamVars, cur, used, start, resumeFrom, delivered, streak, out, fellBack>>
WaitForMore ==
    /\ phase = "disk"
    /\ ledger = "sealed" /\ resumeFrom > recorded /\ out # <<>>
    /\ End("finished")
    /\ UNCHANGED <<streamVars, cur, used, start, resumeFrom, delivered, streak, out, fellBack>>

\* run.finished has been read, or was behind resumeFrom already.
DiskEnd ==
    /\ phase = "disk"
    /\ ledger = "sealed" /\ resumeFrom > recorded
    /\ End("finished")
    /\ UNCHANGED <<streamVars, cur, used, start, resumeFrom, delivered, streak, out, fellBack>>

\* The caller's context is cancelled or the source is closed; the response
\* body is closed with it.
Leave ==
    /\ phase \in {"live", "backoff", "disk"}
    /\ End("left")
    /\ conn' = [conn EXCEPT ![cur] = IF @ = "open" THEN "cut" ELSE @]
    /\ UNCHANGED <<hubVars, server, handler, lastSeq, wire, faults, cur,
                   used, start, resumeFrom, delivered, streak, out, fellBack>>

Relay == Reconnect \/ RelayEvent \/ RelayMarker \/ RelaySilentEnd \/ DiskEvent \/ DiskEnd

Next ==
    \/ ServerNext /\ UNCHANGED clientVars
    \/ \E from \in 0 .. MaxSeq : SubscribeCall(from)
    \/ Relay
    \/ Leave

Spec == Init /\ [][Next]_vars

\* relay is a goroutine whose caller keeps reading.
FairSpec == Spec /\ ServerFairness /\ WF_vars(Relay)

-----------------------------------------------------------------------------
(* Properties. *)

\* Types of the call's, the server's and the hub's state.
TypeOK ==
    /\ HubTypeOK
    /\ phase \in {"idle", "live", "backoff", "disk", "over"}
    /\ why \in {"none", "overflow", "overflowed", "refused", "noprogress",
                "finished", "left"}
    /\ cur \in Subs /\ used \subseteq Subs
    /\ start \in 0 .. MaxSeq /\ resumeFrom \in 0 .. MaxSeq + 1
    /\ delivered \in BOOLEAN /\ fellBack \in BOOLEAN
    /\ streak \in 0 .. MaxNoProgress
    /\ out \in Seq(1 .. MaxSeq)
    /\ server \in {"up", "closing", "done", "gone"}
    /\ conn \in [Subs -> {"unused", "open", "ended", "cut"}]
    /\ handler \in [Subs -> {"none", "streaming", "returned"}]
    /\ faults \in 0 .. MaxFaults

\* The source goes over to disk only when the engine really is going: its
\* hub is closed or its server no longer answers.  A slow client, a broken
\* connection or an overflow never demotes it (isEngineGone, the markers).
NoFalseDemotion == fellBack => closed \/ server = "gone"

\* "overflowed" is only ever said to a client that missed something, and
\* "run_ended" only when nothing more will come (handleStream's heuristic).
MarkersTruthful ==
    \A c \in Subs : \A i \in 1 .. Len(wire[c]) :
        /\ wire[c][i].kind = "overflowed" => c \in dropped
        /\ wire[c][i].kind = "run_ended" => closed /\ c \notin dropped

\* What the server says of a stream and what the source makes of it are true:
\* no subscriber of the hub is passed over, nobody is told of an overflow or an
\* end that was not, and the engine is given up only when it is going.
StreamIsHonest == NoEventSkipped /\ NoFalseDemotion /\ MarkersTruthful

\* The promise of Subscribe, with the ledger as what the run has written and
\* the caller's channel as what it got.
Promise == INSTANCE Delivery WITH
    written <- recorded,
    sealed  <- ledger = "sealed",
    asked   <- start,
    got     <- out,
    call    <- CASE phase = "idle" -> "idle"
                 [] phase = "over" /\ why = "finished" -> "finished"
                 [] phase = "over" /\ why # "finished" -> "cut"
                 [] OTHER -> "open"

\* Across reconnects, broken connections, overflows and the move to disk, the
\* source implements Delivery: the caller gets the events from the one it asked
\* for, in order, none twice, none missing and none before it is recorded, and
\* the end only after the last of them (relay's resumeFrom, FileSource's
\* watermark).
ImplementsDelivery == Promise!Spec

\* Once the engine has exited and its run is recorded to the end, a call in
\* progress comes to its end.
CallEnds ==
    (server = "gone" /\ ledger = "sealed" /\ phase # "idle") ~> (phase = "over")
=============================================================================
