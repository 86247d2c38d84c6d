-------------------------------- MODULE Tail --------------------------------
(***************************************************************************)
(* The snapshot-and-tail client (internal/tail/tail.go, Run and tailFrom)  *)
(* that the browser and the terminal clients fold a run with: GET          *)
(* /api/state, then the stream from the snapshot's Seq + 1, folding every  *)
(* event; on overflow back to the snapshot.  The fold is its sequence      *)
(* number (api.RunState.Apply advances it and refuses to go back).         *)
(***************************************************************************)
EXTENDS Stream

CONSTANT MaxNoProgressRounds

VARIABLES
    phase,      \* "snapshot", "subscribe", "reading" or "over"
    result,     \* what Run returned
    cur,        \* the connection being read
    used,       \* connections opened
    st,         \* the fold's Seq
    from,       \* tailFrom's resume point
    progress,   \* tailFrom's folded > 0 in this round
    delivered,  \* events delivered by this attempt > 0
    stalled     \* Run's count of rounds that folded nothing

clientVars == <<phase, result, cur, used, st, from, progress, delivered, stalled>>
vars == <<streamVars, clientVars>>

Init ==
    /\ StreamInit
    /\ phase = "snapshot" /\ result = "none"
    /\ cur = CHOOSE c \in Subs : TRUE
    /\ used = {}
    /\ st = 0 /\ from = 0
    /\ progress = FALSE /\ delivered = FALSE /\ stalled = 0

Return(r) == phase' = "over" /\ result' = r

\* A mutant: an unreachable server is waited for.
SnapshotWaits ==
    /\ phase = "snapshot" /\ ~Unreachable
    /\ st' = folded /\ from' = folded + 1
    /\ progress' = FALSE
    /\ phase' = "subscribe"
    /\ UNCHANGED <<streamVars, result, cur, used, delivered, stalled>>

\* Run's loop head: fetch and publish a fresh snapshot.
Snapshot ==
    /\ phase = "snapshot"
    /\ IF Unreachable
       THEN Return("error") /\ UNCHANGED <<st, from, progress>>
       ELSE /\ st' = folded
            /\ from' = folded + 1
            /\ progress' = FALSE
            /\ phase' = "subscribe"
            /\ UNCHANGED result
    /\ UNCHANGED <<streamVars, cur, used, delivered, stalled>>

\* A round ended without the run ending: go round again unless too many in
\* a row folded nothing.
EndRound ==
    /\ stalled' = IF progress THEN 0 ELSE stalled + 1
    /\ IF stalled' >= MaxNoProgressRounds
       THEN Return("noprogress")
       ELSE phase' = "snapshot" /\ UNCHANGED result

\* Backend.Stream: 410 is an overflow, everything else but 200 a failure.
OpenStream ==
    /\ phase = "subscribe"
    /\ \/ /\ used # Subs
          /\ cur' = CHOOSE c \in Subs \ used : TRUE
          /\ Accept(cur', from)
          /\ used' = used \cup {cur'}
          /\ phase' = "reading"
          /\ delivered' = FALSE
          /\ UNCHANGED <<result, stalled>>
       \/ /\ Gone(from)
          /\ EndRound
          /\ UNCHANGED <<streamVars, cur, used, delivered>>
       \/ /\ Unavailable(from) \/ Unreachable
          /\ Return("error")
          /\ UNCHANGED <<streamVars, cur, used, delivered, stalled>>
    /\ UNCHANGED <<st, from, progress>>

\* Fold.apply: an event behind the fold is refused and ends the run.
FoldEvent ==
    /\ phase = "reading" /\ wire[cur] # <<>> /\ Head(wire[cur]).kind = "event"
    /\ LET e == Head(wire[cur]).seq
       IN IF e < st
          THEN /\ Return("outOfOrder")
               /\ UNCHANGED <<st, from, progress, delivered>>
          ELSE /\ st' = e /\ from' = e + 1
               /\ progress' = TRUE /\ delivered' = TRUE
               /\ UNCHANGED <<phase, result>>
    /\ wire' = [wire EXCEPT ![cur] = Tail(@)]
    /\ UNCHANGED <<hubVars, server, conn, handler, lastSeq, faults,
                   cur, used, stalled>>

\* The terminal marker: run_ended is the only conclusive end.
ReadMarker ==
    /\ phase = "reading" /\ wire[cur] # <<>> /\ Head(wire[cur]).kind # "event"
    /\ IF Head(wire[cur]).kind = "run_ended"
       THEN Return("done") /\ UNCHANGED stalled
       ELSE EndRound
    /\ UNCHANGED <<streamVars, cur, used, st, from, progress, delivered>>

\* No marker: an attempt that delivered reconnects where it got to, one
\* that delivered nothing hands the round back to Run.
SilentEnd ==
    /\ phase = "reading" /\ wire[cur] = <<>> /\ conn[cur] # "open"
    /\ IF delivered
       THEN phase' = "subscribe" /\ UNCHANGED <<result, stalled>>
       ELSE EndRound
    /\ UNCHANGED <<streamVars, cur, used, st, from, progress, delivered>>

Client == Snapshot \/ OpenStream \/ FoldEvent \/ ReadMarker \/ SilentEnd

Next == (ServerNext /\ UNCHANGED clientVars) \/ Client

Spec == Init /\ [][Next]_vars

\* The client's loop runs on; its backend answers.
FairSpec == Spec /\ ServerFairness /\ WF_vars(Client)

-----------------------------------------------------------------------------
(* Properties. *)

\* "A returned nil means the server said run_ended, the only conclusive
\* end": the fold then has every event the hub ever folded.
DoneMeansAll == result = "done" => closed /\ st = folded

\* What a renderer sees never goes back, and the stream never skips: between
\* snapshots each fold step is exactly the next event.
FoldAdvances ==
    [][/\ st' >= st
       /\ phase = "reading" => st' \in {st, st + 1}]_vars

\* When the engine has exited, Run returns.
RunReturns == (server = "gone") ~> (phase = "over")

\* Run returns nil with the whole run folded, from a server whose ring holds
\* what it is taken to hold.
TailIsHonest == DoneMeansAll /\ RingIsRecent

\* Run's promise to its caller: the fold only advances, the stream is lost only
\* by a client that lags, and Run comes back once the engine has exited.
TailAdvances == FoldAdvances /\ OnlyLaggardsDropped /\ RunReturns
=============================================================================
