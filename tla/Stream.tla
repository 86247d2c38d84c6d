------------------------------- MODULE Stream -------------------------------
(***************************************************************************)
(* The attach server's event stream (internal/attachsrv/server.go,         *)
(* handleStream and Server.Close; attach/attach.go, Attach.Close) on top   *)
(* of the hub.  A subscriber of the hub is one GET /api/stream connection: *)
(* its handler moves events from the subscriber's channel to the wire and  *)
(* decides which terminal marker, if any, the client gets to see.          *)
(*                                                                         *)
(* The wire of a connection is the bytes the handler wrote that the client *)
(* has not read.  A connection that has "ended" can still be read to its   *)
(* end; a "cut" one has lost what was in flight.                           *)
(***************************************************************************)
EXTENDS Hub

CONSTANTS
    WireCap,    \* how much a stalled client's connection buffers
    MaxFaults   \* bound: connections that break or stall

VARIABLES
    server,     \* "up", "closing", "done" (s.done closed) or "gone"
    conn,       \* per connection: "unused", "open", "ended" or "cut"
    handler,    \* per connection: "none", "streaming" or "returned"
    lastSeq,    \* handleStream's lastSeq
    wire,       \* what the client has not read yet
    faults      \* faults so far

serverVars == <<server, conn, handler, lastSeq, wire, faults>>
streamVars == <<hubVars, serverVars>>

EventItem(e) == [kind |-> "event", seq |-> e]
Marker(reason, last) == [kind |-> reason, seq |-> last]

StreamInit ==
    /\ HubInit
    /\ server = "up"
    /\ conn = [c \in Subs |-> "unused"]
    /\ handler = [c \in Subs |-> "none"]
    /\ lastSeq = [c \in Subs |-> 0]
    /\ wire = [c \in Subs |-> <<>>]
    /\ faults = 0

-----------------------------------------------------------------------------
(* What a client's request for the stream is answered with. *)

\* The listener is closed, or the whole process is gone.
Unreachable == server = "gone"

\* 410 Gone: the resume point has left the ring.
Gone(from) == ~Unreachable /\ ~closed /\ Overflow(from)

\* 503: the hub is closed, or Server.Close has committed and track refuses.
Unavailable(from) == ~Unreachable /\ ~Gone(from) /\ (closed \/ server # "up")

\* 200: subscribed, tracked, headers flushed.
Accept(c, from) ==
    /\ server = "up"
    /\ Subscribe(c, from)
    /\ conn' = [conn EXCEPT ![c] = "open"]
    /\ handler' = [handler EXCEPT ![c] = "streaming"]
    /\ UNCHANGED <<server, lastSeq, wire, faults>>

-----------------------------------------------------------------------------
(* handleStream's loop. *)

Returned(c) == handler' = [handler EXCEPT ![c] = "returned"]

\* The deferred cancel and untrack, and the connection ending behind them.
Finish(c) ==
    /\ Returned(c)
    /\ conn' = [conn EXCEPT ![c] = IF @ = "open" THEN "ended" ELSE @]

\* A select on the channel delivered an event and its write succeeded.
WriteEvent(c) ==
    /\ handler[c] = "streaming" /\ conn[c] = "open"
    /\ Len(wire[c]) < WireCap
    /\ Receive(c)
    /\ wire' = [wire EXCEPT ![c] = Append(@, EventItem(Head(queue[c])))]
    /\ lastSeq' = [lastSeq EXCEPT ![c] = Head(queue[c])]
    /\ UNCHANGED <<engineVars, folded, ringVars, subs, joined, asked, next, closed,
                   dropped, server, conn, handler, faults>>

\* Case 3: the client did not drain the connection before the write
\* deadline.  The handler returns; nothing more can reach the client.
WriteStalls(c) ==
    /\ handler[c] = "streaming" /\ conn[c] = "open"
    /\ Len(wire[c]) >= WireCap
    /\ faults < MaxFaults
    /\ faults' = faults + 1
    /\ Finish(c)
    /\ Receive(c)
    /\ Cancel(c)
    /\ UNCHANGED <<engineVars, folded, ringVars, joined, asked, next, closed,
                   dropped, server, lastSeq, wire>>

\* Mutants: the fold alone decides; an overflow is told as the run's end.
BehindTheFold(c) == IF folded > lastSeq[c] THEN "overflowed" ELSE "run_ended"
AlwaysEnded(c) == "run_ended"

\* The marker's reason: overflowed only for a connection that delivered
\* something and is behind the fold.
EndReason(c) ==
    IF lastSeq[c] > 0 /\ folded > lastSeq[c] THEN "overflowed" ELSE "run_ended"

\* Case 4: the channel is closed and drained.  The marker write is best
\* effort: on a full or broken connection it is lost.
WriteMarker(c) ==
    /\ handler[c] = "streaming"
    /\ ChannelClosed(c) /\ queue[c] = <<>>
    /\ Finish(c)
    /\ wire' = [wire EXCEPT ![c] =
                   IF conn[c] = "open" /\ Len(@) < WireCap
                   THEN Append(@, Marker(EndReason(c), lastSeq[c])) ELSE @]
    /\ UNCHANGED <<hubVars, server, lastSeq, faults>>

\* Cases 1 and 2: the select woke on the client's disconnect or on s.done.
\* One more non-blocking receive: an event is written (if anything is left
\* to write to) and the handler returns without looking further; a closed,
\* drained channel gets its marker through WriteMarker, which this step
\* leaves to it; an empty open channel ends the stream silently.
HandlerLeaves(c) ==
    /\ handler[c] = "streaming"
    /\ conn[c] # "open" \/ server \in {"done", "gone"}
    /\ ~(ChannelClosed(c) /\ queue[c] = <<>>)
    /\ Finish(c)
    /\ Cancel(c)
    /\ IF queue[c] = <<>>
       THEN UNCHANGED <<queue, taken, wire>>
       ELSE /\ Receive(c)
            /\ wire' = [wire EXCEPT ![c] =
                           IF conn[c] = "open" /\ Len(@) < WireCap
                           THEN Append(@, EventItem(Head(queue[c]))) ELSE @]
    /\ UNCHANGED <<engineVars, folded, ringVars, joined, asked, next, closed,
                   dropped, server, lastSeq, faults>>

\* The connection breaks under both ends (a port-forward, a reset).
Break(c) ==
    /\ conn[c] \in {"open", "ended"}
    /\ faults < MaxFaults
    /\ faults' = faults + 1
    /\ conn' = [conn EXCEPT ![c] = "cut"]
    /\ wire' = [wire EXCEPT ![c] = <<>>]
    /\ UNCHANGED <<hubVars, server, handler, lastSeq>>

-----------------------------------------------------------------------------
(* Shutting down. *)

\* Server.Close commits: track refuses from here on.  Attach.Close closes
\* the hub first; a cancelled Listen context closes the server alone.
BeginClose ==
    /\ server = "up"
    /\ server' = "closing"
    /\ UNCHANGED <<hubVars, conn, handler, lastSeq, wire, faults>>

\* close(s.done).  With the hub closed the handlers are first given
\* streamWriteTimeout to write their markers, so this comes once they have
\* all returned or the timeout has passed; otherwise at once.
CloseDone ==
    /\ server = "closing"
    /\ server' = "done"
    /\ UNCHANGED <<hubVars, conn, handler, lastSeq, wire, faults>>

\* httpSrv.Close: the listener and every connection go.
ForceClose ==
    /\ server = "done"
    /\ server' = "gone"
    /\ conn' = [c \in Subs |-> IF conn[c] = "open" THEN "ended" ELSE conn[c]]
    /\ UNCHANGED <<hubVars, handler, lastSeq, wire, faults>>

\* kill -9: hub, server and handlers vanish with the process; what was
\* written can still be read, and the ledger keeps what was flushed.
Crash ==
    /\ server # "gone"
    /\ server' = "gone"
    /\ conn' = [c \in Subs |-> IF conn[c] = "open" THEN "ended" ELSE conn[c]]
    /\ handler' = [c \in Subs |-> IF handler[c] = "streaming" THEN "returned"
                                  ELSE handler[c]]
    /\ ledger' = IF ledger = "open" THEN "broken" ELSE ledger
    /\ emitting' = FALSE
    /\ closed' = TRUE
    /\ subs' = {}
    /\ UNCHANGED <<recorded, folded, ringVars, joined, asked, next, queue,
                   taken, dropped, lastSeq, wire, faults>>

-----------------------------------------------------------------------------
Engine ==
    /\ \/ \E final \in BOOLEAN : AppendEvent(final)
       \/ AppendFails
       \/ Emit
    /\ UNCHANGED serverVars

\* Attach.Close is called when the run is over.
AttachCloses ==
    /\ ledger # "open" /\ ~emitting
    /\ CloseHub
    /\ UNCHANGED serverVars

Handlers ==
    \E c \in Subs : WriteEvent(c) \/ WriteMarker(c) \/ HandlerLeaves(c)

Faults == \E c \in Subs : WriteStalls(c) \/ Break(c)

Closing == BeginClose \/ CloseDone \/ ForceClose

ServerNext ==
    Engine \/ AttachCloses \/ Handlers \/ Faults \/ Closing \/ Crash

\* The engine, the server and the handlers run on: goroutines are scheduled,
\* the run ends, its embedder closes the attach server.
ServerFairness ==
    /\ WF_streamVars(Engine)
    /\ WF_streamVars(AttachCloses)
    /\ WF_streamVars(Handlers)
    /\ WF_streamVars(closed /\ BeginClose)
    /\ WF_streamVars(CloseDone)
    /\ WF_streamVars(ForceClose)
=============================================================================
