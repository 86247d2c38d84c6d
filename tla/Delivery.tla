------------------------------ MODULE Delivery ------------------------------
(***************************************************************************)
(* What Source.Subscribe (internal/source/source.go) promises its caller,  *)
(* whoever answers: "events with Seq >= fromSeq, in order", from 0 being   *)
(* the whole run.  The run writes events 1, 2, 3, ... and at some point    *)
(* its last one; the caller gets them from the one it asked for, each      *)
(* once, never before it is written; and delivery is done only when there  *)
(* is nothing left to get.  Where the events come from - a ring, a         *)
(* connection, a second one, a file - does not show.                       *)
(***************************************************************************)
EXTENDS Naturals, Sequences

VARIABLES
    written,  \* events the run has written
    sealed,   \* the last of them is run.finished
    asked,    \* the sequence number the caller asked for; 0 is the beginning
    got,      \* what the caller has received
    call      \* "idle", "open", "finished" (all of it) or "cut"

deliveryVars == <<written, sealed, asked, got, call>>

Init ==
    /\ written = 0 /\ sealed = FALSE
    /\ asked = 0 /\ got = <<>> /\ call = "idle"

\* The event the caller is to get next.
Due == (IF asked = 0 THEN 1 ELSE asked) + Len(got)

Write ==
    /\ ~sealed
    /\ written' = written + 1 /\ sealed' \in BOOLEAN
    /\ UNCHANGED <<asked, got, call>>

Subscribe ==
    /\ call = "idle"
    /\ asked' \in Nat /\ call' \in {"open", "cut"}
    /\ UNCHANGED <<written, sealed, got>>

Deliver ==
    /\ call = "open" /\ Due <= written
    /\ got' = Append(got, Due)
    /\ UNCHANGED <<written, sealed, asked, call>>

Finish ==
    /\ call = "open" /\ sealed /\ Due > written
    /\ call' = "finished"
    /\ UNCHANGED <<written, sealed, asked, got>>

\* The call ends early: the caller left, fell behind or was refused.
BreakOff ==
    /\ call = "open" /\ call' = "cut"
    /\ UNCHANGED <<written, sealed, asked, got>>

Next == Write \/ Subscribe \/ Deliver \/ Finish \/ BreakOff

Spec == Init /\ [][Next]_deliveryVars
=============================================================================
