------------------------------- MODULE LogPane -------------------------------
(***************************************************************************)
(* The terminal UI's view of one step's log: a ring of lines filled by     *)
(* range requests that run on goroutines of their own, forward on ticks    *)
(* and backward on pgup, while another goroutine folds the run's events,   *)
(* retries included, into the state the requests were computed from.       *)
(***************************************************************************)
EXTENDS Naturals, Sequences

CONSTANTS
  LogCap,       \* logRing.cap, in lines
  Chunk,        \* scrollbackChunkSize and maxLogFetch, in lines
  LogLines,     \* bound on an attempt's output
  PaneAttempts   \* bound on the step's attempts

ASSUME PaneAssumption == {LogCap, LogLines, PaneAttempts} \subseteq Nat \ {0} /\ Chunk \in Nat \ {0, 1}

VARIABLES
  logLen,     \* the attempts' log files: how long each one is
  runsAt,     \* the attempt the engine is at
  foldAt, mark, \* the fold's StepState: Attempt, LogBytes
  focused,
  ring, ringEnd, \* logRing: its lines, as <<attempt, number>>, and endOffset
  logOffset,
  have, older, \* an offset read under mu for a request that is not issued yet, or NoRead
  tailReq, histReq, \* the requests in flight: "none", issued or answered
  quitting

paneVars == <<logLen, runsAt, foldAt, mark, focused, ring, ringEnd, logOffset, have, older, tailReq, histReq, quitting>>
engineVars == <<logLen, runsAt>>
foldVars == <<foldAt, mark>>
ringVars == <<ring, ringEnd, logOffset>>

NoFetch == [at |-> "none", from |-> 0, to |-> 0, att |-> 0]
NoRead == LogLines + 1

PaneInit ==
  /\ logLen = [a \in 1..PaneAttempts |-> 0] /\ runsAt = 1
  /\ foldAt \in {0, 1} /\ mark = 0 /\ focused = FALSE
  /\ ring = <<>> /\ ringEnd = 0 /\ logOffset = 0 /\ have = NoRead /\ older = NoRead
  /\ tailReq = NoFetch /\ histReq = NoFetch /\ quitting = FALSE

\* Update runs one message at a time: between two halves of one only the other
\* goroutines move.
BetweenMessages == have = NoRead /\ older = NoRead

\* logRing.StartOffset.
StartOffset == ringEnd - Len(ring)

-----------------------------------------------------------------------------
(* The engine and its events.                                              *)

logLine ==
  /\ logLen[runsAt] < LogLines /\ logLen' = [logLen EXCEPT ![runsAt] = @ + 1]
  /\ UNCHANGED <<runsAt, foldVars, focused, ringVars, have, older, tailReq, histReq, quitting>>
RetryStep ==
  /\ runsAt < PaneAttempts /\ runsAt' = runsAt + 1
  /\ UNCHANGED <<logLen, foldVars, focused, ringVars, have, older, tailReq, histReq, quitting>>

\* applyEvent, on the goroutine that drains the subscription: a marker, or
\* step.retried, which also deletes the step's ring and offset.
KeepRing ==
  /\ ~quitting
  /\ \/ foldAt = 0 /\ foldAt' = 1 /\ UNCHANGED mark
     \/ foldAt > 0 /\ \E n \in mark + 1..logLen[foldAt] : mark' = n /\ UNCHANGED foldAt
     \/ foldAt \in 1..runsAt - 1 /\ foldAt' = foldAt + 1 /\ mark' = 0
  /\ UNCHANGED <<engineVars, focused, ringVars, have, older, tailReq, histReq, quitting>>

applyEvent ==
  /\ ~quitting
  /\ \/ foldAt = 0 /\ foldAt' = 1 /\ UNCHANGED <<mark, ringVars>>
     \/ foldAt > 0 /\ \E n \in mark + 1..logLen[foldAt] : mark' = n /\ UNCHANGED <<foldAt, ringVars>>
     \/ /\ foldAt \in 1..runsAt - 1 /\ foldAt' = foldAt + 1 /\ mark' = 0
        /\ ring' = <<>> /\ ringEnd' = 0 /\ logOffset' = 0
  /\ UNCHANGED <<engineVars, focused, have, older, tailReq, histReq, quitting>>

-----------------------------------------------------------------------------
(* The forward fetch.                                                      *)

\* focusCursor reads the offset, and so does a tick that finds the watermark
\* ahead of it; both release mu before the request is put together.
focusCursor ==
  /\ ~quitting /\ BetweenMessages /\ focused' = TRUE /\ have' = logOffset
  /\ UNCHANGED <<engineVars, foldVars, ringVars, older, tailReq, histReq, quitting>>
handleTick ==
  /\ ~quitting /\ BetweenMessages /\ focused /\ mark > logOffset /\ have' = logOffset
  /\ UNCHANGED <<engineVars, foldVars, focused, ringVars, older, tailReq, histReq, quitting>>

\* fetchLogsCmd: beginFetch claims the slot, the attempt is read anew.
fetchLogsCmd ==
  /\ have # NoRead /\ have' = NoRead
  /\ IF tailReq.at # "none" THEN UNCHANGED tailReq
     ELSE tailReq' = [at |-> "issued", from |-> have, to |-> have, att |-> foldAt]
  /\ UNCHANGED <<engineVars, foldVars, focused, ringVars, older, histReq, quitting>>

\* Source.Logs answers with what the file holds by now, or fails.
fileLen(a) == IF a = 0 THEN 0 ELSE logLen[a]
serveTail ==
  /\ tailReq.at = "issued"
  /\ LET n == fileLen(tailReq.att) IN
     \/ tailReq' = [tailReq EXCEPT !.at = "data", !.to = IF n <= @ THEN @ ELSE IF n < @ + Chunk THEN n ELSE @ + Chunk]
     \/ tailReq' = [tailReq EXCEPT !.at = "error"]
  /\ UNCHANGED <<engineVars, foldVars, focused, ringVars, have, older, histReq, quitting>>

Lines(q) == [i \in 1..q.to - q.from |-> <<q.att, q.from + i>>]
Trim(s) == IF Len(s) > LogCap THEN SubSeq(s, Len(s) - LogCap + 1, Len(s)) ELSE s
Appended(q) == /\ logOffset' = q.to
               /\ IF q.to = q.from THEN UNCHANGED <<ring, ringEnd>>
                  ELSE ring' = Trim(ring \o Lines(q)) /\ ringEnd' = q.to

\* Mutant: whatever arrives is applied.
ApplyChunk ==
  /\ BetweenMessages /\ tailReq.at \in {"data", "error"} /\ tailReq' = NoFetch
  /\ IF tailReq.at = "error" THEN UNCHANGED ringVars ELSE Appended(tailReq)
  /\ UNCHANGED <<engineVars, foldVars, focused, have, older, histReq, quitting>>

\* endFetch on every path; a chunk of another attempt is dropped.
handleLogChunk ==
  /\ BetweenMessages /\ tailReq.at \in {"data", "error"} /\ tailReq' = NoFetch
  /\ IF tailReq.at = "error" \/ tailReq.att # foldAt \/ foldAt = 0 THEN UNCHANGED ringVars ELSE Appended(tailReq)
  /\ UNCHANGED <<engineVars, foldVars, focused, have, older, histReq, quitting>>

-----------------------------------------------------------------------------
(* Scrollback.                                                             *)

\* loadOlderLogsCmd: a chunk that ends where the ring begins; the attempt is
\* read after mu was released.
pgup ==
  /\ ~quitting /\ BetweenMessages /\ focused /\ StartOffset > 0 /\ older' = StartOffset
  /\ UNCHANGED <<engineVars, foldVars, focused, ringVars, have, tailReq, histReq, quitting>>
loadOlderLogsCmd ==
  /\ older # NoRead /\ older' = NoRead
  /\ IF histReq.at # "none" THEN UNCHANGED histReq
     ELSE histReq' = [at |-> "issued", from |-> IF older > Chunk THEN older - Chunk ELSE 0, to |-> older, att |-> foldAt]
  /\ UNCHANGED <<engineVars, foldVars, focused, ringVars, have, tailReq, quitting>>
serveHistory ==
  /\ histReq.at = "issued"
  /\ \/ histReq' = [histReq EXCEPT !.at = "data"]
     \/ histReq' = [histReq EXCEPT !.at = "error"]
  /\ UNCHANGED <<engineVars, foldVars, focused, ringVars, have, older, tailReq, quitting>>

\* Prepend: the leading fragment of a chunk that is not at the file's start is
\* dropped when a line break follows it, and kept as a raw line otherwise.
Prepended(q) == \E drop \in (IF q.from = 0 THEN {0} ELSE {0, 1}) :
                  ring' = SubSeq(Lines(q), drop + 1, q.to - q.from) \o ring

\* Mutant: the boundary the request was computed for is not compared.
PrependAnyway ==
  /\ BetweenMessages /\ histReq.at \in {"data", "error"} /\ histReq' = NoFetch
  /\ IF histReq.at = "error" \/ histReq.att # foldAt \/ ring = <<>> THEN UNCHANGED ring ELSE Prepended(histReq)
  /\ UNCHANGED <<engineVars, foldVars, focused, ringEnd, logOffset, have, older, tailReq, quitting>>

handleLogHistory ==
  /\ BetweenMessages /\ histReq.at \in {"data", "error"} /\ histReq' = NoFetch
  /\ IF histReq.at = "error" \/ histReq.att # foldAt \/ ring = <<>> \/ StartOffset # histReq.to
     THEN UNCHANGED ring ELSE Prepended(histReq)
  /\ UNCHANGED <<engineVars, foldVars, focused, ringEnd, logOffset, have, older, tailReq, quitting>>

quit ==
  /\ ~quitting /\ BetweenMessages /\ quitting' = TRUE
  /\ UNCHANGED <<engineVars, foldVars, focused, ringVars, have, older, tailReq, histReq>>

PaneNext ==
  \/ logLine \/ RetryStep \/ applyEvent \/ focusCursor \/ handleTick \/ fetchLogsCmd \/ serveTail \/ handleLogChunk
  \/ pgup \/ loadOlderLogsCmd \/ serveHistory \/ handleLogHistory \/ quit
PaneSpec == PaneInit /\ [][PaneNext]_paneVars

-----------------------------------------------------------------------------
(* What must hold.                                                         *)

\* Whatever the order in which chunks, scrollback, retries and trims arrive,
\* the pane shows a stretch of the current attempt's own log: no line of a
\* dead attempt, none twice, none missing in between, and none after the
\* offset that the next request starts from.
PaneIsTheLog ==
  /\ \A i \in DOMAIN ring : ring[i] = <<foldAt, StartOffset + i>>
  /\ ring # <<>> => ringEnd = logOffset /\ ringEnd <= logLen[foldAt]

\* "the next focus or follow starts a clean fetch of the NEW file": the offset
\* never lies past the end of the attempt's log.
RetryStartsClean == foldAt > 0 => logOffset <= logLen[foldAt]
=============================================================================
