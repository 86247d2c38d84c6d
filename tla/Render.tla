------------------------------- MODULE Render -------------------------------
(***************************************************************************)
(* The line renderer, as a client of one step's events: a snapshot, then   *)
(* the events after it folded into its own RunState, and the log bytes the *)
(* markers announce, fetched through the same source and printed in lines. *)
(* The engine's own record of the step is kept beside the fold.            *)
(***************************************************************************)
EXTENDS Naturals, SequencesExt

CONSTANTS
  MaxBytes,    \* bound on one attempt's output; every second byte ends a line
  RenderAttempts, \* bound on attempts
  MaxEvents,   \* bound on the ledger
  Verdicts     \* the verdicts a test may report

VARIABLES
  ledger,    \* the events, in order
  truth,     \* the engine's own record of the step and the run
  verdicts,  \* the verdicts its one test has reported, by attempt
  st,        \* the renderer's fold of the same
  seq,       \* RunState.Seq
  plain,     \* the renderer: "start", "live", "ended"
  joined,    \* the attempt its snapshot showed
  told,      \* how much had been printed when the snapshot was told
  waiting,   \* logPrinter.waiting: 0, or an attempt's high-water mark
  offset, partial, warned, \* logCursor
  printed    \* what was printed: bytes <<attempt, place>>, lines about the step <<0, ...>>

ledgerVars == <<ledger, truth, verdicts>>
logVars == <<waiting, offset, partial, warned>>
plainVars == <<st, seq, plain, joined, told, logVars, printed>>
renderVars == <<ledgerVars, plainVars>>

Attempts == 1..RenderAttempts
NoTest == [outcome |-> "", attempt |-> 0]
NewRunState == [state |-> "", started |-> FALSE, attempt |-> 0, paused |-> FALSE, held |-> FALSE,
                bytes |-> 0, service |-> FALSE, test |-> NoTest, runPaused |-> FALSE, done |-> FALSE]

RenderInit ==
  /\ ledger = <<>> /\ truth = NewRunState /\ verdicts = [a \in Attempts |-> {}]
  /\ st = NewRunState /\ seq = 0 /\ plain = "start" /\ joined = 0 /\ told = 0
  /\ waiting = [a \in Attempts |-> 0] /\ offset = [a \in Attempts |-> 0]
  /\ partial = [a \in Attempts |-> <<>>] /\ warned = [a \in Attempts |-> FALSE] /\ printed = <<>>

-----------------------------------------------------------------------------
(* RunState.Apply, for the fields that follow a step through its life.     *)

Ev(t, a, x) == [type |-> t, attempt |-> a, x |-> x]
RunningStep(s) == s.started /\ s.state = ""
Ready(s) == s.service /\ s.state = ""

StepStarted(s) == [s EXCEPT !.started = TRUE, !.state = "", !.paused = FALSE, !.held = FALSE]
StepFinished(s, e) == [s EXCEPT !.state = e.x, !.paused = FALSE, !.held = FALSE]

\* Mutant: a retried step keeps the log bytes of the attempt before.
RetriedKeepsBytes(s, e) == [NewRunState EXCEPT !.attempt = e.attempt, !.test = s.test, !.runPaused = s.runPaused, !.bytes = s.bytes]

\* The tests stay: recovery is judged against the attempt before.
StepRetried(s, e) == [NewRunState EXCEPT !.attempt = e.attempt, !.test = s.test, !.runPaused = s.runPaused]

\* The worst verdict of an attempt stands; a pass after an earlier attempt's
\* failure is a recovery, and stays one.
TestFinished(s, e) ==
  LET had == s.test
      kept == had.attempt = e.attempt /\ had.outcome = "failed" /\ e.x # "failed"
      recovered == /\ e.x = "passed"
                   /\ had.outcome = "recovered" \/ (had.outcome = "failed" /\ e.attempt > had.attempt)
  IN IF kept THEN s ELSE [s EXCEPT !.test = [outcome |-> IF recovered THEN "recovered" ELSE e.x, attempt |-> e.attempt]]

StepLogAppended(s, e) == [s EXCEPT !.bytes = IF e.x > @ THEN e.x ELSE @]
BreakpointHit(s, e) == [s EXCEPT !.paused = TRUE, !.held = (e.x = "failure")]

\* A clear that let go of an armed breakpoint leaves a failure hold alone.
ControlApplied(s, e) ==
  CASE e.x = "pause"  -> [s EXCEPT !.runPaused = TRUE]
    [] e.x = "resume" -> [s EXCEPT !.runPaused = FALSE]
    [] e.x \in {"breakpoint", "hold"} -> IF e.x = "breakpoint" /\ s.held THEN s ELSE [s EXCEPT !.paused = FALSE, !.held = FALSE]

RunFinished(s) == [s EXCEPT !.done = TRUE, !.runPaused = FALSE]

\* Whatever the event, its attempt is the step's if it is a later one.
Apply(s, e) ==
  LET t == CASE e.type = "started"  -> StepStarted(s)
             [] e.type = "finished" -> StepFinished(s, e)
             [] e.type = "retried"  -> StepRetried(s, e)
             [] e.type = "test"     -> TestFinished(s, e)
             [] e.type = "log"      -> StepLogAppended(s, e)
             [] e.type = "ready"    -> [s EXCEPT !.service = TRUE]
             [] e.type = "hit"      -> BreakpointHit(s, e)
             [] e.type = "control"  -> ControlApplied(s, e)
             [] e.type = "over"     -> RunFinished(s)
  IN IF e.attempt > t.attempt THEN [t EXCEPT !.attempt = e.attempt] ELSE t

-----------------------------------------------------------------------------
(* The engine: what happens to the step, and the event that says so.       *)

Emits(e, t) == Len(ledger) < MaxEvents /\ ledger' = Append(ledger, e) /\ truth' = t /\ UNCHANGED plainVars
Now == IF truth.attempt = 0 THEN 1 ELSE truth.attempt

Starts ==
  /\ ~truth.done /\ ~truth.started /\ ~truth.paused /\ ~truth.runPaused
  /\ Emits(Ev("started", Now, ""), [truth EXCEPT !.started = TRUE, !.attempt = Now]) /\ UNCHANGED verdicts
Logs ==
  /\ RunningStep(truth) /\ ~truth.held /\ truth.bytes < MaxBytes
  /\ Emits(Ev("log", Now, truth.bytes + 1), [truth EXCEPT !.bytes = @ + 1]) /\ UNCHANGED verdicts
Tests ==
  /\ RunningStep(truth) /\ ~truth.held
  /\ \E v \in Verdicts : Emits(Ev("test", Now, v), truth) /\ verdicts' = [verdicts EXCEPT ![Now] = @ \union {v}]
BecomesReady ==
  /\ RunningStep(truth) /\ ~truth.service /\ Emits(Ev("ready", Now, ""), [truth EXCEPT !.service = TRUE]) /\ UNCHANGED verdicts
\* A failure hold keeps the running attempt; a breakpoint keeps the step from starting.
Pauses ==
  /\ ~truth.done /\ ~truth.paused /\ UNCHANGED verdicts
  /\ \/ RunningStep(truth) /\ Emits(Ev("hit", Now, "failure"), [truth EXCEPT !.paused = TRUE, !.held = TRUE])
     \/ ~truth.started /\ truth.state = "" /\ Emits(Ev("hit", 0, ""), [truth EXCEPT !.paused = TRUE])
\* Released says which of the two was let go of; an armed breakpoint of a held
\* step may be cleared first, and the step stays held.
Clears ==
  /\ truth.paused /\ UNCHANGED verdicts
  /\ \/ Emits(Ev("control", 0, IF truth.held THEN "hold" ELSE "breakpoint"), [truth EXCEPT !.paused = FALSE, !.held = FALSE])
     \/ truth.held /\ Emits(Ev("control", 0, "breakpoint"), truth)
Finishes ==
  /\ RunningStep(truth) /\ ~truth.held /\ UNCHANGED verdicts
  /\ \E v \in {"succeeded", "failed"} : Emits(Ev("finished", Now, v), [truth EXCEPT !.state = v])
Retries ==
  /\ truth.state = "failed" /\ truth.attempt < RenderAttempts /\ ~truth.done /\ UNCHANGED verdicts
  /\ Emits(Ev("retried", truth.attempt + 1, ""), [NewRunState EXCEPT !.attempt = truth.attempt + 1, !.runPaused = truth.runPaused])
Controls ==
  /\ ~truth.done /\ UNCHANGED verdicts
  /\ Emits(Ev("control", 0, IF truth.runPaused THEN "resume" ELSE "pause"), [truth EXCEPT !.runPaused = ~@])
Ends ==
  /\ truth.state # "" /\ ~truth.done /\ UNCHANGED verdicts
  /\ Emits(Ev("over", 0, ""), [truth EXCEPT !.done = TRUE, !.runPaused = FALSE])

-----------------------------------------------------------------------------
(* Plain.                                                                  *)

Bytes(a, from, to) == [i \in 1..to - from |-> <<a, from + i>>]

\* emit: whole lines are printed, the rest waits for the next bytes.
emit(a, to) ==
  LET buf == partial[a] \o Bytes(a, offset[a], to)
      k == IF buf = <<>> \/ Last(buf)[2] % 2 = 0 THEN Len(buf) ELSE Len(buf) - 1
  IN /\ offset' = [offset EXCEPT ![a] = to]
     /\ partial' = [partial EXCEPT ![a] = SubSeq(buf, k + 1, Len(buf))]
     /\ printed' = printed \o SubSeq(buf, 1, k)

\* fetch: up to the mark; a read that fails part way is warned of once and
\* leaves the cursor after what it read.
fetch(a, upTo) ==
  \/ emit(a, upTo) /\ UNCHANGED warned
  \/ /\ \E to \in offset[a]..upTo - 1 : emit(a, to)
     /\ warned' = [warned EXCEPT ![a] = TRUE]

want(w, a, upTo) == IF a = 0 \/ upTo <= offset[a] THEN w ELSE [w EXCEPT ![a] = IF upTo > @ THEN upTo ELSE @]

unprinted == \E a \in Attempts : waiting[a] > 0
flush ==
  /\ plain # "ended"
  /\ \E a \in Attempts : waiting[a] > 0 /\ waiting' = [waiting EXCEPT ![a] = 0] /\ fetch(a, waiting[a])
  /\ UNCHANGED <<ledgerVars, st, seq, plain, joined, told>>

flushPartials(rest) ==
  /\ printed' = FoldLeft(LAMBDA acc, a : acc \o partial[a], printed, [a \in Attempts |-> a]) \o rest
  /\ partial' = [a \in Attempts |-> <<>>]

printStep(s) ==
  CASE s.held -> <<<<0, "held", s.attempt>>>>
    [] ~s.held /\ s.state # "" -> <<<<0, s.state, s.attempt>>>>
    [] ~s.held /\ s.state = "" /\ s.paused -> <<<<0, "paused", s.attempt>>>>
    [] ~s.held /\ s.state = "" /\ ~s.paused /\ s.started -> <<<<0, "started", s.attempt>>>>
    [] OTHER -> <<>>

\* The snapshot: the log of the attempt it shows, then what became of the step.
Snapshot ==
  /\ plain = "start" /\ plain' = "backlog" /\ seq' = Len(ledger)
  /\ st' = FoldLeft(Apply, NewRunState, ledger)
  /\ joined' = st'.attempt /\ waiting' = want(waiting, st'.attempt, st'.bytes)
  /\ UNCHANGED <<ledgerVars, told, offset, partial, warned, printed>>
PrintSnapshot ==
  /\ plain = "backlog" /\ ~unprinted /\ plain' = "live"
  /\ printed' = printed \o printStep(st) \o (IF st.done THEN <<<<0, "run", 0>>>> ELSE <<>>)
  /\ told' = Len(printed') /\ UNCHANGED <<ledgerVars, st, seq, joined, logVars>>

Lifecycle == {"started", "finished", "retried", "over"}

\* Mutant: what is waiting is fetched after the line about the step.
PrintFirst ==
  /\ plain = "live" /\ seq < Len(ledger)
  /\ LET e == ledger[seq + 1] IN
     /\ st' = Apply(st, e) /\ seq' = seq + 1
     /\ waiting' = IF e.type = "log" THEN want(waiting, e.attempt, e.x) ELSE waiting
     /\ IF e.type \in {"started", "hit"} THEN printed' = printed \o printStep(st') /\ UNCHANGED partial
        ELSE IF e.type \in Lifecycle THEN flushPartials(IF e.type = "over" THEN <<<<0, "run", 0>>>> ELSE printStep(st'))
        ELSE UNCHANGED <<printed, partial>>
  /\ UNCHANGED <<ledgerVars, plain, joined, told, offset, warned>>

\* handle: a marker is only noted; an event of the step's life is told after
\* everything that waits was fetched (flush) and, unless it is a start, the
\* unfinished lines were printed.
handle ==
  /\ plain = "live" /\ seq < Len(ledger)
  /\ LET e == ledger[seq + 1] IN
     /\ e.type \in Lifecycle => ~unprinted
     /\ st' = Apply(st, e) /\ seq' = seq + 1
     /\ waiting' = IF e.type = "log" THEN want(waiting, e.attempt, e.x) ELSE waiting
     /\ IF e.type \in {"started", "hit"} THEN printed' = printed \o printStep(st') /\ UNCHANGED partial
        ELSE IF e.type \in Lifecycle THEN flushPartials(IF e.type = "over" THEN <<<<0, "run", 0>>>> ELSE printStep(st'))
        ELSE UNCHANGED <<printed, partial>>
  /\ UNCHANGED <<ledgerVars, plain, joined, told, offset, warned>>

\* The source closes its channel after the run's last event, or early.
finishStep ==
  /\ plain = "live" /\ ~unprinted /\ plain' = "ended" /\ flushPartials(<<>>)
  /\ UNCHANGED <<ledgerVars, st, seq, joined, told, waiting, offset, warned>>

RenderNext ==
  \/ Starts \/ Logs \/ Tests \/ BecomesReady \/ Pauses \/ Clears \/ Finishes \/ Retries \/ Controls \/ Ends
  \/ Snapshot \/ PrintSnapshot \/ flush \/ handle \/ finishStep
RenderSpec == RenderInit /\ [][RenderNext]_renderVars

-----------------------------------------------------------------------------
(* What the folded test must say of the verdicts the attempts reported.    *)
LastTested == {a \in Attempts : verdicts[a] # {} /\ \A b \in Attempts : b > a => verdicts[b] = {}}
TestTruth ==
  {[outcome |-> IF "failed" \in verdicts[a] THEN "failed"
                ELSE IF \E b \in Attempts : b < a /\ "failed" \in verdicts[b] THEN "recovered" ELSE "passed",
    attempt |-> a] : a \in LastTested}

PrintedOf(a) == SelectSeq(printed, LAMBDA p : p[1] = a)
Places(a) == {i \in DOMAIN printed : printed[i][1] = a}
Logged(a) == {e.x : e \in {ledger[j] : j \in {k \in DOMAIN ledger : ledger[k].type = "log" /\ ledger[k].attempt = a}}}
LineEnds(a) == {b \in Logged(a) : \E c \in Logged(a) : c >= b /\ c % 2 = 0}
Verdict(a) == {i \in DOMAIN printed : printed[i] \in {<<0, "succeeded", a>>, <<0, "failed", a>>}}

\* A client that has folded every event agrees with the engine, however its
\* snapshot cut the stream: the state, the attempt, whether the step runs, is
\* ready, paused or held, the scrollback of this attempt and the test's
\* verdict over all attempts; folding the last event again changes nothing.
\* And the printed log of every attempt the renderer saw is its bytes, once,
\* in order, without a gap, all of them before the line that says how the
\* attempt ended (of a line that has no end yet, only if the renderer saw the
\* attempt end), unless the reader was warned (api/fold.go Apply;
\* internal/render/plain.go handle and logPrinter).
RenderIsTheRun ==
  /\ plain \in {"live", "backlog"} /\ seq = Len(ledger) =>
       /\ [st EXCEPT !.test = NoTest] = truth
       /\ st.test \in TestTruth \/ (TestTruth = {} /\ st.test = NoTest)
       /\ seq > 0 => Apply(st, ledger[seq]) = st
  /\ \A a \in Attempts :
       /\ PrintedOf(a) = Bytes(a, 0, Cardinality(Places(a)))
       /\ a >= joined /\ ~warned[a] => \A i \in Verdict(a) : \A b \in LineEnds(a) \union (IF i > told THEN Logged(a) ELSE {}) :
                                         \E p \in DOMAIN printed : p < i /\ printed[p] = <<a, b>>

\* The line that says how an attempt ended stands below everything it printed,
\* in the snapshot's part of the log too (plain.go 52: "the evidence belongs
\* above the verdict").
EvidenceAboveVerdict ==
  \A a \in Attempts : a >= joined /\ ~warned[a] =>
    \A i \in Verdict(a), b \in Logged(a) : \E p \in DOMAIN printed : p < i /\ printed[p] = <<a, b>>
=============================================================================
