------------------------------ MODULE Scheduler ------------------------------
(***************************************************************************)
(* One run of internal/engine: the control loop of schedule, the goroutine *)
(* of every dispatched step (runStep, its retry loop and its handlers),    *)
(* the control operations an attached client may send while the run is     *)
(* live, the --break-on-failure hold, and the teardown sequence of Run     *)
(* (waitForSchedule, settleAbandoned, runAlways, waitForSettleTimeCleanup, *)
(* emitFinal).  Services and generators are left out: the plan is fixed    *)
(* and every node is an ordinary step.                                     *)
(*                                                                         *)
(* Every critical section of outcomes.mu is one action.  A control handler *)
(* runs on the loop's goroutine and is one action with the events it       *)
(* emits.  The claim of a step.finished (outcomes.settle) and its append   *)
(* to the ledger are two actions, as they are two critical sections.       *)
(***************************************************************************)
EXTENDS Integers, Sequences, FiniteSets

(* The vocabulary of api/state_enum.go: the terminal states a step can     *)
(* reach, which of them count as failures, how a run's status is rolled up *)
(* from them, and the scheduler's two tables over them (engine.go's        *)
(* skipPropagation and satisfiedBy).  A step that is not in a map of       *)
(* terminal states is Pending here.                                        *)

Pending == "pending"

\* The attempt outcomes State.Failed() answers true for.
FailedStates == {"failed", "timed_out", "panicked"}

Satisfying == {"succeeded", "cached", "recovered"}

\* Upstream states a dependent inherits instead of being blamed for.
skipPropagation == {"skipped_condition", "skipped_manual"}

TerminalStates ==
  FailedStates \cup Satisfying \cup skipPropagation
    \cup {"cancelled", "skipped_upstream_failed"}

States == TerminalStates \cup {Pending}

Failed(s) == s \in FailedStates

Terminal(s) == s # Pending

RunStatuses ==
  {"succeeded", "succeeded_with_recovery", "partial", "failed", "cancelled"}

\* Strongest first: cancelled, failed, partial, recovered, clean.
RollUp(ss) ==
  CASE "cancelled" \in ss -> "cancelled"
    [] "cancelled" \notin ss /\ ss \cap FailedStates # {} -> "failed"
    [] ss \cap ({"cancelled"} \cup FailedStates) = {}
         /\ "skipped_upstream_failed" \in ss -> "partial"
    [] ss \cap ({"cancelled", "skipped_upstream_failed"} \cup FailedStates) = {}
         /\ "recovered" \in ss -> "succeeded_with_recovery"
    [] OTHER -> "succeeded"

\* Whether an upstream in terminal state s lets a dependent proceed.
satisfiedBy(s, continueOnError) ==
  \/ s \in Satisfying
  \/ Failed(s) /\ continueOnError

-----------------------------------------------------------------------------
(* The plan and the options of the run.                                    *)

CONSTANTS
  Nodes,            \* the plan's step ids
  Needs,            \* [Nodes -> Seq(Nodes)], in declaration order
  Rank,             \* a topological order, the witness plan.Validate looks for
  ContinueOnError,  \* nodes whose failure does not block their dependents
  Gated,            \* nodes whose When conditions prune them in this run
  Pure,             \* cacheable nodes
  CheckGenerated,   \* nodes that compare their output with the tree
  Mounts,           \* nodes with a capturable workspace
  OnFailure,        \* nodes that declare OnFailure handlers
  Always,           \* nodes that declare Always handlers
  Outcomes,         \* [Nodes -> how an uncancelled attempt may end]
  MaxAttempts,      \* [Nodes -> attempts one execution may use]
  MaxParallel,      \* the run's concurrency limit
  Group,            \* [Nodes -> the group a node belongs to]
  GroupLimit,       \* [the groups that declare MaxParallel -> that limit]
  BreakOnFailure,   \* Options.BreakOnFailure
  Requests,         \* the control requests clients may send
  Budget,           \* how many of them they send (a bound of the model)
  Interruptible     \* whether the run's parent context may be cancelled

AttemptStates == {"succeeded"} \cup FailedStates

NeedSet(n) == {Needs[n][i] : i \in DOMAIN Needs[n]}

ASSUME PlanAssumption ==
  /\ Pending \notin Nodes
  /\ Needs \in [Nodes -> Seq(Nodes)]
  /\ Rank \in [Nodes -> Nat]
  /\ \A n \in Nodes : \A m \in NeedSet(n) : Rank[m] < Rank[n]
  /\ \A s \in {ContinueOnError, Gated, Pure, CheckGenerated, Mounts,
               OnFailure, Always} : s \subseteq Nodes
  /\ Outcomes \in [Nodes -> SUBSET AttemptStates]
  /\ MaxAttempts \in [Nodes -> Nat \ {0}]

ASSUME OptionsAssumption ==
  /\ MaxParallel \in Nat \ {0}
  /\ GroupLimit \in [DOMAIN GroupLimit -> Nat \ {0}]
  /\ BreakOnFailure \in BOOLEAN
  /\ Interruptible \in BOOLEAN
  /\ Budget \in Nat

Ops == {"run.cancel", "run.pause", "run.resume", "step.retry", "step.skip",
        "breakpoint.set", "breakpoint.clear", "run.rerun_from", "ws.snapshot"}

ASSUME RequestsAssumption == Requests \subseteq [op : Ops, step : Nodes]

NoRequest == [op |-> "none"]

VARIABLES
  ctxDone,         \* the run's context is done
  \* outcomes, guarded by outcomes.mu
  states, finished, running, alwaysRun, alwaysInFlight, attempts,
  handlerAnchors,  \* the attempt of a handler pass not superseded, 0 if none
  \* the loop of schedule
  loop, ready, settled, emitting, held, verdict, watchCtx,
  breakpoints, paused, wake,
  \* the control channel
  request, sent,
  \* the step goroutines, by node
  pc, task, attempt, last, recovered, outcome, wg,
  holds,           \* steps held by --break-on-failure
  \* the semaphores
  sem, groupSem, holding,
  lingering,       \* retry goroutines past their last write, slot not back yet
  \* Run's teardown
  teardown, todo, result, pendingAlways, runningAlways, budgetSpent,
  cleanupLost,
  \* what the event stream and the handlers say so far, by node
  finishes,        \* step.finished events of the current execution
  reported,        \* the state the last of them carries
  started,         \* the attempt the last step.started announced
  superseded,      \* handler.superseded events
  cleanups,        \* Always passes started in the current execution
  handled          \* attempts some handler pass ran against

ocVars == <<states, finished, running, alwaysRun, alwaysInFlight, attempts,
            handlerAnchors>>
passVars == <<ready, settled, emitting, held, verdict, watchCtx>>
loopVars == <<loop, passVars, breakpoints, paused>>
controlVars == <<request, sent>>
localVars == <<attempt, last, recovered, outcome>>
goVars == <<pc, task, localVars, wg, holds>>
semVars == <<sem, groupSem, holding, lingering>>
teardownVars == <<teardown, todo, result, pendingAlways, runningAlways,
                  budgetSpent, cleanupLost>>
ledger == <<finishes, reported, started, superseded>>
logVars == <<ledger, cleanups, handled>>
vars == <<ctxDone, ocVars, loopVars, wake, controlVars, goVars, semVars,
          teardownVars, logVars>>

sealed == teardown = "sealed"

-----------------------------------------------------------------------------
(* Mutants: one-line bugs in the rules below, each caught by a property.   *)

AnyoneMayReport(n) == TRUE
CleanAgain(n) == TRUE
CleanOnlyWhatRan(n) == n \notin alwaysRun /\ attempts[n] > 0
DropSignal == UNCHANGED wake
ReleaseTwice(n) == TRUE
OneSlotTooMany(n) == sem <= MaxParallel /\ sem' = sem + 1 /\ holding' = holding \cup {n}
StuckAtBreakpoint(idle, stopped) == idle /\ running = {} /\ ~paused
WatchOnlyBreakpoints(stopped) == stopped # {}
ForgetAttempt(n) == UNCHANGED attempts
KeepAnchors(S) == UNCHANGED handlerAnchors
KeepClaims(S) == UNCHANGED finished
RerunUnderDependents(n) == n \notin running /\ states[n] # Pending
ClaimRunning(n) == states[n] = Pending /\ finished[n] = Pending
RefuseUntilReturn == loop \in {"leaving", "stuck"}
WaitForSteps == ctxDone /\ running = {}
SealAnyway == TRUE

-----------------------------------------------------------------------------
(* The ledger, folded per node.  An execution ends, and finishes starts    *)
(* over, when the node is unsettled.  emit drops everything once the       *)
(* stream is sealed.                                                       *)

\* rc.append with a step.finished of n in state s.
AppendFinished(n, s) ==
  /\ finishes' = IF sealed THEN finishes ELSE [finishes EXCEPT ![n] = @ + 1]
  /\ reported' = IF sealed THEN reported ELSE [reported EXCEPT ![n] = s]
  /\ UNCHANGED <<started, superseded>>

\* outcomes.settle: whoever finds no outcome recorded gets to report one.
Unclaimed(n) == finished[n] = Pending

\* outcomes.claim.
Uncleaned(n) == n \notin alwaysRun

\* signal: the wake channel holds one token, a second send is dropped.
Signal == wake' = TRUE

-----------------------------------------------------------------------------
(* readySet.  The needs are scanned in declaration order and the first one *)
(* that does not let the node through decides.                             *)

LetsThrough(m) == states[m] # Pending /\ satisfiedBy(states[m], m \in ContinueOnError)

Unclassified == {n \in Nodes : states[n] = Pending /\ n \notin running}

Obstacles(n) == {i \in DOMAIN Needs[n] : ~LetsThrough(Needs[n][i])}

Through(n) == Obstacles(n) = {}

\* The need that stopped the scan.
Obstacle(n) ==
  Needs[n][CHOOSE i \in Obstacles(n) : \A j \in Obstacles(n) : i <= j]

\* A mutant: the need's name in place of its state.
BlameByName(n) == IF ctxDone THEN "cancelled"
                  ELSE IF Through(n) THEN Pending ELSE Obstacle(n)

\* The state readySet settles n in; Pending when it settles nothing.
SettledAs(n) ==
  IF ctxDone THEN "cancelled"
  ELSE IF Through(n)
    THEN IF n \in Gated THEN "skipped_condition" ELSE Pending
    ELSE LET s == states[Obstacle(n)]
         IN  IF s = Pending \/ s \in skipPropagation
               THEN s ELSE "skipped_upstream_failed"

Dispatchable == {n \in Unclassified : ~ctxDone /\ Through(n) /\ n \notin Gated}

-----------------------------------------------------------------------------
Init ==
  /\ ctxDone = FALSE
  /\ states = [n \in Nodes |-> Pending]
  /\ finished = [n \in Nodes |-> Pending]
  /\ running = {} /\ alwaysRun = {} /\ alwaysInFlight = 0
  /\ attempts = [n \in Nodes |-> 0]
  /\ handlerAnchors = [n \in Nodes |-> 0]
  /\ loop = "pass" /\ ready = {} /\ settled = {} /\ emitting = Pending
  /\ held = {} /\ verdict = "go" /\ watchCtx = FALSE
  /\ breakpoints = [n \in Nodes |-> "none"]
  /\ paused = FALSE /\ wake = FALSE
  /\ request = NoRequest /\ sent = 0
  /\ pc = [n \in Nodes |-> "idle"]
  /\ task = [n \in Nodes |-> "none"]
  /\ attempt = [n \in Nodes |-> 0]
  /\ last = [n \in Nodes |-> 0]
  /\ recovered = {}
  /\ outcome = [n \in Nodes |-> Pending]
  /\ wg = [n \in Nodes |-> 0]
  /\ holds = {}
  /\ sem = 0
  /\ groupSem = [g \in DOMAIN GroupLimit |-> 0]
  /\ holding = {} /\ lingering = 0
  /\ teardown = "waiting" /\ todo = {}
  /\ result = [n \in Nodes |-> Pending]
  /\ pendingAlways = {} /\ runningAlways = {}
  /\ budgetSpent = FALSE /\ cleanupLost = FALSE
  /\ finishes = [n \in Nodes |-> 0]
  /\ reported = [n \in Nodes |-> Pending]
  /\ started = [n \in Nodes |-> 0]
  /\ superseded = [n \in Nodes |-> 0]
  /\ cleanups = [n \in Nodes |-> 0]
  /\ handled = [n \in Nodes |-> {}]

-----------------------------------------------------------------------------
(* The loop of schedule.                                                   *)

\* Nothing can ever happen again, as opposed to "until a client says so".
Stuck(idle, stopped) == idle /\ running = {} /\ stopped = {} /\ ~paused

\* An idle pass no step goroutine need wake: it watches the context itself.
Watches(stopped) == stopped # {} \/ (paused /\ ~ctxDone)

\* The critical section at the top of a pass: classify, mark what is about
\* to be dispatched running, record what readySet settled, and derive done,
\* stuck and idle from the same snapshot.
Pass ==
  LET open    == Unclassified
      settles == {n \in open : SettledAs(n) # Pending}
      stopped == {n \in Dispatchable : breakpoints[n] # "none"}
      go      == IF paused THEN {} ELSE Dispatchable \ stopped
      after   == [n \in Nodes |-> IF n \in settles THEN SettledAs(n) ELSE states[n]]
      idle    == go = {} /\ settles = {}
  IN
  /\ loop = "pass"
  /\ states' = after
  /\ running' = running \cup go
  /\ ready' = go /\ settled' = settles /\ held' = stopped
  /\ verdict' = IF \A n \in Nodes : after[n] # Pending THEN "done"
                ELSE IF Stuck(idle, stopped) THEN "stuck"
                ELSE IF idle THEN "idle" ELSE "go"
  /\ watchCtx' = Watches(stopped)
  /\ loop' = "emit"
  /\ UNCHANGED <<ctxDone, finished, alwaysRun, alwaysInFlight, attempts,
                 handlerAnchors, emitting, breakpoints, paused, wake,
                 controlVars, goVars, semVars, teardownVars, logVars>>

\* emitStepFinished for one node this pass settled: the claim, then (if it
\* was won) the append.
ClaimSettled(n) ==
  /\ loop = "emit" /\ emitting = Pending
  /\ n \in settled
  /\ settled' = settled \ {n}
  /\ IF Unclaimed(n)
       THEN finished' = [finished EXCEPT ![n] = states[n]] /\ emitting' = n
       ELSE UNCHANGED <<finished, emitting>>
  /\ UNCHANGED <<ctxDone, states, running, alwaysRun, alwaysInFlight, attempts,
                 handlerAnchors, loop, ready, held, verdict, watchCtx,
                 breakpoints, paused, wake, controlVars, goVars, semVars,
                 teardownVars, logVars>>

AppendSettled ==
  /\ loop = "emit" /\ emitting # Pending
  /\ AppendFinished(emitting, states[emitting])
  /\ emitting' = Pending
  /\ UNCHANGED <<ctxDone, ocVars, loop, ready, settled, held, verdict, watchCtx,
                 breakpoints, paused, wake, controlVars, goVars, semVars,
                 teardownVars, cleanups, handled>>

\* announceBreakpoints, then the branch the pass decided on.
Branch ==
  /\ loop = "emit" /\ emitting = Pending /\ settled = {}
  /\ breakpoints' = [n \in Nodes |-> IF n \in held THEN "hit" ELSE breakpoints[n]]
  /\ held' = {}
  /\ loop' = CASE verdict = "done" -> "leaving"
               [] verdict = "stuck" -> "stuck"
               [] verdict = "idle" -> "idle"
               [] verdict = "go" -> "poll"
  /\ UNCHANGED <<ctxDone, ocVars, ready, settled, emitting, verdict, watchCtx,
                 paused, wake, controlVars, goVars, semVars, teardownVars, logVars>>

\* The idle select: a step reported back, or the run's context is done and
\* this pass watches for it.  (Its third case, a control request, is Serve.)
Wake ==
  /\ loop = "idle"
  /\ \/ wake /\ wake' = FALSE
     \/ watchCtx /\ ctxDone /\ UNCHANGED wake
  /\ loop' = "pass"
  /\ UNCHANGED <<ctxDone, ocVars, passVars, breakpoints, paused, controlVars,
                 goVars, semVars, teardownVars, logVars>>

\* The non-blocking read before the dispatch, with nothing to read.
PollNothing ==
  /\ loop = "poll" /\ request = NoRequest
  /\ loop' = "dispatch"
  /\ UNCHANGED <<ctxDone, ocVars, passVars, breakpoints, paused, wake,
                 controlVars, goVars, semVars, teardownVars, logVars>>

\* Only a group that declares a limit has a semaphore.
Limited(n) == Group[n] \in DOMAIN GroupLimit

\* The dispatch loop: one goroutine for every ready node.
Dispatch ==
  /\ loop = "dispatch"
  /\ pc' = [n \in Nodes |-> IF n \in ready
                              THEN IF Limited(n) THEN "group" ELSE "slot"
                              ELSE pc[n]]
  /\ task' = [n \in Nodes |-> IF n \in ready THEN "step" ELSE task[n]]
  /\ wg' = [n \in Nodes |-> IF n \in ready THEN wg[n] + 1 ELSE wg[n]]
  /\ ready' = {}
  /\ loop' = "pass"
  /\ UNCHANGED <<ctxDone, ocVars, settled, emitting, held, verdict, watchCtx,
                 breakpoints, paused, wake, controlVars, localVars, holds,
                 semVars, teardownVars, logVars>>

\* wg.Wait after the loop, on both of its exits.
Quiescent == lingering = 0 /\ \A n \in Nodes : wg[n] = 0

Return ==
  /\ loop \in {"leaving", "stuck"} /\ Quiescent
  /\ loop' = IF loop = "leaving" THEN "returned" ELSE "failed"
  /\ UNCHANGED <<ctxDone, ocVars, passVars, breakpoints, paused, wake,
                 controlVars, goVars, semVars, teardownVars, logVars>>

LoopNext ==
  \/ Pass
  \/ \E n \in Nodes : ClaimSettled(n)
  \/ AppendSettled
  \/ Branch
  \/ Wake
  \/ PollNothing
  \/ Dispatch
  \/ Return

-----------------------------------------------------------------------------
(* The goroutine of a step.  goto moves it; the frame of the actions that  *)
(* touch nothing but the goroutine's own locals is OwnStep.                *)

goto(n, where) == pc' = [pc EXCEPT ![n] = where]

GoFrame == UNCHANGED <<loopVars, controlVars, teardownVars>>

HasSlot(n) == n \in holding

TakeSlot(n) ==
  /\ sem < MaxParallel
  /\ sem' = sem + 1
  /\ holding' = holding \cup {n}

\* release: the global slot first, then the group's.
Release(n) ==
  IF HasSlot(n)
    THEN /\ sem' = sem - 1
         /\ holding' = holding \ {n}
         /\ groupSem' = IF Limited(n) /\ task[n] = "step"
                          THEN [groupSem EXCEPT ![Group[n]] = @ - 1] ELSE groupSem
    ELSE UNCHANGED <<sem, holding, groupSem>>

\* permits: the group's semaphore is taken before the global one.
EnterGroup(n) ==
  /\ pc[n] \in {"group", "regroup"}
  /\ groupSem[Group[n]] < GroupLimit[Group[n]]
  /\ groupSem' = [groupSem EXCEPT ![Group[n]] = @ + 1]
  /\ goto(n, IF pc[n] = "group" THEN "slot" ELSE "reslot")
  /\ GoFrame
  /\ UNCHANGED <<ctxDone, ocVars, wake, task, localVars, wg, holds, sem,
                 holding, lingering, logVars>>

BeginAttempt(n) ==
  /\ started' = IF sealed THEN started ELSE [started EXCEPT ![n] = attempt'[n]]
  /\ UNCHANGED <<finishes, reported, superseded>>

\* The first acquire of a dispatched step waits on context.Background().
\* The node was marked running before; what becomes of it is decided by the
\* context now: cancelled without a step.started, or runStep.
StartStep(n) ==
  /\ pc[n] = "slot" /\ task[n] = "step"
  /\ TakeSlot(n)
  /\ IF ctxDone
       THEN /\ outcome' = [outcome EXCEPT ![n] = "cancelled"]
            /\ attempt' = [attempt EXCEPT ![n] = attempts[n]]
            /\ goto(n, "conclude")
            /\ UNCHANGED <<last, ledger>>
       ELSE /\ attempt' = [attempt EXCEPT ![n] = attempts[n] + 1]
            /\ last' = [last EXCEPT ![n] = attempts[n] + MaxAttempts[n]]
            /\ \/ n \notin Pure /\ goto(n, "attempt") /\ BeginAttempt(n)
                  /\ UNCHANGED outcome
               \/ n \in Pure /\ goto(n, "lookup") /\ UNCHANGED <<outcome, ledger>>
  /\ recovered' = recovered \ {n}
  /\ GoFrame
  /\ UNCHANGED <<ctxDone, ocVars, wake, task, wg, holds, groupSem, lingering,
                 cleanups, handled>>

\* cacheLookup: a key that cannot be built, an entry that is served, or a
\* miss (an entry that cannot be reproduced included).
CacheLookup(n) ==
  /\ pc[n] = "lookup"
  /\ \/ \E s \in {"failed", "cached"} :
          /\ outcome' = [outcome EXCEPT ![n] = s]
          /\ goto(n, "conclude")
          /\ UNCHANGED <<attempt, ledger>>
     \/ /\ goto(n, "attempt")
        /\ attempt' = attempt /\ BeginAttempt(n)
        /\ UNCHANGED outcome
  /\ GoFrame
  /\ UNCHANGED <<ctxDone, ocVars, wake, task, last, recovered, wg, holds,
                 semVars, cleanups, handled>>

\* runAttempt returns.  Under a done context it is cancelled, or failed if
\* the failure is the engine's own (the sandbox, the snapshot); else it is
\* what the command made of it, and --break-on-failure holds a failed one
\* here, with its slot.
EndAttempt(n) ==
  /\ pc[n] = "attempt"
  /\ \E s \in IF ctxDone THEN {"cancelled", "failed"} ELSE Outcomes[n] :
       /\ outcome' = [outcome EXCEPT ![n] = s]
       /\ IF BreakOnFailure /\ s \in {"failed", "timed_out"} /\ ~ctxDone
            THEN holds' = holds \cup {n} /\ goto(n, "held")
            ELSE UNCHANGED holds /\ goto(n, "judge")
  /\ GoFrame
  /\ UNCHANGED <<ctxDone, ocVars, wake, task, attempt, last, recovered, wg,
                 semVars, logVars>>

\* holds.hold returns: released by breakpoint.clear, or the run is over.
EndHold(n) ==
  /\ pc[n] = "held"
  /\ n \notin holds \/ ctxDone
  /\ holds' = holds \ {n}
  /\ goto(n, "judge")
  /\ GoFrame
  /\ UNCHANGED <<ctxDone, ocVars, wake, task, localVars, wg, semVars, logVars>>

\* The retry loop weighs a finished attempt.  A predicate that matches is a
\* choice of the environment; timeouts and panics are never retried.
Retryable(n) == outcome[n] = "failed" /\ attempt[n] < last[n]

Judge(n) ==
  /\ pc[n] = "judge" /\ task[n] = "step"
  /\ \/ /\ outcome' = [outcome EXCEPT ![n] =
                         IF @ = "succeeded" /\ n \in recovered THEN "recovered" ELSE @]
        /\ goto(n, "finish")
        /\ UNCHANGED <<recovered, sem, holding, groupSem>>
     \/ /\ Retryable(n) /\ ctxDone
        /\ outcome' = [outcome EXCEPT ![n] = "cancelled"]
        /\ goto(n, "finish")
        /\ UNCHANGED <<recovered, sem, holding, groupSem>>
     \/ /\ Retryable(n) /\ ~ctxDone
        /\ recovered' = recovered \cup {n}
        /\ Release(n)
        /\ goto(n, "backoff")
        /\ UNCHANGED outcome
  /\ GoFrame
  /\ UNCHANGED <<ctxDone, ocVars, wake, task, attempt, last, wg, holds,
                 lingering, logVars>>

EndBackoff(n) ==
  /\ pc[n] = "backoff"
  /\ goto(n, IF Limited(n) THEN "regroup" ELSE "reslot")
  /\ GoFrame
  /\ UNCHANGED <<ctxDone, ocVars, wake, task, localVars, wg, holds, semVars, logVars>>

\* The cancellation seen by the backoff's select or by the second acquire,
\* which gives the group's slot back if it already had it.
CancelRetry(n) ==
  /\ pc[n] \in {"backoff", "regroup", "reslot"} /\ ctxDone
  /\ groupSem' = IF pc[n] = "reslot" /\ Limited(n)
                   THEN [groupSem EXCEPT ![Group[n]] = @ - 1] ELSE groupSem
  /\ outcome' = [outcome EXCEPT ![n] = "cancelled"]
  /\ goto(n, "finish")
  /\ GoFrame
  /\ UNCHANGED <<ctxDone, ocVars, wake, task, attempt, last, recovered, wg,
                 holds, sem, holding, lingering, logVars>>

NextAttempt(n) ==
  /\ pc[n] = "reslot"
  /\ TakeSlot(n)
  /\ attempt' = [attempt EXCEPT ![n] = @ + 1]
  /\ BeginAttempt(n)
  /\ goto(n, "attempt")
  /\ GoFrame
  /\ UNCHANGED <<ctxDone, ocVars, wake, task, last, recovered, outcome, wg,
                 holds, groupSem, lingering, cleanups, handled>>

\* Monotonic: a stale caller never moves the high-water mark back.
recordAttempt(n) ==
  attempts' = [attempts EXCEPT ![n] = IF attempt[n] > @ THEN attempt[n] ELSE @]

\* finishStep (and emitStepFinished of a step that never started, whose
\* attempt is the high-water mark itself): claim, and only the winner
\* records the attempt and goes on to append.
Settle(n) ==
  /\ pc[n] \in {"finish", "conclude"}
  /\ IF Unclaimed(n)
       THEN /\ finished' = [finished EXCEPT ![n] = outcome[n]]
            /\ recordAttempt(n)
            /\ goto(n, IF pc[n] = "finish" THEN "report" ELSE "record")
       ELSE /\ goto(n, IF pc[n] = "finish" THEN "onfailure" ELSE "giveback")
            /\ UNCHANGED <<finished, attempts>>
  /\ GoFrame
  /\ UNCHANGED <<ctxDone, states, running, alwaysRun, alwaysInFlight,
                 handlerAnchors, wake, task, localVars, wg, holds, semVars, logVars>>

Report(n) ==
  /\ pc[n] \in {"report", "record"}
  /\ AppendFinished(n, outcome[n])
  /\ goto(n, IF pc[n] = "report" THEN "onfailure" ELSE "giveback")
  /\ GoFrame
  /\ UNCHANGED <<ctxDone, ocVars, wake, task, localVars, wg, holds, semVars,
                 cleanups, handled>>

recordHandlerRan(n) ==
  /\ handlerAnchors' = [handlerAnchors EXCEPT ![n] = attempt[n]]
  /\ handled' = [handled EXCEPT ![n] = @ \cup {attempt[n]}]

RunOnFailure(n) ==
  /\ pc[n] = "onfailure"
  /\ IF Failed(outcome[n]) /\ n \in OnFailure
       THEN recordHandlerRan(n)
       ELSE UNCHANGED <<handlerAnchors, handled>>
  /\ goto(n, "always")
  /\ GoFrame
  /\ UNCHANGED <<ctxDone, states, finished, running, alwaysRun, alwaysInFlight,
                 attempts, wake, task, localVars, wg, holds, semVars, ledger, cleanups>>

\* runAlwaysAtSettle reads the context, then claims in a critical section
\* of its own: a cancelled run leaves the cleanup to teardown.
AlwaysAtSettle(n) ==
  /\ pc[n] = "always"
  /\ goto(n, IF n \in Always /\ ~ctxDone THEN "claim" ELSE "giveback")
  /\ GoFrame
  /\ UNCHANGED <<ctxDone, ocVars, wake, task, localVars, wg, holds, semVars, logVars>>

claimAlwaysAtSettle(n) ==
  /\ pc[n] = "claim"
  /\ IF Uncleaned(n)
       THEN /\ alwaysRun' = alwaysRun \cup {n}
            /\ alwaysInFlight' = alwaysInFlight + 1
            /\ cleanups' = [cleanups EXCEPT ![n] = @ + 1]
            /\ goto(n, "cleanup")
       ELSE goto(n, "giveback") /\ UNCHANGED <<alwaysRun, alwaysInFlight, cleanups>>
  /\ GoFrame
  /\ UNCHANGED <<ctxDone, states, finished, running, attempts, handlerAnchors,
                 wake, task, localVars, wg, holds, semVars, ledger, handled>>

EndAlways(n) ==
  /\ pc[n] = "cleanup"
  /\ recordHandlerRan(n)
  /\ alwaysInFlight' = alwaysInFlight - 1
  /\ goto(n, "giveback")
  /\ GoFrame
  /\ UNCHANGED <<ctxDone, states, finished, running, alwaysRun, attempts, wake,
                 task, localVars, wg, holds, semVars, ledger, cleanups>>

\* The deferred giveBack of runStep, before its caller publishes the state.
GiveBack(n) ==
  /\ pc[n] = "giveback" /\ task[n] = "step"
  /\ Release(n)
  /\ goto(n, "leave")
  /\ GoFrame
  /\ UNCHANGED <<ctxDone, ocVars, wake, task, localVars, wg, holds, lingering, logVars>>

\* The last critical section of a dispatched step, its signal and wg.Done.
Leave(n) ==
  /\ pc[n] = "leave"
  /\ states' = [states EXCEPT ![n] = outcome[n]]
  /\ running' = running \ {n}
  /\ Signal
  /\ wg' = [wg EXCEPT ![n] = @ - 1]
  /\ goto(n, "idle")
  /\ task' = [task EXCEPT ![n] = "none"]
  /\ GoFrame
  /\ UNCHANGED <<ctxDone, finished, alwaysRun, alwaysInFlight, attempts,
                 handlerAnchors, localVars, holds, semVars, logVars>>

-----------------------------------------------------------------------------
(* The goroutine of a step.retry: one attempt, under the global semaphore  *)
(* only, no retry loop, no cache and no handlers.                          *)

StartRetry(n) ==
  /\ pc[n] = "slot" /\ task[n] = "retry"
  /\ TakeSlot(n)
  /\ UNCHANGED attempt /\ BeginAttempt(n)
  /\ goto(n, "attempt")
  /\ GoFrame
  /\ UNCHANGED <<ctxDone, ocVars, wake, task, last, recovered, outcome, wg,
                 holds, groupSem, lingering, cleanups, handled>>

\* The acquire fails because the run was cancelled: the state is published
\* first, step.finished is claimed and appended afterwards.
AbortRetry(n) ==
  /\ pc[n] = "slot" /\ task[n] = "retry" /\ ctxDone
  /\ states' = [states EXCEPT ![n] = "cancelled"]
  /\ running' = running \ {n}
  /\ goto(n, "abort")
  /\ GoFrame
  /\ UNCHANGED <<ctxDone, finished, alwaysRun, alwaysInFlight, attempts,
                 handlerAnchors, wake, task, localVars, wg, holds, semVars, logVars>>

ClaimAborted(n) ==
  /\ pc[n] = "abort"
  /\ IF Unclaimed(n)
       THEN /\ finished' = [finished EXCEPT ![n] = "cancelled"]
            /\ goto(n, "abortreport")
       ELSE UNCHANGED finished /\ goto(n, "aborted")
  /\ GoFrame
  /\ UNCHANGED <<ctxDone, states, running, alwaysRun, alwaysInFlight, attempts,
                 handlerAnchors, wake, task, localVars, wg, holds, semVars, logVars>>

ReportAborted(n) ==
  /\ pc[n] = "abortreport"
  /\ AppendFinished(n, "cancelled")
  /\ goto(n, "aborted")
  /\ GoFrame
  /\ UNCHANGED <<ctxDone, ocVars, wake, task, localVars, wg, holds, semVars,
                 cleanups, handled>>

LeaveAborted(n) ==
  /\ pc[n] = "aborted"
  /\ Signal
  /\ wg' = [wg EXCEPT ![n] = @ - 1]
  /\ goto(n, "idle")
  /\ task' = [task EXCEPT ![n] = "none"]
  /\ GoFrame
  /\ UNCHANGED <<ctxDone, ocVars, localVars, holds, semVars, logVars>>

JudgeRetry(n) ==
  /\ pc[n] = "judge" /\ task[n] = "retry"
  /\ outcome' = [outcome EXCEPT ![n] = IF @ = "succeeded" THEN "recovered" ELSE @]
  /\ goto(n, "conclude")
  /\ GoFrame
  /\ UNCHANGED <<ctxDone, ocVars, wake, task, attempt, last, recovered, wg,
                 holds, semVars, logVars>>

\* The state is published and the loop woken before the deferred release:
\* from here the node may run again while this slot is still taken.
LeaveRetry(n) ==
  /\ pc[n] = "giveback" /\ task[n] = "retry"
  /\ states' = [states EXCEPT ![n] = outcome[n]]
  /\ running' = running \ {n}
  /\ Signal
  /\ holding' = holding \ {n}
  /\ lingering' = lingering + 1
  /\ wg' = [wg EXCEPT ![n] = @ - 1]
  /\ goto(n, "idle")
  /\ task' = [task EXCEPT ![n] = "none"]
  /\ GoFrame
  /\ UNCHANGED <<ctxDone, finished, alwaysRun, alwaysInFlight, attempts,
                 handlerAnchors, localVars, holds, sem, groupSem, logVars>>

ReleaseRetry ==
  /\ lingering > 0
  /\ lingering' = lingering - 1
  /\ sem' = sem - 1
  /\ UNCHANGED <<ctxDone, ocVars, loopVars, wake, controlVars, goVars, groupSem,
                 holding, teardownVars, logVars>>

\* captureForced ends, and its deferred release of the node with it.
EndCapture(n) ==
  /\ pc[n] = "capture"
  /\ running' = running \ {n}
  /\ Signal
  /\ wg' = [wg EXCEPT ![n] = @ - 1]
  /\ goto(n, "idle")
  /\ task' = [task EXCEPT ![n] = "none"]
  /\ GoFrame
  /\ UNCHANGED <<ctxDone, states, finished, alwaysRun, alwaysInFlight, attempts,
                 handlerAnchors, localVars, holds, semVars, logVars>>

\* What a goroutine does by itself, and what takes as long as a command, a
\* handler or a capture takes.
StepNext(n) ==
  \/ EnterGroup(n) \/ StartStep(n) \/ EndHold(n)
  \/ Judge(n) \/ EndBackoff(n) \/ CancelRetry(n) \/ NextAttempt(n)
  \/ Settle(n) \/ Report(n) \/ AlwaysAtSettle(n)
  \/ claimAlwaysAtSettle(n) \/ GiveBack(n) \/ Leave(n)
  \/ StartRetry(n) \/ AbortRetry(n) \/ ClaimAborted(n) \/ ReportAborted(n)
  \/ LeaveAborted(n) \/ JudgeRetry(n) \/ LeaveRetry(n)

CommandNext(n) ==
  \/ CacheLookup(n) \/ EndAttempt(n) \/ RunOnFailure(n) \/ EndAlways(n)
  \/ EndCapture(n)

-----------------------------------------------------------------------------
(* Control requests, served one at a time by the loop (serveControl).      *)

SendRequest ==
  /\ request = NoRequest /\ sent < Budget /\ ~sealed
  /\ request' \in Requests
  /\ sent' = sent + 1
  /\ UNCHANGED <<ctxDone, ocVars, loopVars, wake, goVars, semVars,
                 teardownVars, logVars>>

\* dependentsClosure: the least set holding root and closed under "needs one
\* of its members".
ClosedUnderNeeds(S) == \A n \in Nodes : NeedSet(n) \cap S # {} => n \in S

dependentsClosure ==
  [root \in Nodes |->
     {n \in Nodes : \A S \in SUBSET Nodes :
                      root \in S /\ ClosedUnderNeeds(S) => n \in S}]

DropClaims(S) ==
  finished' = [n \in Nodes |-> IF n \in S THEN Pending ELSE finished[n]]

\* Whoever unsettles a node consumes its pending handler evidence.
TakeAnchors(S) ==
  handlerAnchors' = [n \in Nodes |-> IF n \in S THEN 0 ELSE handlerAnchors[n]]

\* unsettleLocked for every node of S: their outcome, their claim and their
\* pending handler evidence go, the attempt high-water mark stays.  The
\* handler.superseded of a pass that ran is emitted by the same handler.
UnsettleAll(S) ==
  /\ states' = [n \in Nodes |-> IF n \in S THEN Pending ELSE states[n]]
  /\ DropClaims(S)
  /\ TakeAnchors(S)
  /\ finishes' = [n \in Nodes |-> IF n \in S /\ ~sealed THEN 0 ELSE finishes[n]]
  /\ superseded' = [n \in Nodes |-> IF n \in S /\ ~sealed /\ handlerAnchors[n] # 0
                                     THEN superseded[n] + 1 ELSE superseded[n]]
  /\ UNCHANGED <<reported, started>>

\* go func() for a node the handler marks running.
Launch(n, what, where) ==
  /\ running' = running \cup {n}
  /\ goto(n, where)
  /\ task' = [task EXCEPT ![n] = what]
  /\ wg' = [wg EXCEPT ![n] = @ + 1]

CanRetry(n) ==
  /\ n \notin running
  /\ Failed(states[n])
  /\ n \notin CheckGenerated

handleStepRetry(n) ==
  /\ ~ctxDone /\ CanRetry(n)
  /\ UnsettleAll({n})
  /\ Launch(n, "retry", "slot")
  /\ attempt' = [attempt EXCEPT ![n] = attempts[n] + 1]
  /\ UNCHANGED <<ctxDone, alwaysRun, alwaysInFlight, attempts, breakpoints,
                 paused, last, recovered, outcome, holds, cleanups>>

CanRerun(n) ==
  /\ dependentsClosure[n] \cap running = {}
  /\ states[n] # Pending
  /\ \A m \in dependentsClosure[n] : states[m] # Pending => m \notin CheckGenerated

\* Only the nodes that settled are reset, and only their Always may run again.
handleRerunFrom(n) ==
  LET reset == {m \in dependentsClosure[n] : states[m] # Pending} IN
  /\ ~ctxDone /\ CanRerun(n)
  /\ UnsettleAll(reset)
  /\ alwaysRun' = alwaysRun \ reset
  /\ cleanups' = [m \in Nodes |-> IF m \in reset THEN 0 ELSE cleanups[m]]
  /\ UNCHANGED <<ctxDone, running, alwaysInFlight, attempts, breakpoints,
                 paused, pc, task, localVars, wg, holds>>

CanSkip(n) == n \notin running /\ states[n] = Pending /\ finished[n] = Pending

\* states and the claim move together; the event needs no second claim.
handleStepSkip(n) ==
  /\ ~ctxDone /\ CanSkip(n)
  /\ states' = [states EXCEPT ![n] = "skipped_manual"]
  /\ finished' = [finished EXCEPT ![n] = "skipped_manual"]
  /\ AppendFinished(n, "skipped_manual")
  /\ UNCHANGED <<ctxDone, running, alwaysRun, alwaysInFlight, attempts,
                 handlerAnchors, breakpoints, paused, goVars, cleanups>>

\* The node is claimed as running for as long as its capture takes.
handleWSSnapshot(n) ==
  /\ ~ctxDone /\ n \in Mounts /\ CanSkip(n)
  /\ Launch(n, "snapshot", "capture")
  /\ UNCHANGED <<ctxDone, states, finished, alwaysRun, alwaysInFlight, attempts,
                 handlerAnchors, breakpoints, paused, localVars, holds,
                 ledger, cleanups>>

CanSetBreakpoint(n) == breakpoints[n] = "none" /\ n \notin holds

\* A clear takes the armed breakpoint first, and only then a failure hold.
CanClearBreakpoint(n) == breakpoints[n] # "none" \/ n \in holds

handleBreakpoint(n, op) ==
  /\ ~ctxDone
  /\ \/ /\ op = "breakpoint.set" /\ CanSetBreakpoint(n)
        /\ breakpoints' = [breakpoints EXCEPT ![n] = "armed"]
        /\ UNCHANGED holds
     \/ /\ op = "breakpoint.clear" /\ CanClearBreakpoint(n)
        /\ breakpoints' = [breakpoints EXCEPT ![n] = "none"]
        /\ holds' = IF breakpoints[n] = "none" THEN holds \ {n} ELSE holds
  /\ UNCHANGED <<ctxDone, ocVars, paused, pc, task, localVars, wg, ledger, cleanups>>

handleRunPause(op) ==
  /\ ~ctxDone
  /\ paused # (op = "run.pause")
  /\ paused' = (op = "run.pause")
  /\ UNCHANGED <<ctxDone, ocVars, breakpoints, goVars, ledger, cleanups>>

handleRunCancel ==
  /\ ~ctxDone
  /\ ctxDone' = TRUE
  /\ UNCHANGED <<ocVars, breakpoints, paused, goVars, ledger, cleanups>>

\* The handlers' own refusals; resolveStep refuses everything once the run
\* is cancelling.
Refused(r) ==
  \/ ctxDone
  \/ r.op = "step.retry" /\ ~CanRetry(r.step)
  \/ r.op = "run.rerun_from" /\ ~CanRerun(r.step)
  \/ r.op = "step.skip" /\ ~CanSkip(r.step)
  \/ r.op = "ws.snapshot" /\ ~(r.step \in Mounts /\ CanSkip(r.step))
  \/ r.op = "breakpoint.set" /\ ~CanSetBreakpoint(r.step)
  \/ r.op = "breakpoint.clear" /\ ~CanClearBreakpoint(r.step)
  \/ r.op = "run.pause" /\ paused
  \/ r.op = "run.resume" /\ ~paused

refuse(r) ==
  /\ Refused(r)
  /\ UNCHANGED <<ctxDone, ocVars, breakpoints, paused, goVars, ledger, cleanups>>

serveControl(r) ==
  \/ r.op = "run.cancel" /\ handleRunCancel
  \/ r.op = "step.retry" /\ handleStepRetry(r.step)
  \/ r.op = "step.skip" /\ handleStepSkip(r.step)
  \/ r.op \in {"breakpoint.set", "breakpoint.clear"} /\ handleBreakpoint(r.step, r.op)
  \/ r.op \in {"run.pause", "run.resume"} /\ handleRunPause(r.op)
  \/ r.op = "run.rerun_from" /\ handleRerunFrom(r.step)
  \/ r.op = "ws.snapshot" /\ handleWSSnapshot(r.step)
  \/ refuse(r)

\* The control case of the idle select, or the read before a dispatch.
Serve ==
  /\ request # NoRequest
  /\ loop \in {"idle", "poll"}
  /\ serveControl(request)
  /\ request' = NoRequest
  /\ loop' = IF loop = "idle" THEN "pass" ELSE "dispatch"
  /\ UNCHANGED <<sent, passVars, wake, semVars, teardownVars, handled>>

\* startRefusingControl owns the channel from the loop's last pass on.
LoopOver == loop \in {"leaving", "stuck", "returned", "failed"}

\* Once the loop is over startRefusingControl's goroutine answers.
RefuseFinished ==
  /\ request # NoRequest
  /\ LoopOver
  /\ request' = NoRequest
  /\ UNCHANGED <<ctxDone, ocVars, loopVars, wake, sent, goVars, semVars,
                 teardownVars, logVars>>

-----------------------------------------------------------------------------
(* Run's own goroutine, from waitForSchedule to the seal.                  *)

TeardownFrame == UNCHANGED <<ctxDone, loopVars, wake, controlVars, goVars, semVars>>

\* The caller's context is cancelled (Ctrl-C, a deadline, a fatal ledger error).
Interrupt ==
  /\ Interruptible /\ ~ctxDone /\ ~sealed
  /\ ctxDone' = TRUE
  /\ UNCHANGED <<ocVars, loopVars, wake, controlVars, goVars, semVars,
                 teardownVars, logVars>>

\* waitForSchedule: the scheduler returned.
ScheduleReturned ==
  /\ teardown = "waiting" /\ loop \in {"returned", "failed"}
  /\ result' = states
  /\ todo' = Always
  /\ teardown' = "claiming"
  /\ TeardownFrame
  /\ UNCHANGED <<ocVars, pendingAlways, runningAlways, budgetSpent, cleanupLost, logVars>>

\* The select of waitForSchedule moves on once the context is done, and its
\* timer then fires whatever the steps are doing.
GraceExpires == ctxDone

\* grace/2 after the cancellation the rest is abandoned: settleAbandoned
\* starts from a snapshot of finished.
Abandon ==
  /\ teardown = "waiting" /\ GraceExpires
  /\ result' = finished
  /\ todo' = {n \in Nodes : finished[n] = Pending}
  /\ teardown' = "settling"
  /\ TeardownFrame
  /\ UNCHANGED <<ocVars, pendingAlways, runningAlways, budgetSpent, cleanupLost, logVars>>

settleAbandoned(n) ==
  /\ teardown = "settling" /\ n \in todo
  /\ todo' = todo \ {n}
  /\ IF Unclaimed(n)
       THEN /\ finished' = [finished EXCEPT ![n] = "cancelled"]
            /\ AppendFinished(n, "cancelled")
            /\ result' = [result EXCEPT ![n] = "cancelled"]
       ELSE /\ result' = [result EXCEPT ![n] = finished[n]]
            /\ UNCHANGED <<finished, ledger>>
  /\ TeardownFrame
  /\ UNCHANGED <<states, running, alwaysRun, alwaysInFlight, attempts,
                 handlerAnchors, teardown, pendingAlways, runningAlways,
                 budgetSpent, cleanupLost, cleanups, handled>>

SettledAbandoned ==
  /\ teardown = "settling" /\ todo = {}
  /\ todo' = Always
  /\ teardown' = "claiming"
  /\ TeardownFrame
  /\ UNCHANGED <<ocVars, result, pendingAlways, runningAlways, budgetSpent,
                 cleanupLost, logVars>>

\* runAlways claims everything it will run before it runs any of it.
claimAlways(n) ==
  /\ teardown = "claiming" /\ n \in todo
  /\ todo' = todo \ {n}
  /\ IF Uncleaned(n)
       THEN /\ alwaysRun' = alwaysRun \cup {n}
            /\ pendingAlways' = pendingAlways \cup {n}
       ELSE UNCHANGED <<alwaysRun, pendingAlways>>
  /\ TeardownFrame
  /\ UNCHANGED <<states, finished, running, alwaysInFlight, attempts,
                 handlerAnchors, teardown, result, runningAlways, budgetSpent,
                 cleanupLost, logVars>>

ClaimedAlways ==
  /\ teardown = "claiming" /\ todo = {}
  /\ teardown' = "always"
  /\ TeardownFrame
  /\ UNCHANGED <<ocVars, todo, result, pendingAlways, runningAlways, budgetSpent,
                 cleanupLost, logVars>>

\* At most MaxParallel nodes' lists run at once, under one budget; a list
\* still queued when the budget is spent may be dropped.
StartAlways(n) ==
  /\ teardown = "always" /\ n \in pendingAlways
  /\ Cardinality(runningAlways) < MaxParallel
  /\ pendingAlways' = pendingAlways \ {n}
  /\ runningAlways' = runningAlways \cup {n}
  /\ cleanups' = [cleanups EXCEPT ![n] = @ + 1]
  /\ TeardownFrame
  /\ UNCHANGED <<ocVars, teardown, todo, result, budgetSpent, cleanupLost,
                 ledger, handled>>

DropAlways(n) ==
  /\ teardown = "always" /\ n \in pendingAlways /\ budgetSpent
  /\ pendingAlways' = pendingAlways \ {n}
  /\ TeardownFrame
  /\ UNCHANGED <<ocVars, teardown, todo, result, runningAlways, budgetSpent,
                 cleanupLost, logVars>>

FinishAlways(n) ==
  /\ teardown = "always" /\ n \in runningAlways
  /\ runningAlways' = runningAlways \ {n}
  /\ handlerAnchors' = [handlerAnchors EXCEPT ![n] = attempts[n]]
  /\ handled' = [handled EXCEPT ![n] = @ \cup {attempts[n]}]
  /\ TeardownFrame
  /\ UNCHANGED <<states, finished, running, alwaysRun, alwaysInFlight, attempts,
                 teardown, todo, result, pendingAlways, budgetSpent,
                 cleanupLost, ledger, cleanups>>

SpendBudget ==
  /\ teardown = "always" /\ ~budgetSpent
  /\ pendingAlways \cup runningAlways # {}
  /\ budgetSpent' = TRUE
  /\ TeardownFrame
  /\ UNCHANGED <<ocVars, teardown, todo, result, pendingAlways, runningAlways,
                 cleanupLost, logVars>>

\* wg.Wait at the end of runAlways; a spent budget is reported.
AlwaysEnded ==
  /\ teardown = "always" /\ pendingAlways = {} /\ runningAlways = {}
  /\ teardown' = "cleanup"
  /\ cleanupLost' = budgetSpent
  /\ TeardownFrame
  /\ UNCHANGED <<ocVars, todo, result, pendingAlways, runningAlways, budgetSpent, logVars>>

CleanupQuiet == alwaysInFlight = 0

\* waitForSettleTimeCleanup polls the count down to zero or gives up, and
\* run.finished seals the stream (seal alone if the scheduler was stuck).
Seal ==
  /\ teardown = "cleanup"
  /\ \/ CleanupQuiet /\ UNCHANGED cleanupLost
     \/ ~CleanupQuiet /\ cleanupLost' = TRUE
  /\ teardown' = "sealed"
  /\ TeardownFrame
  /\ UNCHANGED <<ocVars, todo, result, pendingAlways, runningAlways, budgetSpent, logVars>>

\* api.RunStatus of run.finished.
status == RollUp({result[n] : n \in Nodes})

TeardownNext ==
  \/ ScheduleReturned
  \/ \E n \in Nodes : settleAbandoned(n) \/ claimAlways(n) \/ StartAlways(n)
                        \/ DropAlways(n) \/ FinishAlways(n)
  \/ SettledAbandoned \/ ClaimedAlways \/ SpendBudget \/ AlwaysEnded \/ Seal

-----------------------------------------------------------------------------
\* Run returned.  Goroutines it abandoned may still go on.
Terminated == sealed /\ UNCHANGED vars

Next ==
  \/ LoopNext
  \/ \E n \in Nodes : StepNext(n) \/ CommandNext(n)
  \/ ReleaseRetry
  \/ SendRequest \/ Serve \/ RefuseFinished
  \/ Interrupt \/ Abandon \/ TeardownNext
  \/ Terminated

Spec == Init /\ [][Next]_vars

\* Go runs every goroutine that can run, and an engine timer that is armed
\* fires.  Nothing is assumed of how long a step's command, handler or
\* capture, or a client, takes: a step may ignore its cancellation forever.
Fairness ==
  /\ WF_vars(LoopNext)
  /\ WF_vars(Serve) /\ WF_vars(RefuseFinished)
  /\ \A n \in Nodes : WF_vars(StepNext(n))
  /\ WF_vars(ReleaseRetry)
  /\ WF_vars(TeardownNext) /\ WF_vars(Abandon)

FairSpec == Spec /\ Fairness

\* Besides, every command, handler and capture ends.
CommandsEnd == \A n \in Nodes : WF_vars(CommandNext(n))

EndingSpec == FairSpec /\ CommandsEnd

-----------------------------------------------------------------------------
(* Properties.                                                             *)

Loops == {"pass", "emit", "idle", "poll", "dispatch", "leaving", "stuck",
          "returned", "failed"}
Places == {"idle", "group", "slot", "lookup", "attempt", "held", "judge",
           "backoff", "regroup", "reslot", "finish", "report", "onfailure",
           "always", "claim", "cleanup", "conclude", "record", "giveback",
           "leave", "abort", "abortreport", "aborted", "capture"}
Teardowns == {"waiting", "settling", "claiming", "always", "cleanup", "sealed"}

OutcomesType ==
  /\ states \in [Nodes -> States] /\ finished \in [Nodes -> States]
  /\ running \subseteq Nodes /\ alwaysRun \subseteq Nodes
  /\ alwaysInFlight \in Int
  /\ attempts \in [Nodes -> Nat] /\ handlerAnchors \in [Nodes -> Nat]

LoopType ==
  /\ ctxDone \in BOOLEAN /\ paused \in BOOLEAN /\ wake \in BOOLEAN
  /\ loop \in Loops /\ verdict \in {"done", "stuck", "idle", "go"}
  /\ ready \subseteq Nodes /\ settled \subseteq Nodes /\ held \subseteq Nodes
  /\ emitting \in Nodes \cup {Pending} /\ watchCtx \in BOOLEAN
  /\ breakpoints \in [Nodes -> {"none", "armed", "hit"}]
  /\ request \in Requests \cup {NoRequest} /\ sent \in Nat

GoroutinesType ==
  /\ pc \in [Nodes -> Places]
  /\ task \in [Nodes -> {"none", "step", "retry", "snapshot"}]
  /\ attempt \in [Nodes -> Nat] /\ last \in [Nodes -> Nat]
  /\ recovered \subseteq Nodes /\ outcome \in [Nodes -> States]
  /\ wg \in [Nodes -> Int] /\ holds \subseteq Nodes

SemaphoresType ==
  /\ sem \in Int /\ groupSem \in [DOMAIN GroupLimit -> Int]
  /\ holding \subseteq Nodes /\ lingering \in Nat

TeardownType ==
  /\ teardown \in Teardowns /\ todo \subseteq Nodes
  /\ result \in [Nodes -> States]
  /\ pendingAlways \subseteq Nodes /\ runningAlways \subseteq Nodes
  /\ budgetSpent \in BOOLEAN /\ cleanupLost \in BOOLEAN

LogType ==
  /\ finishes \in [Nodes -> Nat] /\ reported \in [Nodes -> States]
  /\ started \in [Nodes -> Nat] /\ superseded \in [Nodes -> Nat]
  /\ cleanups \in [Nodes -> Nat] /\ handled \in [Nodes -> SUBSET Nat]

\* Every variable holds what the Go declaration behind it can hold.
TypeOK ==
  /\ OutcomesType /\ LoopType /\ GoroutinesType
  /\ SemaphoresType /\ TeardownType /\ LogType

\* Two executions of one step are never alive at once: whatever order the
\* loop's dispatches, step.retry, run.rerun_from and ws.snapshot come in,
\* the claim of running keeps a second goroutine of the same node away.
OneExecutionPerStep == \A n \in Nodes : wg[n] <= 1

\* outcomes.settle: the scheduler's cascade, the step's own finishStep, a
\* retry's abort, step.skip and teardown's settleAbandoned race, and one
\* execution never gets a second step.finished.
OneFinishPerExecution == \A n \in Nodes : finishes[n] <= 1

\* The status run.finished rolls up and the stream never disagree about a
\* step: what the ledger last said of it is what the result map says.
ResultMatchesLedger ==
  sealed => \A n \in Nodes : finishes[n] > 0 => reported[n] = result[n]

\* handler.superseded is only emitted for a handler pass that ran, and at
\* most once for each.
SupersededOnce == \A n \in Nodes : superseded[n] <= Cardinality(handled[n])

\* Every step is in the ledger, once, in the state the status is computed
\* from, when the scheduler returns by itself; and the ledger takes back no
\* handler pass that did not run.
EveryStepReported ==
  [][/\ ScheduleReturned /\ loop = "returned" =>
          \A n \in Nodes : finishes[n] = 1 /\ reported[n] = states[n]
     /\ SupersededOnce']_vars

\* A step works (looks its cache up, runs an attempt, is held, runs its
\* handlers) only under a slot of its own, and there are MaxParallel of them.
Working == {"lookup", "attempt", "held", "onfailure", "claim", "cleanup"}

BoundedWork ==
  Cardinality({n \in Nodes : /\ pc[n] \in Working
                             /\ pc[n] = "onfailure" => Failed(outcome[n])})
    <= MaxParallel

\* No slot is leaked or given back twice: the semaphores hold exactly what
\* the goroutines that took a slot still have, and nobody works without one.
InGroup(n) == n \in holding \/ pc[n] \in {"slot", "reslot"}

SlotsAccounted ==
  /\ sem = Cardinality(holding) + lingering
  /\ \A g \in DOMAIN GroupLimit :
       groupSem[g] = Cardinality({n \in Nodes : Group[n] = g /\ task[n] = "step" /\ InGroup(n)})
  /\ BoundedWork

\* While a step executes, every need that could block it stays settled in
\* a satisfying state: no control operation pulls an upstream from under it.
\* Only an upstream with ContinueOnError may be going round again.
Executing == Places \ {"idle", "capture", "abort", "abortreport", "aborted"}

NeedsHold ==
  \A n \in Nodes : n \in ready \/ pc[n] \in Executing =>
    \A m \in NeedSet(n) \ ContinueOnError : states[m] \in Satisfying

\* A valid plan is never aborted as a dependency cycle, whatever clients
\* hold, pause, skip or restart and whenever the last step reports back.
NeverStuck == loop \notin {"stuck", "failed"}

\* Attempt numbers are never reused: every attempt that starts has a higher
\* number than any the ledger and the log files already know.
FreshAttempts ==
  [][\A n \in Nodes : pc[n] # "attempt" /\ pc'[n] = "attempt"
                        => attempt'[n] > started[n]]_vars

\* One execution's cleanup never runs twice: not by the step and by
\* teardown, not by a second retry.
AlwaysAtMostOnce == \A n \in Nodes : cleanups[n] <= 1

\* Always means always: when the stream is sealed every declared cleanup
\* ran, or run.finished says some of it was given up.
AlwaysRan == sealed /\ ~cleanupLost => \A n \in Always : cleanups[n] = 1

\* No settle-time cleanup is still running when the ledger and the logs are
\* closed, unless run.finished says so, and none starts afterwards.
CleanupInsideTheLedger ==
  /\ [](sealed /\ alwaysInFlight > 0 => cleanupLost)
  /\ [][sealed => \A n \in Nodes : cleanups'[n] <= cleanups[n]]_vars

\* The run ends after a cancellation even if a step never returns.
CancelEndsTheRun == ctxDone ~> sealed

\* With commands that end, the loop itself brings a cancelled run to its
\* end: it need not be abandoned at grace/2 because nothing woke it.
CancelIsNoticed == ctxDone ~> loop = "returned"

\* Every control request is answered.
RequestsAnswered == (request # NoRequest) ~> (request = NoRequest)

\* A run whose commands end reaches run.finished, or waits for its client:
\* paused, at a breakpoint, or held after a failure; and a cancellation is
\* noticed by the loop itself.
WaitsForClient == paused \/ holds # {} \/ \E n \in Nodes : breakpoints[n] = "hit"

RunEnds == <>[](sealed \/ WaitsForClient) /\ CancelIsNoticed

-----------------------------------------------------------------------------
(* What a comment or a document says and the code does not do.             *)

\* A group's MaxParallel "bounds how many of this group's children run at
\* once".
GroupLimitHolds ==
  \A g \in DOMAIN GroupLimit :
    Cardinality({n \in Nodes : Group[n] = g /\ pc[n] = "attempt"}) <= GroupLimit[g]

\* A step whose cache key cannot be built "settles as an ordinary failure,
\* so its handlers still run".
FailureRunsHandlers ==
  \A n \in OnFailure : Failed(states[n]) => attempts[n] \in handled[n]
=============================================================================
