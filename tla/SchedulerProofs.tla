--------------------------- MODULE SchedulerProofs ---------------------------
(***************************************************************************)
(* Theorems about Scheduler, for every plan, every set of requests and     *)
(* every bound.                                                            *)
(* First what the scheduler and its control operations do to the steps;    *)
(* then what a run takes or promises it gives back, and what the event     *)
(* stream says of it.  The semaphores: no slot leaks, none is given back   *)
(* twice, and nobody works without one, whatever is retried, cancelled or  *)
(* aborted.  "Always" handlers: each runs once per execution, by the step  *)
(* or by teardown, before the stream is sealed, or run.finished says       *)
(* otherwise.  The stream: the state it reports for a step is the state    *)
(* the run's status is computed from, every step is in it, and attempt     *)
(* numbers and handler passes are never counted twice.                     *)
(***************************************************************************)
EXTENDS Scheduler, WellFoundedInduction, NaturalsInduction, FiniteSetTheorems, TLAPS

-----------------------------------------------------------------------------
(* Plan arithmetic.                                                        *)

\* A nonempty set of naturals has a least element: readySet's scan stops at
\* one need, and some unsettled node comes first in the plan's order.
LEMMA LeastNat ==
  ASSUME NEW S \in SUBSET Nat, S # {}
  PROVE  \E i \in S : \A j \in S : i <= j
<1> DEFINE R == {p \in Nat \X Nat : p[1] < p[2]}
<1>1. IsWellFoundedOn(R, Nat)
  BY NatLessThanWellFounded, Zenon DEF OpToRel
<1> HIDE DEF R
<1>2. PICK i \in S : \A j \in S : <<j, i>> \notin R
  BY <1>1, WFMin
<1>3. \A j \in S : ~(j < i)
  BY <1>2 DEF R
<1>4. QED  BY <1>3

\* The need that stops the scan is a need of the node, and it does not let
\* the node through.
LEMMA ObstacleIsANeed ==
  ASSUME NEW n \in Nodes, ~Through(n)
  PROVE  Obstacle(n) \in NeedSet(n) /\ Obstacle(n) \in Nodes /\ ~LetsThrough(Obstacle(n))
<1>1. Needs[n] \in Seq(Nodes)
  BY PlanAssumption
<1>2. Obstacles(n) \in SUBSET Nat /\ Obstacles(n) # {}
  BY <1>1 DEF Obstacles, Through
<1>3. PICK i \in Obstacles(n) : i = CHOOSE k \in Obstacles(n) : \A j \in Obstacles(n) : k <= j
  BY <1>2, LeastNat
<1>4. i \in DOMAIN Needs[n] /\ ~LetsThrough(Needs[n][i])
  BY <1>3 DEF Obstacles
<1>5. Needs[n][i] \in Nodes
  BY <1>1, <1>4
<1>6. QED  BY <1>3, <1>4, <1>5 DEF Obstacle, NeedSet

-----------------------------------------------------------------------------
(* Type correctness.                                                       *)

\* What plan.Validate guarantees of the declarations a step is run from.
LEMMA PlanTypes ==
  /\ Always \subseteq Nodes
  /\ \A n \in Nodes : Outcomes[n] \subseteq AttemptStates /\ MaxAttempts[n] \in Nat
BY PlanAssumption

\* readySet only ever settles a node in a state of the enumeration: a skip is
\* inherited from a need's state, everything else is a constant.
LEMMA SettledAsType ==
  ASSUME OutcomesType, NEW n \in Nodes
  PROVE  SettledAs(n) \in States
<1>1. CASE ctxDone \/ Through(n)
  BY <1>1 DEF SettledAs, States, TerminalStates, skipPropagation
<1>2. CASE ~ctxDone /\ ~Through(n)
  <2>1. states[Obstacle(n)] \in States
    BY <1>2, ObstacleIsANeed DEF OutcomesType
  <2>2. QED  BY <1>2, <2>1 DEF SettledAs, States, TerminalStates, skipPropagation
<1>3. QED  BY <1>1, <1>2

\* unsettleLocked leaves every table it touches well typed.
LEMMA UnsettleType ==
  ASSUME TypeOK, NEW S, UnsettleAll(S)
  PROVE  /\ states' \in [Nodes -> States] /\ finished' \in [Nodes -> States]
         /\ handlerAnchors' \in [Nodes -> Nat] /\ finishes' \in [Nodes -> Nat]
         /\ superseded' \in [Nodes -> Nat]
         /\ reported' = reported /\ started' = started
<1>1. states' \in [Nodes -> States] /\ finished' \in [Nodes -> States]
  BY DEF TypeOK, OutcomesType, UnsettleAll, DropClaims, States
<1>2. handlerAnchors' \in [Nodes -> Nat]
  BY DEF TypeOK, OutcomesType, UnsettleAll, TakeAnchors
<1>3. finishes' \in [Nodes -> Nat] /\ superseded' \in [Nodes -> Nat]
  BY DEF TypeOK, LogType, UnsettleAll
<1>4. QED  BY <1>1, <1>2, <1>3 DEF UnsettleAll

\* A control handler leaves every table well typed, whatever the request.
LEMMA ServeType == ASSUME TypeOK, Serve PROVE TypeOK'
<1> USE DEF TypeOK, Loops, Places, Teardowns, 
            ocVars, passVars, loopVars, controlVars, localVars, goVars, semVars,
            teardownVars, logVars, ledger, goto
<1> DEFINE n == request.step
<1>1. /\ request \in Requests /\ n \in Nodes
      /\ {Pending, "skipped_manual", "none"} \subseteq States \cup {"none"}
  BY RequestsAssumption DEF Serve, LoopType, States, TerminalStates, skipPropagation
<1> HIDE DEF n
<1>2. LoopType' <=> /\ ctxDone' \in BOOLEAN /\ paused' \in BOOLEAN
                    /\ breakpoints' \in [Nodes -> {"none", "armed", "hit"}]
  BY DEF Serve, LoopType
<1>3. SemaphoresType' /\ TeardownType'
  BY DEF Serve, SemaphoresType, TeardownType
<1>4. handled' = handled
  BY DEF Serve
<1> DEFINE Goal == /\ ctxDone' \in BOOLEAN /\ paused' \in BOOLEAN
                   /\ breakpoints' \in [Nodes -> {"none", "armed", "hit"}]
                   /\ OutcomesType' /\ GoroutinesType' /\ LogType'
<1>5. SUFFICES Goal
  BY <1>2, <1>3
<1>6. CASE handleRunCancel
  BY <1>4, <1>6 DEF handleRunCancel, OutcomesType, GoroutinesType, LogType, LoopType
<1>7. CASE handleStepRetry(n)
  <2>1. UnsettleAll({n}) /\ LogType'
    BY <1>4, <1>7, UnsettleType DEF handleStepRetry, LogType
  <2>2. OutcomesType'
    BY <1>1, <1>7, <2>1, UnsettleType DEF handleStepRetry, Launch, OutcomesType
  <2>3. GoroutinesType'
    BY <1>1, <1>7 DEF handleStepRetry, Launch, OutcomesType, GoroutinesType
  <2>4. QED  BY <1>7, <2>1, <2>2, <2>3 DEF handleStepRetry, LoopType
<1>8. CASE handleStepSkip(n)
  BY <1>1, <1>4, <1>8 DEF handleStepSkip, AppendFinished, OutcomesType, GoroutinesType, LogType, LoopType
<1>9. CASE handleBreakpoint(n, "breakpoint.set") \/ handleBreakpoint(n, "breakpoint.clear")
  BY <1>1, <1>4, <1>9 DEF handleBreakpoint, OutcomesType, GoroutinesType, LogType, LoopType
<1>10. CASE \E op \in {"run.pause", "run.resume"} : handleRunPause(op)
  <2>1. paused' \in BOOLEAN BY <1>10, Zenon DEF handleRunPause
  <2>2. QED BY <1>4, <1>10, <2>1 DEF handleRunPause, OutcomesType, GoroutinesType, LogType, LoopType
<1>11. CASE handleRerunFrom(n)
  <2>1. PICK S \in SUBSET Nodes : UnsettleAll(S) /\ alwaysRun' = alwaysRun \ S
            /\ cleanups' = [m \in Nodes |-> IF m \in S THEN 0 ELSE cleanups[m]]
    BY <1>1, <1>11 DEF handleRerunFrom, dependentsClosure
  <2>2. LogType'
    BY <1>4, <2>1, UnsettleType DEF LogType
  <2>3. OutcomesType'
    BY <1>11, <2>1, UnsettleType DEF handleRerunFrom, OutcomesType
  <2>4. QED  BY <1>11, <2>2, <2>3 DEF handleRerunFrom, GoroutinesType, LoopType
<1>12. CASE handleWSSnapshot(n)
  BY <1>1, <1>4, <1>12 DEF handleWSSnapshot, Launch, OutcomesType, GoroutinesType, LogType, LoopType
<1>13. CASE refuse(request)
  BY <1>4, <1>13 DEF refuse, OutcomesType, GoroutinesType, LogType, LoopType
<1>14. QED
  BY <1>6, <1>7, <1>8, <1>9, <1>10, <1>11, <1>12, <1>13, Zenon DEF Serve, serveControl, n

\* Every action preserves the type invariant.
LEMMA TypeStep ==
  ASSUME TypeOK, [Next]_vars
  PROVE  TypeOK'
<1> USE DEF TypeOK, Loops, Places, Teardowns, States, TerminalStates, FailedStates,
            Satisfying, skipPropagation, ocVars, passVars, loopVars, controlVars,
            localVars, goVars, semVars, teardownVars, logVars, ledger, GoFrame,
            TeardownFrame, goto
<1>1. CASE Pass
  <2>1. states' \in [Nodes -> States]
     <3>1. \A n \in Nodes : SettledAs(n) \in States BY SettledAsType
     <3>2. \A n \in Nodes : states[n] \in States BY DEF OutcomesType
     <3> HIDE DEF States
     <3> QED BY <1>1, <3>1, <3>2 DEF Pass
  <2>2. running' \subseteq Nodes /\ ready' \subseteq Nodes /\ settled' \subseteq Nodes /\ held' \subseteq Nodes
     BY <1>1 DEF Pass, OutcomesType, Unclassified, Dispatchable
  <2>3. watchCtx' \in BOOLEAN
     BY <1>1, Zenon DEF Pass, Watches
  <2>4. verdict' \in {"done", "stuck", "idle", "go"} BY <1>1 DEF Pass
  <2>5. OutcomesType' BY <1>1, <2>1, <2>2 DEF Pass, OutcomesType
  <2>6. LoopType' BY <1>1, <2>2, <2>3, <2>4 DEF Pass, LoopType
  <2>7. GoroutinesType' /\ SemaphoresType' /\ TeardownType' /\ LogType'
    BY <1>1, SMTT(30) DEF Pass, GoroutinesType, SemaphoresType, TeardownType, LogType
  <2>8. QED  BY <2>5, <2>6, <2>7
<1>2. ASSUME NEW n \in Nodes, ClaimSettled(n)  PROVE TypeOK'
  BY <1>2, SMTT(30) DEF ClaimSettled, OutcomesType, LoopType, GoroutinesType, SemaphoresType, TeardownType, LogType
<1>3. CASE AppendSettled
  BY <1>3, SMTT(30) DEF AppendSettled, AppendFinished, OutcomesType, LoopType, GoroutinesType, SemaphoresType, TeardownType, LogType
<1>4. CASE Branch
  BY <1>4, SMTT(30) DEF Branch, OutcomesType, LoopType, GoroutinesType, SemaphoresType, TeardownType, LogType
<1>5. CASE Wake
  <2>1. wake' \in BOOLEAN BY <1>5, Zenon DEF Wake, LoopType
  <2>8. LoopType'
    BY <1>5, <2>1 DEF Wake, LoopType
  <2>9. OutcomesType' /\ GoroutinesType' /\ SemaphoresType' /\ TeardownType' /\ LogType'
    BY <1>5, SMTT(30) DEF Wake, OutcomesType, LoopType, GoroutinesType, SemaphoresType, TeardownType, LogType
  <2>10. QED  BY <2>8, <2>9
<1>6. CASE PollNothing
  BY <1>6, SMTT(30) DEF PollNothing, OutcomesType, LoopType, GoroutinesType, SemaphoresType, TeardownType, LogType
<1>7. CASE Dispatch
  BY <1>7, SMTT(30) DEF Dispatch, OutcomesType, LoopType, GoroutinesType, SemaphoresType, TeardownType, LogType
<1>8. CASE Return
  BY <1>8, SMTT(30) DEF Return, OutcomesType, LoopType, GoroutinesType, SemaphoresType, TeardownType, LogType
<1>9. ASSUME NEW n \in Nodes, EnterGroup(n)  PROVE TypeOK'
  <2>1. ASSUME Group[n] \in DOMAIN GroupLimit  PROVE SemaphoresType'
    BY <1>9, <2>1 DEF EnterGroup, SemaphoresType
  <2>2. ASSUME Group[n] \notin DOMAIN GroupLimit  PROVE SemaphoresType'
    BY <1>9, <2>2 DEF EnterGroup, SemaphoresType
  <2>8. SemaphoresType'
    BY <2>1, <2>2
  <2>9. OutcomesType' /\ LoopType' /\ GoroutinesType' /\ TeardownType' /\ LogType'
    BY <1>9, SMTT(30) DEF EnterGroup, OutcomesType, LoopType, GoroutinesType, SemaphoresType, TeardownType, LogType
  <2>10. QED  BY <2>8, <2>9
<1>10. ASSUME NEW n \in Nodes, StartStep(n)  PROVE TypeOK'
  <2>1. ASSUME ctxDone  PROVE GoroutinesType'
    BY <1>10, <2>1, SMTT(30) DEF StartStep, GoroutinesType, OutcomesType
  <2>2. ASSUME ~ctxDone  PROVE GoroutinesType'
     <3>1. attempts[n] + MaxAttempts[n] \in Nat /\ attempts[n] + 1 \in Nat BY PlanTypes DEF OutcomesType
     <3>2. pc' \in [Nodes -> Places] BY <1>10, <2>2 DEF StartStep, GoroutinesType
     <3>3. outcome' = outcome BY <1>10, <2>2 DEF StartStep
     <3> QED BY <1>10, <2>2, <3>1, <3>2, <3>3 DEF StartStep, GoroutinesType
  <2>8. GoroutinesType'
    BY <2>1, <2>2
  <2>9. OutcomesType' /\ LoopType' /\ SemaphoresType' /\ TeardownType' /\ LogType'
    BY <1>10, SMTT(30) DEF StartStep, TakeSlot, BeginAttempt, OutcomesType, LoopType, GoroutinesType, SemaphoresType, TeardownType, LogType
  <2>10. QED  BY <2>8, <2>9
<1>11. ASSUME NEW n \in Nodes, EndHold(n)  PROVE TypeOK'
  BY <1>11, SMTT(30) DEF EndHold, OutcomesType, LoopType, GoroutinesType, SemaphoresType, TeardownType, LogType
<1>12. ASSUME NEW n \in Nodes, Judge(n)  PROVE TypeOK'
  BY <1>12, SMTT(30) DEF Judge, Release, OutcomesType, LoopType, GoroutinesType, SemaphoresType, TeardownType, LogType
<1>13. ASSUME NEW n \in Nodes, EndBackoff(n)  PROVE TypeOK'
  BY <1>13, SMTT(30) DEF EndBackoff, OutcomesType, LoopType, GoroutinesType, SemaphoresType, TeardownType, LogType
<1>14. ASSUME NEW n \in Nodes, CancelRetry(n)  PROVE TypeOK'
  <2>1. ASSUME Group[n] \in DOMAIN GroupLimit  PROVE SemaphoresType'
    BY <1>14, <2>1 DEF CancelRetry, SemaphoresType
  <2>2. ASSUME Group[n] \notin DOMAIN GroupLimit  PROVE SemaphoresType'
    BY <1>14, <2>2 DEF CancelRetry, SemaphoresType
  <2>8. SemaphoresType'
    BY <2>1, <2>2
  <2>9. OutcomesType' /\ LoopType' /\ GoroutinesType' /\ TeardownType' /\ LogType'
    BY <1>14, SMTT(30) DEF CancelRetry, OutcomesType, LoopType, GoroutinesType, SemaphoresType, TeardownType, LogType
  <2>10. QED  BY <2>8, <2>9
<1>15. ASSUME NEW n \in Nodes, NextAttempt(n)  PROVE TypeOK'
  <2>1. OutcomesType' /\ LoopType' /\ TeardownType'
    BY <1>15 DEF NextAttempt, OutcomesType, LoopType, TeardownType
  <2>2. GoroutinesType' /\ SemaphoresType'
    BY <1>15 DEF NextAttempt, TakeSlot, GoroutinesType, SemaphoresType
  <2>3. LogType'
    BY <1>15, SMTT(30) DEF NextAttempt, BeginAttempt, GoroutinesType, LogType
  <2>4. QED  BY <2>1, <2>2, <2>3
<1>16. ASSUME NEW n \in Nodes, Settle(n)  PROVE TypeOK'
  <2>1. LoopType' /\ SemaphoresType' /\ TeardownType' /\ LogType'
    BY <1>16 DEF Settle, LoopType, SemaphoresType, TeardownType, LogType
  <2>2. GoroutinesType'
    BY <1>16, SMTT(30) DEF Settle, GoroutinesType
  <2>3. OutcomesType'
    BY <1>16, SMTT(30) DEF Settle, recordAttempt, OutcomesType, GoroutinesType
  <2>4. QED  BY <2>1, <2>2, <2>3
<1>17. ASSUME NEW n \in Nodes, Report(n)  PROVE TypeOK'
  BY <1>17, SMTT(30) DEF Report, AppendFinished, OutcomesType, LoopType, GoroutinesType, SemaphoresType, TeardownType, LogType
<1>18. ASSUME NEW n \in Nodes, AlwaysAtSettle(n)  PROVE TypeOK'
  BY <1>18, SMTT(30) DEF AlwaysAtSettle, OutcomesType, LoopType, GoroutinesType, SemaphoresType, TeardownType, LogType
<1>19. ASSUME NEW n \in Nodes, claimAlwaysAtSettle(n)  PROVE TypeOK'
  <2>1. ASSUME Uncleaned(n)  PROVE LogType'
    BY <1>19, <2>1 DEF claimAlwaysAtSettle, LogType
  <2>2. ASSUME ~Uncleaned(n)  PROVE LogType'
    BY <1>19, <2>2 DEF claimAlwaysAtSettle, LogType
  <2>8. LogType'
    BY <2>1, <2>2
  <2>9. OutcomesType' /\ LoopType' /\ GoroutinesType' /\ SemaphoresType' /\ TeardownType'
    BY <1>19, SMTT(30) DEF claimAlwaysAtSettle, OutcomesType, LoopType, GoroutinesType, SemaphoresType, TeardownType, LogType
  <2>10. QED  BY <2>8, <2>9
<1>20. ASSUME NEW n \in Nodes, GiveBack(n)  PROVE TypeOK'
  BY <1>20, SMTT(30) DEF GiveBack, Release, OutcomesType, LoopType, GoroutinesType, SemaphoresType, TeardownType, LogType
<1>21. ASSUME NEW n \in Nodes, Leave(n)  PROVE TypeOK'
  BY <1>21, SMTT(30) DEF Leave, Signal, OutcomesType, LoopType, GoroutinesType, SemaphoresType, TeardownType, LogType
<1>22. ASSUME NEW n \in Nodes, StartRetry(n)  PROVE TypeOK'
  BY <1>22, SMTT(30) DEF StartRetry, TakeSlot, BeginAttempt, OutcomesType, LoopType, GoroutinesType, SemaphoresType, TeardownType, LogType
<1>23. ASSUME NEW n \in Nodes, AbortRetry(n)  PROVE TypeOK'
  BY <1>23, SMTT(30) DEF AbortRetry, OutcomesType, LoopType, GoroutinesType, SemaphoresType, TeardownType, LogType
<1>24. ASSUME NEW n \in Nodes, ClaimAborted(n)  PROVE TypeOK'
  BY <1>24, SMTT(30) DEF ClaimAborted, OutcomesType, LoopType, GoroutinesType, SemaphoresType, TeardownType, LogType
<1>25. ASSUME NEW n \in Nodes, ReportAborted(n)  PROVE TypeOK'
  BY <1>25, SMTT(30) DEF ReportAborted, AppendFinished, OutcomesType, LoopType, GoroutinesType, SemaphoresType, TeardownType, LogType
<1>26. ASSUME NEW n \in Nodes, LeaveAborted(n)  PROVE TypeOK'
  BY <1>26, SMTT(30) DEF LeaveAborted, Signal, OutcomesType, LoopType, GoroutinesType, SemaphoresType, TeardownType, LogType
<1>27. ASSUME NEW n \in Nodes, JudgeRetry(n)  PROVE TypeOK'
  BY <1>27, SMTT(30) DEF JudgeRetry, OutcomesType, LoopType, GoroutinesType, SemaphoresType, TeardownType, LogType
<1>28. ASSUME NEW n \in Nodes, LeaveRetry(n)  PROVE TypeOK'
  BY <1>28, SMTT(30) DEF LeaveRetry, Signal, OutcomesType, LoopType, GoroutinesType, SemaphoresType, TeardownType, LogType
<1>29. ASSUME NEW n \in Nodes, CacheLookup(n)  PROVE TypeOK'
  <2>1. attempt' = attempt BY <1>29 DEF CacheLookup
  <2>2. pc' \in [Nodes -> Places] BY <1>29 DEF CacheLookup, GoroutinesType
  <2>3. outcome' \in [Nodes -> States] BY <1>29 DEF CacheLookup, GoroutinesType
  <2>8. GoroutinesType'
    BY <1>29, <2>1, <2>2, <2>3 DEF CacheLookup, GoroutinesType
  <2>9. OutcomesType' /\ LoopType'
    BY <1>29, SMTT(30) DEF CacheLookup, BeginAttempt, OutcomesType, LoopType
  <2>10. SemaphoresType' /\ TeardownType'
    BY <1>29, SMTT(30) DEF CacheLookup, SemaphoresType, TeardownType
  <2>11. LogType'
    <3>1. attempt[n] \in Nat  BY DEF GoroutinesType
    <3>2. started' \in [Nodes -> Nat]
      BY <1>29, <2>1, <3>1, SMTT(30) DEF CacheLookup, BeginAttempt, LogType
    <3>3. UNCHANGED <<finishes, reported, superseded, cleanups, handled>>
      BY <1>29, SMTT(30) DEF CacheLookup, BeginAttempt
    <3>4. QED  BY <3>2, <3>3 DEF LogType
  <2>12. QED  BY <2>8, <2>9, <2>10, <2>11
<1>30. ASSUME NEW n \in Nodes, EndAttempt(n)  PROVE TypeOK'
  <2>1. PICK s \in States : /\ outcome' = [outcome EXCEPT ![n] = s]
                            /\ \/ holds' = holds \cup {n} /\ pc' = [pc EXCEPT ![n] = "held"]
                               \/ holds' = holds /\ pc' = [pc EXCEPT ![n] = "judge"]
    BY <1>30, PlanTypes DEF EndAttempt, AttemptStates
  <2>2. GoroutinesType'
    BY <1>30, <2>1 DEF EndAttempt, GoroutinesType
  <2>3. OutcomesType' /\ LoopType' /\ SemaphoresType' /\ TeardownType' /\ LogType'
    BY <1>30, SMTT(30) DEF EndAttempt, OutcomesType, LoopType, SemaphoresType, TeardownType, LogType
  <2>4. QED  BY <2>2, <2>3
<1>31. ASSUME NEW n \in Nodes, RunOnFailure(n)  PROVE TypeOK'
  BY <1>31, SMTT(30) DEF RunOnFailure, recordHandlerRan, OutcomesType, LoopType, GoroutinesType, SemaphoresType, TeardownType, LogType
<1>32. ASSUME NEW n \in Nodes, EndAlways(n)  PROVE TypeOK'
  BY <1>32, SMTT(30) DEF EndAlways, recordHandlerRan, OutcomesType, LoopType, GoroutinesType, SemaphoresType, TeardownType, LogType
<1>33. ASSUME NEW n \in Nodes, EndCapture(n)  PROVE TypeOK'
  BY <1>33, SMTT(30) DEF EndCapture, Signal, OutcomesType, LoopType, GoroutinesType, SemaphoresType, TeardownType, LogType
<1>34. CASE ReleaseRetry
  BY <1>34, SMTT(30) DEF ReleaseRetry, OutcomesType, LoopType, GoroutinesType, SemaphoresType, TeardownType, LogType
<1>35. CASE SendRequest
  BY <1>35, SMTT(30) DEF SendRequest, OutcomesType, LoopType, GoroutinesType, SemaphoresType, TeardownType, LogType
<1>36. CASE Serve
  BY <1>36, ServeType
<1>37. CASE RefuseFinished
  BY <1>37, SMTT(30) DEF RefuseFinished, OutcomesType, LoopType, GoroutinesType, SemaphoresType, TeardownType, LogType
<1>38. CASE Interrupt
  BY <1>38, SMTT(30) DEF Interrupt, OutcomesType, LoopType, GoroutinesType, SemaphoresType, TeardownType, LogType
<1>39. CASE ScheduleReturned
  BY <1>39, PlanTypes, SMTT(30) DEF ScheduleReturned, OutcomesType, LoopType, GoroutinesType, SemaphoresType, TeardownType, LogType
<1>40. CASE Abandon
  BY <1>40, SMTT(30) DEF Abandon, OutcomesType, LoopType, GoroutinesType, SemaphoresType, TeardownType, LogType
<1>41. ASSUME NEW n \in Nodes, settleAbandoned(n)  PROVE TypeOK'
  <2>1. LoopType' /\ GoroutinesType' /\ SemaphoresType'
    BY <1>41 DEF settleAbandoned, LoopType, GoroutinesType, SemaphoresType
  <2>2. OutcomesType'
    BY <1>41, SMTT(30) DEF settleAbandoned, OutcomesType
  <2>3. LogType'
    BY <1>41, SMTT(30) DEF settleAbandoned, AppendFinished, LogType
  <2>4. TeardownType'
    BY <1>41, SMTT(30) DEF settleAbandoned, OutcomesType, TeardownType
  <2>5. QED  BY <2>1, <2>2, <2>3, <2>4
<1>42. CASE SettledAbandoned
  BY <1>42, PlanTypes, SMTT(30) DEF SettledAbandoned, OutcomesType, LoopType, GoroutinesType, SemaphoresType, TeardownType, LogType
<1>43. ASSUME NEW n \in Nodes, claimAlways(n)  PROVE TypeOK'
  BY <1>43, SMTT(30) DEF claimAlways, OutcomesType, LoopType, GoroutinesType, SemaphoresType, TeardownType, LogType
<1>44. CASE ClaimedAlways
  BY <1>44, SMTT(30) DEF ClaimedAlways, OutcomesType, LoopType, GoroutinesType, SemaphoresType, TeardownType, LogType
<1>45. ASSUME NEW n \in Nodes, StartAlways(n)  PROVE TypeOK'
  BY <1>45, SMTT(30) DEF StartAlways, OutcomesType, LoopType, GoroutinesType, SemaphoresType, TeardownType, LogType
<1>46. ASSUME NEW n \in Nodes, DropAlways(n)  PROVE TypeOK'
  BY <1>46, SMTT(30) DEF DropAlways, OutcomesType, LoopType, GoroutinesType, SemaphoresType, TeardownType, LogType
<1>47. ASSUME NEW n \in Nodes, FinishAlways(n)  PROVE TypeOK'
  BY <1>47, SMTT(30) DEF FinishAlways, OutcomesType, LoopType, GoroutinesType, SemaphoresType, TeardownType, LogType
<1>48. CASE SpendBudget
  BY <1>48, SMTT(30) DEF SpendBudget, OutcomesType, LoopType, GoroutinesType, SemaphoresType, TeardownType, LogType
<1>49. CASE AlwaysEnded
  BY <1>49, SMTT(30) DEF AlwaysEnded, OutcomesType, LoopType, GoroutinesType, SemaphoresType, TeardownType, LogType
<1>50. CASE Seal
  <2>1. cleanupLost' \in BOOLEAN BY <1>50, Zenon DEF Seal, TeardownType
  <2>8. TeardownType'
    BY <1>50, <2>1 DEF Seal, TeardownType
  <2>9. OutcomesType' /\ LoopType' /\ GoroutinesType' /\ SemaphoresType' /\ LogType'
    BY <1>50, SMTT(30) DEF Seal, OutcomesType, LoopType, GoroutinesType, SemaphoresType, TeardownType, LogType
  <2>10. QED  BY <2>8, <2>9
<1>51. CASE Terminated
  BY <1>51, SMTT(30) DEF Terminated, vars, OutcomesType, LoopType, GoroutinesType, SemaphoresType, TeardownType, LogType
<1>52. CASE UNCHANGED vars
  BY <1>52 DEF vars, OutcomesType, LoopType, GoroutinesType, SemaphoresType, TeardownType, LogType
<1>53. QED
  BY <1>1, <1>2, <1>3, <1>4, <1>5, <1>6, <1>7, <1>8, <1>9, <1>10, <1>11, <1>12, <1>13, <1>14, <1>15, <1>16, <1>17, <1>18, <1>19, <1>20, <1>21, <1>22, <1>23, <1>24, <1>25, <1>26, <1>27, <1>28, <1>29, <1>30, <1>31, <1>32, <1>33, <1>34, <1>35, <1>36, <1>37, <1>38, <1>39, <1>40, <1>41, <1>42, <1>43, <1>44, <1>45, <1>46, <1>47, <1>48, <1>49, <1>50, <1>51, <1>52
  DEF Next, LoopNext, StepNext, CommandNext, TeardownNext

\* Every variable of a run holds what its Go declaration can hold, whatever
\* the plan, the options and the requests.
THEOREM TypeCorrect == Spec => []TypeOK
<1>1. ASSUME Init  PROVE TypeOK
  <2>1. OutcomesType
    BY <1>1 DEF Init, OutcomesType, States
  <2>2. LoopType
    BY <1>1 DEF Init, LoopType, Loops
  <2>3. GoroutinesType
    BY <1>1 DEF Init, GoroutinesType, Places, States
  <2>4. SemaphoresType
    BY <1>1 DEF Init, SemaphoresType
  <2>5. TeardownType
    BY <1>1 DEF Init, TeardownType, Teardowns, States
  <2>6. LogType
    BY <1>1 DEF Init, LogType, States
  <2>7. QED  BY <2>1, <2>2, <2>3, <2>4, <2>5, <2>6 DEF TypeOK
<1>2. TypeOK /\ [Next]_vars => TypeOK'
  BY TypeStep
<1>3. QED  BY <1>1, <1>2, PTL DEF Spec

-----------------------------------------------------------------------------
(* A valid plan never looks like a dependency cycle.                       *)

NotStuck == loop \notin {"stuck", "failed"} /\ verdict # "stuck"

\* The unsettled node of least rank is running, or a pass does something
\* about it, or somebody holds it.
LEMMA PassNotStuck ==
  ASSUME TypeOK, Pass
  PROVE  verdict' # "stuck"
<1>1. SUFFICES ASSUME verdict' = "stuck"
               PROVE  FALSE
  OBVIOUS
<1>2. /\ \E n \in Nodes : states'[n] = Pending
      /\ running = {} /\ ~paused /\ ready' = {} /\ settled' = {} /\ held' = {}
  BY <1>1 DEF Pass, Stuck
<1>3. \A n \in Nodes : n \in Unclassified => SettledAs(n) = Pending
  BY <1>2 DEF Pass
<1>4. states' = states
  BY <1>2 DEF Pass, TypeOK, OutcomesType
<1>5. \A n \in Nodes : states[n] = Pending => n \in Unclassified
  BY <1>2 DEF Unclassified
<1>6. Dispatchable = {}
  BY <1>2 DEF Pass
<1> DEFINE R == {Rank[n] : n \in {m \in Nodes : states[m] = Pending}}
<1>7. R \in SUBSET Nat /\ R # {}
  BY <1>2, <1>4, PlanAssumption
<1>8. PICK r \in R : \A q \in R : r <= q
  BY <1>7, LeastNat
<1>9. PICK n \in Nodes : states[n] = Pending /\ Rank[n] = r
  BY <1>8
<1>10. n \in Unclassified /\ SettledAs(n) = Pending
  BY <1>3, <1>5, <1>9
<1>11. ~ctxDone
  BY <1>10 DEF SettledAs, Pending
<1>12. CASE Through(n)
  <2>1. n \notin Gated
    BY <1>10, <1>11, <1>12 DEF SettledAs, Pending
  <2>2. n \in Dispatchable
    BY <1>10, <1>11, <1>12, <2>1 DEF Dispatchable
  <2>3. QED  BY <1>6, <2>2
<1>13. CASE ~Through(n)
  <2>1. Obstacle(n) \in NeedSet(n) /\ Obstacle(n) \in Nodes
    BY <1>13, ObstacleIsANeed
  <2>2. states[Obstacle(n)] = Pending
    BY <1>10, <1>11, <1>13 DEF SettledAs, Pending, skipPropagation
  <2>3. Rank[Obstacle(n)] \in R /\ Rank[Obstacle(n)] < Rank[n]
    BY <2>1, <2>2, PlanAssumption
  <2>4. QED  BY <1>7, <1>8, <1>9, <2>3
<1>14. QED  BY <1>12, <1>13

\* Only a pass can decide that the plan is stuck, and none does.
LEMMA NotStuckStep ==
  ASSUME TypeOK, NotStuck, [Next]_vars
  PROVE  NotStuck'
<1> USE DEF NotStuck, GoFrame, TeardownFrame, loopVars, passVars
<1>1. CASE Pass
  BY <1>1, PassNotStuck DEF Pass
<1>2. CASE \E n \in Nodes : ClaimSettled(n)
  BY <1>2 DEF ClaimSettled
<1>3. CASE AppendSettled \/ Wake \/ PollNothing \/ Dispatch \/ Return
  BY <1>3 DEF AppendSettled, Wake, PollNothing, Dispatch, Return
<1>4. CASE Branch
  BY <1>4 DEF Branch, TypeOK, LoopType
<1>5. ASSUME NEW n \in Nodes, StepNext(n)  PROVE NotStuck'
  BY <1>5 DEF StepNext, EnterGroup, StartStep, EndHold, Judge, EndBackoff, CancelRetry,
     NextAttempt, Settle, Report, AlwaysAtSettle, claimAlwaysAtSettle, GiveBack, Leave,
     StartRetry, AbortRetry, ClaimAborted, ReportAborted, LeaveAborted, JudgeRetry, LeaveRetry
<1>6. ASSUME NEW n \in Nodes, CommandNext(n)  PROVE NotStuck'
  BY <1>6 DEF CommandNext, CacheLookup, EndAttempt, RunOnFailure, EndAlways, EndCapture
<1>7. CASE ReleaseRetry \/ SendRequest \/ RefuseFinished \/ Interrupt \/ Abandon
  BY <1>7 DEF ReleaseRetry, SendRequest, RefuseFinished, Interrupt, Abandon
<1>8. CASE Serve
  BY <1>8 DEF Serve
<1>9. CASE TeardownNext
  BY <1>9 DEF TeardownNext, ScheduleReturned, settleAbandoned, claimAlways, StartAlways,
     DropAlways, FinishAlways, SettledAbandoned, ClaimedAlways, SpendBudget, AlwaysEnded, Seal
<1>10. CASE Terminated \/ UNCHANGED vars
  BY <1>10 DEF Terminated, vars
<1>11. QED
  BY <1>1, <1>2, <1>3, <1>4, <1>5, <1>6, <1>7, <1>8, <1>9, <1>10 DEF Next, LoopNext

\* Whatever clients hold, pause, skip or restart, an acyclic plan is never
\* aborted with "no step is ready and none is running".
THEOREM PlanNeverStuck == Spec => []NeverStuck
<1>1. Init => NotStuck
  BY DEF Init, NotStuck
<1>2. NotStuck => NeverStuck
  BY DEF NotStuck, NeverStuck
<1>3. QED  BY <1>1, <1>2, TypeCorrect, NotStuckStep, PTL DEF Spec

-----------------------------------------------------------------------------
(* What the claims kept in outcomes guarantee: running (one goroutine per  *)
(* node, and no control operation under it) and finished (one              *)
(* step.finished per execution).                                           *)

Aborting == {"abort", "abortreport", "aborted"}

\* The claim of running.  A node a pass chose is claimed before its
\* goroutine exists; an aborted retry gives the claim up before it is gone,
\* but only in a cancelled run, where no handler starts anything.
RunningClaim ==
  /\ \A n \in Nodes :
       /\ wg[n] = IF pc[n] = "idle" THEN 0 ELSE 1
       /\ pc[n] \notin Aborting \cup {"idle"} => n \in running
       /\ n \in ready => n \in running /\ pc[n] = "idle"
       /\ n \in running => states[n] = Pending
       /\ pc[n] \in Aborting => ctxDone /\ states[n] # Pending
  /\ loop \notin {"emit", "poll", "dispatch"} => ready = {}
  /\ loop = "emit" /\ verdict # "go" => ready = {}

\* NeedsHold, and the nodes step.retry may start: a failed node's needs were
\* satisfied when it ran and nothing unsettles them without unsettling it.
NeedsOf(n) == \A m \in NeedSet(n) \ ContinueOnError : states[m] \in Satisfying

NeedsKept ==
  \A n \in Nodes : n \in ready \/ pc[n] \in Executing \/ Failed(states[n]) => NeedsOf(n)

\* Who won the claim of n's step.finished and has not appended it yet.
Owes(n) == pc[n] \in {"report", "record", "abortreport"}

Decided == {"held", "judge", "backoff", "regroup", "reslot", "finish", "report",
            "onfailure", "always", "claim", "cleanup", "conclude", "record",
            "giveback", "leave"}

\* A claim nobody has appended yet belongs to a node nothing has reported.
NodeFinish(n) ==
  /\ n \in settled \cup {emitting} => states[n] # Pending
  /\ pc[n] \in Decided => outcome[n] # Pending
  /\ Owes(n) \/ emitting = n => finished[n] # Pending
  /\ ~(Owes(n) /\ emitting = n)
  /\ finishes[n] \in {0, 1}
  /\ ~sealed /\ finishes[n] = 1 => finished[n] # Pending /\ ~Owes(n) /\ emitting # n

\* The claim of finished.
FinishClaim ==
  /\ settled # {} \/ emitting # Pending => loop = "emit"
  /\ \A n \in Nodes : NodeFinish(n)

-----------------------------------------------------------------------------
(* The actions, by what they do to the claims.                             *)

\* A goroutine goes on inside its execution.
Goes(n) ==
  \/ EnterGroup(n) \/ StartStep(n) \/ CacheLookup(n) \/ EndAttempt(n) \/ EndHold(n)
  \/ Judge(n) \/ EndBackoff(n) \/ CancelRetry(n) \/ NextAttempt(n) \/ Settle(n)
  \/ Report(n) \/ RunOnFailure(n) \/ AlwaysAtSettle(n) \/ claimAlwaysAtSettle(n)
  \/ EndAlways(n) \/ GiveBack(n) \/ StartRetry(n) \/ JudgeRetry(n)

\* A step of teardown, a client or a released slot.
Aside ==
  \/ ReleaseRetry \/ SendRequest \/ RefuseFinished \/ Interrupt \/ Abandon
  \/ TeardownNext \/ Terminated \/ UNCHANGED vars

claimVars == <<wg, running, states, ready, settled, emitting, loop, verdict>>

\* Such a step moves one pc inside Executing and leaves every claim alone.
LEMMA GoesInside ==
  ASSUME TypeOK, NEW n \in Nodes, Goes(n)
  PROVE  /\ pc[n] \in Executing
         /\ \E w \in Executing : pc' = [pc EXCEPT ![n] = w]
         /\ UNCHANGED <<claimVars, ctxDone>>
<1> USE DEF Executing, Places, goto, claimVars, GoFrame, loopVars, passVars, ocVars
<1>1. CASE EnterGroup(n)  BY <1>1 DEF EnterGroup
<1>2. CASE StartStep(n)  BY <1>2 DEF StartStep
<1>3. CASE CacheLookup(n)  BY <1>3 DEF CacheLookup
<1>4. CASE EndAttempt(n)  BY <1>4 DEF EndAttempt
<1>5. CASE EndHold(n)  BY <1>5 DEF EndHold
<1>6. CASE Judge(n)  BY <1>6 DEF Judge
<1>7. CASE EndBackoff(n)  BY <1>7 DEF EndBackoff
<1>8. CASE CancelRetry(n)  BY <1>8 DEF CancelRetry
<1>9. CASE NextAttempt(n)  BY <1>9 DEF NextAttempt
<1>10. CASE Settle(n)  BY <1>10 DEF Settle
<1>11. CASE Report(n)  BY <1>11 DEF Report
<1>12. CASE RunOnFailure(n)  BY <1>12 DEF RunOnFailure
<1>13. CASE AlwaysAtSettle(n)  BY <1>13 DEF AlwaysAtSettle
<1>14. CASE claimAlwaysAtSettle(n)  BY <1>14 DEF claimAlwaysAtSettle
<1>15. CASE EndAlways(n)  BY <1>15 DEF EndAlways
<1>16. CASE GiveBack(n)  BY <1>16 DEF GiveBack
<1>17. CASE StartRetry(n)  BY <1>17 DEF StartRetry
<1>18. CASE JudgeRetry(n)  BY <1>18 DEF JudgeRetry
<1>19. QED
  BY <1>1, <1>2, <1>3, <1>4, <1>5, <1>6, <1>7, <1>8, <1>9, <1>10, <1>11, <1>12,
     <1>13, <1>14, <1>15, <1>16, <1>17, <1>18 DEF Goes

\* Such a step moves no goroutine and no claim of running, and a run that
\* is cancelled stays cancelled.
LEMMA AsideFrame ==
  ASSUME TypeOK, Aside
  PROVE  UNCHANGED <<claimVars, pc, outcome>> /\ (ctxDone => ctxDone')
<1> USE DEF claimVars, TeardownFrame, loopVars, passVars, ocVars, goVars, localVars
<1>1. CASE ReleaseRetry  BY <1>1 DEF ReleaseRetry
<1>2. CASE SendRequest  BY <1>2 DEF SendRequest
<1>3. CASE RefuseFinished  BY <1>3 DEF RefuseFinished
<1>4. CASE Interrupt  BY <1>4 DEF Interrupt
<1>5. CASE Abandon  BY <1>5 DEF Abandon
<1>6. CASE TeardownNext
  <2>1. CASE ScheduleReturned  BY <2>1 DEF ScheduleReturned
  <2>2. ASSUME NEW n \in Nodes, settleAbandoned(n)  PROVE UNCHANGED <<claimVars, pc, outcome, ctxDone>>
    BY <2>2 DEF settleAbandoned
  <2>3. ASSUME NEW n \in Nodes, claimAlways(n)  PROVE UNCHANGED <<claimVars, pc, outcome, ctxDone>>
    BY <2>3 DEF claimAlways
  <2>4. ASSUME NEW n \in Nodes, StartAlways(n)  PROVE UNCHANGED <<claimVars, pc, outcome, ctxDone>>
    BY <2>4 DEF StartAlways
  <2>5. ASSUME NEW n \in Nodes, DropAlways(n)  PROVE UNCHANGED <<claimVars, pc, outcome, ctxDone>>
    BY <2>5 DEF DropAlways
  <2>6. ASSUME NEW n \in Nodes, FinishAlways(n)  PROVE UNCHANGED <<claimVars, pc, outcome, ctxDone>>
    BY <2>6 DEF FinishAlways
  <2>7. CASE SettledAbandoned  BY <2>7 DEF SettledAbandoned
  <2>8. CASE ClaimedAlways  BY <2>8 DEF ClaimedAlways
  <2>9. CASE SpendBudget  BY <2>9 DEF SpendBudget
  <2>10. CASE AlwaysEnded  BY <2>10 DEF AlwaysEnded
  <2>11. CASE Seal  BY <2>11 DEF Seal
  <2>12. QED
    BY <1>6, <2>1, <2>2, <2>3, <2>4, <2>5, <2>6, <2>7, <2>8, <2>9, <2>10, <2>11
    DEF TeardownNext
<1>7. CASE Terminated  BY <1>7 DEF Terminated, vars
<1>8. CASE UNCHANGED vars  BY <1>8 DEF vars
<1>9. QED
  BY <1>1, <1>2, <1>3, <1>4, <1>5, <1>6, <1>7, <1>8 DEF Aside

\* What a control handler can do to the claims, and when it is served.
LEMMA ServeClaims ==
  ASSUME TypeOK, Serve
  PROVE  /\ loop \in {"idle", "poll"} /\ loop' = IF loop = "idle" THEN "pass" ELSE "dispatch"
         /\ UNCHANGED <<ready, settled, emitting, verdict, teardown>>
         /\ request.step \in Nodes
         /\ \/ handleStepRetry(request.step)
            \/ handleStepSkip(request.step)
            \/ handleRerunFrom(request.step)
            \/ handleWSSnapshot(request.step)
            \/ /\ UNCHANGED <<wg, running, states, pc, finished, finishes, outcome>>
               /\ ctxDone => ctxDone'
<1>1. request.step \in Nodes
  BY RequestsAssumption DEF Serve, TypeOK, LoopType
<1>2. UNCHANGED <<ready, settled, emitting, verdict, teardown>>
  BY DEF Serve, passVars, teardownVars
<1>3. CASE \/ handleRunCancel \/ refuse(request)
           \/ \E op \in {"run.pause", "run.resume"} : handleRunPause(op)
           \/ \E op \in {"breakpoint.set", "breakpoint.clear"} : handleBreakpoint(request.step, op)
  <2>1. UNCHANGED <<wg, running, states, pc, finished, finishes, outcome>> /\ (ctxDone => ctxDone')
    BY <1>3 DEF handleRunCancel, refuse, handleRunPause, handleBreakpoint, ocVars,
       goVars, localVars, ledger
  <2>2. QED  BY <1>1, <1>2, <2>1 DEF Serve
<1>4. QED
  BY <1>1, <1>2, <1>3 DEF Serve, serveControl

-----------------------------------------------------------------------------
(* One goroutine per node.                                                 *)

\* The step of Pass: what it chooses has no goroutine and is claimed.
LEMMA PassRunning ==
  ASSUME TypeOK, RunningClaim, Pass
  PROVE  RunningClaim'
<1> DEFINE go == ready'
<1>1. /\ running' = running \cup go
      /\ \A n \in go : n \in Nodes /\ states[n] = Pending /\ n \notin running
                     /\ ~ctxDone /\ Through(n) /\ n \notin Gated
  BY DEF Pass, Dispatchable, Unclassified
<1>2. \A n \in go : pc[n] = "idle"
  BY <1>1, Zenon DEF RunningClaim
<1>3. \A n \in Nodes : states'[n] = IF states[n] = Pending /\ n \notin running
                                     THEN SettledAs(n) ELSE states[n]
  BY DEF Pass, Unclassified
<1>4. \A n \in running' : states'[n] = Pending
  BY <1>1, <1>3 DEF SettledAs, RunningClaim, TypeOK, OutcomesType
<1>5. verdict' # "go" => go = {}
  <2>1. CASE verdict' = "done"
    BY <1>1, <1>4, <2>1 DEF Pass
  <2>2. CASE verdict' \in {"stuck", "idle"}
    BY <2>2 DEF Pass, Stuck
  <2>3. QED  BY <2>1, <2>2 DEF Pass
<1>6. UNCHANGED <<wg, pc, ctxDone>> /\ loop' = "emit"
  BY DEF Pass, goVars
<1>7. ASSUME NEW n \in Nodes
      PROVE /\ wg'[n] = IF pc'[n] = "idle" THEN 0 ELSE 1
            /\ pc'[n] \notin Aborting \cup {"idle"} => n \in running'
            /\ n \in ready' => n \in running' /\ pc'[n] = "idle"
            /\ n \in running' => states'[n] = Pending
            /\ pc'[n] \in Aborting => ctxDone' /\ states'[n] # Pending
  BY <1>1, <1>2, <1>3, <1>4, <1>6, <1>7 DEF RunningClaim
<1>8. QED  BY <1>5, <1>6, <1>7 DEF RunningClaim

\* The step of a control handler.
LEMMA ServeRunning ==
  ASSUME TypeOK, RunningClaim, Serve
  PROVE  RunningClaim'
<1> DEFINE n == request.step
<1>1. /\ loop \in {"idle", "poll"} /\ loop' = IF loop = "idle" THEN "pass" ELSE "dispatch"
      /\ UNCHANGED <<ready, verdict>> /\ n \in Nodes
  BY ServeClaims
<1>2. loop' # "emit" /\ (loop' \notin {"emit", "poll", "dispatch"} => ready' = {})
  BY <1>1 DEF RunningClaim
<1> HIDE DEF n
<1>3. ~ctxDone => \A m \in Nodes : m \notin running => pc[m] = "idle"
  BY Zenon DEF RunningClaim
<1>4. CASE handleStepRetry(n)
  <2>1. /\ ~ctxDone /\ ~ctxDone' /\ n \notin running /\ running' = running \cup {n}
        /\ states' = [m \in Nodes |-> IF m \in {n} THEN Pending ELSE states[m]]
        /\ pc' = [pc EXCEPT ![n] = "slot"] /\ wg' = [wg EXCEPT ![n] = @ + 1]
    BY <1>4 DEF handleStepRetry, CanRetry, UnsettleAll, Launch, goto
  <2>2. QED
    BY <1>1, <1>2, <1>3, <2>1 DEF RunningClaim, TypeOK, GoroutinesType, OutcomesType, Aborting
<1>5. CASE handleStepSkip(n)
  <2>1. /\ ~ctxDone /\ ~ctxDone' /\ n \notin running /\ UNCHANGED <<running, pc, wg>>
        /\ states' = [states EXCEPT ![n] = "skipped_manual"]
    BY <1>5 DEF handleStepSkip, CanSkip, goVars
  <2>2. QED
    BY <1>1, <1>2, <1>3, <2>1 DEF RunningClaim, TypeOK, GoroutinesType, OutcomesType, Aborting
<1>6. CASE handleRerunFrom(n)
  <2>1. PICK S \in SUBSET Nodes : states' = [m \in Nodes |-> IF m \in S THEN Pending ELSE states[m]]
    BY <1>1, <1>6 DEF handleRerunFrom, UnsettleAll, dependentsClosure
  <2>2. ~ctxDone /\ ~ctxDone' /\ UNCHANGED <<running, pc, wg>>
    BY <1>6 DEF handleRerunFrom
  <2>3. QED
    BY <1>1, <1>2, <1>3, <2>1, <2>2 DEF RunningClaim, TypeOK, GoroutinesType, OutcomesType, Aborting
<1>7. CASE handleWSSnapshot(n)
  <2>1. /\ ~ctxDone /\ ~ctxDone' /\ n \notin running /\ running' = running \cup {n}
        /\ states[n] = Pending /\ states' = states
        /\ pc' = [pc EXCEPT ![n] = "capture"] /\ wg' = [wg EXCEPT ![n] = @ + 1]
    BY <1>7 DEF handleWSSnapshot, CanSkip, Launch, goto
  <2>2. QED
    BY <1>1, <1>2, <1>3, <2>1 DEF RunningClaim, TypeOK, GoroutinesType, OutcomesType, Aborting
<1>8. CASE UNCHANGED <<wg, running, states, pc>> /\ (ctxDone => ctxDone')
  BY <1>1, <1>2, <1>8 DEF RunningClaim
<1>9. QED
  BY <1>4, <1>5, <1>6, <1>7, <1>8, ServeClaims DEF n

\* Every action preserves the claim of running.
LEMMA RunningStep ==
  ASSUME TypeOK, RunningClaim, [Next]_vars
  PROVE  RunningClaim'
<1> USE DEF goto, GoFrame, loopVars, passVars, ocVars, goVars, localVars, Aborting
<1>1. CASE Pass  BY <1>1, PassRunning
<1>2. CASE \E n \in Nodes : ClaimSettled(n)
  BY <1>2 DEF ClaimSettled, RunningClaim
<1>3. CASE AppendSettled \/ Wake \/ PollNothing \/ Return
  BY <1>3 DEF AppendSettled, Wake, PollNothing, Return, RunningClaim
<1>4. CASE Branch
  BY <1>4 DEF Branch, RunningClaim, TypeOK, LoopType
<1>5. CASE Dispatch
  BY <1>5 DEF Dispatch, RunningClaim, TypeOK, GoroutinesType, Limited
<1>6. CASE \E n \in Nodes : Goes(n)
  <2>1. PICK n \in Nodes : Goes(n)
    BY <1>6
  <2>2. PICK w \in Executing : pc' = [pc EXCEPT ![n] = w]
    BY <2>1, GoesInside
  <2>3. pc[n] \in Executing /\ UNCHANGED <<wg, running, states, ready, loop, verdict, ctxDone>>
    BY <2>1, GoesInside DEF claimVars
  <2>4. QED
    BY <2>2, <2>3 DEF RunningClaim, Executing, Places, TypeOK, GoroutinesType
<1>7. ASSUME NEW n \in Nodes, Leave(n)  PROVE RunningClaim'
  BY <1>7 DEF Leave, RunningClaim, TypeOK, GoroutinesType, OutcomesType
<1>8. ASSUME NEW n \in Nodes, LeaveRetry(n)  PROVE RunningClaim'
  BY <1>8 DEF LeaveRetry, RunningClaim, TypeOK, GoroutinesType, OutcomesType
<1>9. ASSUME NEW n \in Nodes, AbortRetry(n)  PROVE RunningClaim'
  BY <1>9 DEF AbortRetry, RunningClaim, TypeOK, GoroutinesType, OutcomesType, Pending
<1>10. ASSUME NEW n \in Nodes, ClaimAborted(n) \/ ReportAborted(n)  PROVE RunningClaim'
  BY <1>10 DEF ClaimAborted, ReportAborted, RunningClaim, TypeOK, GoroutinesType
<1>11. ASSUME NEW n \in Nodes, LeaveAborted(n)  PROVE RunningClaim'
  BY <1>11 DEF LeaveAborted, RunningClaim, TypeOK, GoroutinesType
<1>12. ASSUME NEW n \in Nodes, EndCapture(n)  PROVE RunningClaim'
  BY <1>12 DEF EndCapture, RunningClaim, TypeOK, GoroutinesType
<1>13. CASE Serve  BY <1>13, ServeRunning
<1>14. CASE Aside
  BY <1>14, AsideFrame DEF RunningClaim, claimVars
<1>15. QED
  BY <1>1, <1>2, <1>3, <1>4, <1>5, <1>6, <1>7, <1>8, <1>9, <1>10, <1>11, <1>12,
     <1>13, <1>14 DEF Next, LoopNext, StepNext, CommandNext, Goes, Aside

\* The claim of running holds throughout a run, whatever order the loop's
\* dispatches, step.retry, run.rerun_from and ws.snapshot come in.
THEOREM RunningSafe == Spec => []RunningClaim
<1>1. Init => RunningClaim
  BY DEF Init, RunningClaim, Aborting
<1>2. QED
  BY <1>1, TypeCorrect, RunningStep, PTL DEF Spec

\* The same for the number of goroutines a node has in wg: never two.
THEOREM OneExecution == Spec => []OneExecutionPerStep
<1>1. RunningClaim => OneExecutionPerStep
  BY DEF RunningClaim, OneExecutionPerStep
<1>2. QED  BY <1>1, RunningSafe, PTL

-----------------------------------------------------------------------------
(* No upstream is pulled from under an execution.                          *)

\* dependentsClosure holds its root and every dependent of its members.
LEMMA ClosureClosed ==
  ASSUME NEW r \in Nodes, NEW n \in Nodes, NEW m \in NeedSet(n), m \in dependentsClosure[r]
  PROVE  n \in dependentsClosure[r]
<1>1. m \in Nodes /\ \A S \in SUBSET Nodes : r \in S /\ ClosedUnderNeeds(S) => m \in S
  BY DEF dependentsClosure
<1>2. SUFFICES ASSUME NEW S \in SUBSET Nodes, r \in S, ClosedUnderNeeds(S)
               PROVE  n \in S
  BY DEF dependentsClosure
<1>3. m \in NeedSet(n) \cap S
  BY <1>1, <1>2
<1>4. QED  BY <1>2, <1>3 DEF ClosedUnderNeeds

\* plan.Validate: a need names a step of the plan.
LEMMA NeedsAreNodes == \A n \in Nodes : NeedSet(n) \subseteq Nodes
BY PlanAssumption DEF NeedSet

\* A node a pass chooses has every need satisfied or allowed to fail.
LEMMA ThroughNeeds ==
  ASSUME NEW n \in Nodes, Through(n)
  PROVE  NeedsOf(n)
<1>1. ASSUME NEW m \in NeedSet(n) \ ContinueOnError  PROVE states[m] \in Satisfying
  <2>1. PICK i \in DOMAIN Needs[n] : m = Needs[n][i]
    BY DEF NeedSet
  <2>2. LetsThrough(m)
    BY <2>1 DEF Through, Obstacles
  <2>3. QED  BY <1>1, <2>2 DEF LetsThrough, satisfiedBy
<1>2. QED  BY <1>1 DEF NeedsOf

\* A step under which no satisfying state is lost keeps the needs of every
\* execution that was already there.
LEMMA NeedsOfKept ==
  ASSUME NEW n \in Nodes, NeedsOf(n),
         \A m \in Nodes : states[m] \in Satisfying => states'[m] \in Satisfying
  PROVE  NeedsOf(n)'
BY NeedsAreNodes DEF NeedsOf

\* Every action keeps the needs of whatever executes, or failed and may be
\* retried.
LEMMA NeedsStep ==
  ASSUME TypeOK, RunningClaim, NeedsKept, [Next]_vars
  PROVE  NeedsKept'
<1> USE DEF goto, GoFrame, loopVars, passVars, ocVars, goVars, localVars
<1> DEFINE Kept == \A m \in Nodes : states[m] \in Satisfying => states'[m] \in Satisfying
           NoneNew == \A n \in Nodes :
                        n \in ready' \/ pc'[n] \in Executing \/ Failed(states'[n])
                          => n \in ready \/ pc[n] \in Executing \/ Failed(states[n])
<1>1. ASSUME Kept, NoneNew  PROVE NeedsKept'
  BY <1>1, NeedsOfKept DEF NeedsKept
<1>2. Pending \notin Satisfying /\ ~Failed(Pending)
  BY DEF Pending, Satisfying, Failed, FailedStates
<1>3. CASE Pass
  <2>1. Kept
    BY <1>2, <1>3 DEF Pass, Unclassified
  <2>2. ASSUME NEW n \in Nodes, n \in ready'  PROVE NeedsOf(n)
    BY <1>3, <2>2, ThroughNeeds DEF Pass, Dispatchable, Unclassified
  <2>3. ASSUME NEW n \in Nodes, Failed(states'[n])  PROVE Failed(states[n])
    BY <1>3, <2>3, <1>2 DEF Pass, SettledAs, Failed, FailedStates, skipPropagation
  <2>4. pc' = pc
    BY <1>3 DEF Pass
  <2>5. QED  BY <2>1, <2>2, <2>3, <2>4, NeedsOfKept DEF NeedsKept
<1>4. CASE \E n \in Nodes : ClaimSettled(n)
  BY <1>1, <1>4 DEF ClaimSettled
<1>5. CASE AppendSettled \/ Wake \/ PollNothing \/ Return \/ Branch
  BY <1>1, <1>5 DEF AppendSettled, Wake, PollNothing, Return, Branch
<1>6. CASE Dispatch
  BY <1>1, <1>6 DEF Dispatch
<1>7. CASE \E n \in Nodes : Goes(n)
  <2>1. PICK n \in Nodes : Goes(n)
    BY <1>7
  <2>2. PICK w \in Executing : pc' = [pc EXCEPT ![n] = w]
    BY <2>1, GoesInside
  <2>3. pc[n] \in Executing /\ UNCHANGED <<states, ready>>
    BY <2>1, GoesInside DEF claimVars
  <2>4. QED
    BY <1>1, <2>2, <2>3 DEF TypeOK, GoroutinesType
<1>8. ASSUME NEW n \in Nodes, Leave(n) \/ LeaveRetry(n)  PROVE NeedsKept'
  <2>1. n \in running /\ pc[n] \in Executing
    BY <1>8 DEF Leave, LeaveRetry, RunningClaim, Aborting, Executing, Places
  <2>2. states[n] = Pending /\ states' = [states EXCEPT ![n] = outcome[n]]
        /\ pc' = [pc EXCEPT ![n] = "idle"] /\ ready' = ready
    BY <1>8, <2>1 DEF Leave, LeaveRetry, RunningClaim
  <2>3. QED
    BY <1>1, <1>2, <2>1, <2>2 DEF TypeOK, GoroutinesType, OutcomesType, Executing
<1>9. ASSUME NEW n \in Nodes, AbortRetry(n)  PROVE NeedsKept'
  <2>1. n \in running /\ states[n] = Pending
    BY <1>9 DEF AbortRetry, RunningClaim, Aborting
  <2>2. states' = [states EXCEPT ![n] = "cancelled"]
        /\ pc' = [pc EXCEPT ![n] = "abort"] /\ ready' = ready
    BY <1>9 DEF AbortRetry
  <2>3. QED
    BY <1>1, <1>2, <2>1, <2>2
    DEF TypeOK, GoroutinesType, OutcomesType, Executing, Failed, FailedStates
<1>10. ASSUME NEW n \in Nodes,
              ClaimAborted(n) \/ ReportAborted(n) \/ LeaveAborted(n) \/ EndCapture(n)
       PROVE  NeedsKept'
  BY <1>1, <1>10 DEF ClaimAborted, ReportAborted, LeaveAborted, EndCapture, TypeOK,
     GoroutinesType, Executing
<1>11. CASE Serve
  <2> DEFINE n == request.step
  <2>1. ready' = ready /\ n \in Nodes
    BY <1>11, ServeClaims
  <2> HIDE DEF n
  <2>2. CASE handleStepRetry(n)
    <3>1. /\ Failed(states[n]) /\ pc' = [pc EXCEPT ![n] = "slot"]
          /\ states' = [m \in Nodes |-> IF m \in {n} THEN Pending ELSE states[m]]
      BY <2>2 DEF handleStepRetry, CanRetry, UnsettleAll, Launch
    <3>2. QED
      BY <1>1, <1>2, <2>1, <3>1
      DEF TypeOK, GoroutinesType, OutcomesType, Failed, FailedStates, Satisfying
  <2>3. CASE handleStepSkip(n)
    <3>1. /\ states[n] = Pending /\ pc' = pc
          /\ states' = [states EXCEPT ![n] = "skipped_manual"]
      BY <2>3 DEF handleStepSkip, CanSkip
    <3>2. QED
      BY <1>1, <1>2, <2>1, <3>1 DEF TypeOK, OutcomesType, Failed, FailedStates
  <2>4. CASE handleRerunFrom(n)
    <3> DEFINE C == dependentsClosure[n]
    <3>1. /\ ~ctxDone /\ C \cap running = {} /\ pc' = pc
          /\ states' = [m \in Nodes |-> IF m \in {k \in C : states[k] # Pending}
                                          THEN Pending ELSE states[m]]
      BY <2>4 DEF handleRerunFrom, CanRerun, UnsettleAll
    <3>2. ASSUME NEW m \in Nodes, m \in ready' \/ pc'[m] \in Executing \/ Failed(states'[m])
          PROVE  NeedsOf(m)'
      <4>1. m \notin C
        <5>1. CASE m \in ready \/ pc[m] \in Executing
          BY <5>1, <3>1 DEF RunningClaim, Executing, Aborting
        <5>2. CASE Failed(states'[m])
          BY <5>2, <3>1, <1>2
        <5>3. QED  BY <3>1, <3>2, <2>1, <5>1, <5>2
      <4>2. NeedsOf(m)
        BY <2>1, <3>1, <3>2, <4>1 DEF NeedsKept
      <4>3. \A k \in NeedSet(m) : k \in Nodes /\ k \notin C
        BY <2>1, <4>1, ClosureClosed, NeedsAreNodes
      <4>4. QED  BY <3>1, <4>2, <4>3 DEF NeedsOf
    <3>3. QED  BY <3>2 DEF NeedsKept
  <2>5. CASE handleWSSnapshot(n)
    BY <1>1, <2>1, <2>5 DEF handleWSSnapshot, Launch, TypeOK, GoroutinesType, Executing
  <2>6. CASE UNCHANGED <<states, pc>>
    BY <1>1, <2>1, <2>6
  <2>7. QED  BY <1>11, <2>2, <2>3, <2>4, <2>5, <2>6, ServeClaims DEF n
<1>12. CASE Aside
  BY <1>1, <1>12, AsideFrame DEF claimVars
<1>13. QED
  BY <1>3, <1>4, <1>5, <1>6, <1>7, <1>8, <1>9, <1>10, <1>11, <1>12
  DEF Next, LoopNext, StepNext, CommandNext, Goes, Aside

\* No control operation pulls an upstream from under a step that executes:
\* the needs that could block it stay settled in a satisfying state.
THEOREM UpstreamsHold == Spec => []NeedsHold
<1>1. Init => NeedsKept
  BY DEF Init, NeedsKept, Executing, Failed, FailedStates, Pending
<1>2. NeedsKept => NeedsHold
  BY DEF NeedsKept, NeedsHold, NeedsOf
<1>3. QED
  BY <1>1, <1>2, TypeCorrect, RunningSafe, NeedsStep, PTL DEF Spec

-----------------------------------------------------------------------------
(* One step.finished per execution.                                        *)

\* The loop holds claims only while it emits.
LoopClaims == settled # {} \/ emitting # Pending => loop = "emit"

\* A step that leaves n as it was.
Same(n) ==
  /\ states'[n] = states[n] /\ pc'[n] = pc[n] /\ outcome'[n] = outcome[n]
  /\ finished'[n] = finished[n] /\ finishes'[n] = finishes[n]
  /\ n \in settled' => n \in settled
  /\ emitting' = n => emitting = n

\* A node a step leaves alone stays claimed as it was.
LEMMA NodeUntouched ==
  ASSUME NEW n \in Nodes, NodeFinish(n), sealed => sealed', Same(n)
  PROVE  NodeFinish(n)'
BY DEF NodeFinish, Owes, sealed, Same

\* A step that touches one node.
LEMMA OneNodeTouched ==
  ASSUME FinishClaim, NEW n \in Nodes, NodeFinish(n)', \A m \in Nodes \ {n} : Same(m),
         LoopClaims', sealed => sealed'
  PROVE  FinishClaim'
<1>1. \A m \in Nodes : NodeFinish(m)'
  BY NodeUntouched DEF FinishClaim
<1>2. QED  BY <1>1 DEF FinishClaim, LoopClaims

\* Only settleAbandoned reports anything outside the loop and the steps.
LEMMA AsideFinish ==
  ASSUME TypeOK, Aside
  PROVE  /\ sealed => sealed'
         /\ \/ UNCHANGED <<finished, finishes>>
            \/ \E n \in Nodes : settleAbandoned(n)
<1> USE DEF sealed, ocVars, logVars, ledger, teardownVars
<1>1. CASE ReleaseRetry \/ SendRequest \/ RefuseFinished \/ Interrupt \/ Abandon
  BY <1>1 DEF ReleaseRetry, SendRequest, RefuseFinished, Interrupt, Abandon
<1>2. CASE TeardownNext
  <2>1. ASSUME NEW n \in Nodes, claimAlways(n) \/ StartAlways(n) \/ DropAlways(n) \/ FinishAlways(n)
        PROVE  UNCHANGED <<finished, finishes, teardown>>
    BY <2>1 DEF claimAlways, StartAlways, DropAlways, FinishAlways
  <2>2. ASSUME NEW n \in Nodes, settleAbandoned(n)  PROVE teardown' = teardown
    BY <2>2 DEF settleAbandoned
  <2>3. CASE ScheduleReturned \/ SettledAbandoned \/ ClaimedAlways \/ SpendBudget
             \/ AlwaysEnded \/ Seal
    BY <2>3 DEF ScheduleReturned, SettledAbandoned, ClaimedAlways, SpendBudget,
       AlwaysEnded, Seal
  <2>4. QED  BY <1>2, <2>1, <2>2, <2>3 DEF TeardownNext
<1>3. CASE Terminated \/ UNCHANGED vars
  BY <1>3 DEF Terminated, vars
<1>4. QED  BY <1>1, <1>2, <1>3 DEF Aside

\* Inside an execution the outcome is decided before it is published, and
\* only Settle and Report touch the claim and the ledger.
LEMMA GoesFinish ==
  ASSUME TypeOK, NEW n \in Nodes, NodeFinish(n), Goes(n), ~Settle(n), ~Report(n)
  PROVE  /\ UNCHANGED <<finished, finishes, teardown>>
         /\ \A m \in Nodes \ {n} : pc'[m] = pc[m] /\ outcome'[m] = outcome[m]
         /\ pc'[n] \in Decided => outcome'[n] # Pending
         /\ ~Owes(n)'
<1> USE DEF Decided, Pending, Owes, goto, GoFrame, ocVars, localVars, logVars, ledger, teardownVars,
            TypeOK, GoroutinesType, NodeFinish
<1>1. CASE EnterGroup(n)  BY <1>1 DEF EnterGroup
<1>2. CASE StartStep(n)  BY <1>2 DEF StartStep, BeginAttempt
<1>3. CASE CacheLookup(n)  BY <1>3 DEF CacheLookup, BeginAttempt
<1>4. CASE EndAttempt(n)
  <2>1. PICK s \in AttemptStates \cup {"cancelled"} : outcome' = [outcome EXCEPT ![n] = s]
    BY <1>4, PlanTypes DEF EndAttempt, AttemptStates, FailedStates
  <2>2. s # Pending
    BY DEF AttemptStates, FailedStates
  <2>3. PICK w \in {"held", "judge"} : pc' = [pc EXCEPT ![n] = w]
    BY <1>4 DEF EndAttempt
  <2>4. UNCHANGED <<finished, finishes, teardown>>
    BY <1>4 DEF EndAttempt
  <2>5. QED  BY <2>1, <2>2, <2>3, <2>4
<1>5. CASE EndHold(n)  BY <1>5 DEF EndHold
<1>6. CASE Judge(n)  BY <1>6 DEF Judge
<1>7. CASE EndBackoff(n)  BY <1>7 DEF EndBackoff
<1>8. CASE CancelRetry(n)  BY <1>8 DEF CancelRetry
<1>9. CASE NextAttempt(n)  BY <1>9 DEF NextAttempt, BeginAttempt
<1>10. CASE RunOnFailure(n)  BY <1>10 DEF RunOnFailure
<1>11. CASE AlwaysAtSettle(n)  BY <1>11 DEF AlwaysAtSettle
<1>12. CASE claimAlwaysAtSettle(n)  BY <1>12 DEF claimAlwaysAtSettle
<1>13. CASE EndAlways(n)  BY <1>13 DEF EndAlways
<1>14. CASE GiveBack(n)  BY <1>14 DEF GiveBack
<1>15. CASE StartRetry(n)  BY <1>15 DEF StartRetry, BeginAttempt
<1>16. CASE JudgeRetry(n)  BY <1>16 DEF JudgeRetry
<1>17. QED
  BY <1>1, <1>2, <1>3, <1>4, <1>5, <1>6, <1>7, <1>8, <1>9, <1>10, <1>11, <1>12,
     <1>13, <1>14, <1>15, <1>16 DEF Goes

\* A control handler runs with no claim of the loop outstanding, and only on
\* nodes without a goroutine.
LEMMA ServeFinish ==
  ASSUME TypeOK, RunningClaim, FinishClaim, Serve
  PROVE  FinishClaim'
<1> DEFINE n == request.step
<1>1. /\ loop \in {"idle", "poll"} /\ settled = {} /\ emitting = Pending
      /\ UNCHANGED <<settled, emitting, teardown>> /\ n \in Nodes
  BY ServeClaims DEF FinishClaim
<1> HIDE DEF n
<1>2. \A m \in Nodes : m \notin settled' /\ emitting' # m
  BY <1>1, PlanAssumption
<1>3. SUFFICES ASSUME NEW m \in Nodes
               PROVE  /\ pc'[m] \in Decided => outcome'[m] # Pending
                      /\ Owes(m)' => finished'[m] # Pending
                      /\ finishes'[m] \in {0, 1}
                      /\ ~sealed' /\ finishes'[m] = 1 => finished'[m] # Pending /\ ~Owes(m)'
  BY <1>1, <1>2, Zenon DEF FinishClaim, NodeFinish
<1>4. NodeFinish(m)
  BY DEF FinishClaim
<1>5. ~ctxDone => \A k \in Nodes : k \notin running => pc[k] = "idle"
  BY Zenon DEF RunningClaim
<1> USE DEF TypeOK, OutcomesType, GoroutinesType, LogType, NodeFinish, Owes, Decided, sealed
<1>6. CASE handleStepRetry(n)
  <2>1. /\ finished' = [k \in Nodes |-> IF k \in {n} THEN Pending ELSE finished[k]]
        /\ finishes' = [k \in Nodes |-> IF k \in {n} /\ ~sealed THEN 0 ELSE finishes[k]]
        /\ pc' = [pc EXCEPT ![n] = "slot"] /\ outcome' = outcome
    BY <1>6 DEF handleStepRetry, UnsettleAll, DropClaims, Launch, goto
  <2>2. QED  BY <1>1, <1>4, <2>1
<1>7. CASE handleStepSkip(n)
  <2>1. /\ ~ctxDone /\ n \notin running /\ finished[n] = Pending
        /\ finished' = [finished EXCEPT ![n] = "skipped_manual"]
        /\ finishes' = IF sealed THEN finishes ELSE [finishes EXCEPT ![n] = @ + 1]
        /\ pc' = pc /\ outcome' = outcome
    BY <1>7 DEF handleStepSkip, CanSkip, AppendFinished, goVars, localVars
  <2>2. pc[n] = "idle"
    BY <1>1, <1>5, <2>1
  <2>3. QED  BY <1>1, <1>4, <2>1, <2>2 DEF Pending
<1>8. CASE handleRerunFrom(n)
  <2> DEFINE S == {k \in dependentsClosure[n] : states[k] # Pending}
  <2>1. /\ S \subseteq Nodes /\ S \cap running = {} /\ ~ctxDone
        /\ finished' = [k \in Nodes |-> IF k \in S THEN Pending ELSE finished[k]]
        /\ finishes' = [k \in Nodes |-> IF k \in S /\ ~sealed THEN 0 ELSE finishes[k]]
        /\ pc' = pc /\ outcome' = outcome
    <3>1. S \subseteq Nodes
      BY <1>1 DEF dependentsClosure
    <3>2. QED
      BY <1>8, <3>1 DEF handleRerunFrom, CanRerun, UnsettleAll, DropClaims, localVars
  <2> HIDE DEF S
  <2>2. \A k \in S : pc[k] = "idle"
    BY <1>5, <2>1
  <2>3. QED  BY <1>1, <1>4, <2>1, <2>2
<1>9. CASE handleWSSnapshot(n)
  <2>1. /\ pc' = [pc EXCEPT ![n] = "capture"]
        /\ UNCHANGED <<finished, finishes, outcome>>
    BY <1>9 DEF handleWSSnapshot, Launch, goto, localVars, ledger
  <2>2. QED  BY <1>1, <1>4, <2>1
<1>10. CASE UNCHANGED <<pc, finished, finishes, outcome>>
  BY <1>1, <1>4, <1>10
<1>11. QED
  BY <1>6, <1>7, <1>8, <1>9, <1>10, ServeClaims DEF n

\* Every action preserves the claim of finished.
LEMMA FinishStep ==
  ASSUME TypeOK, RunningClaim, FinishClaim, [Next]_vars
  PROVE  FinishClaim'
<1> USE DEF goto, GoFrame, loopVars, passVars, ocVars, goVars, localVars, logVars,
            ledger, teardownVars, sealed
<1>1. LoopClaims /\ \A n \in Nodes : NodeFinish(n)
  BY DEF FinishClaim, LoopClaims
<1>3. Pending \notin Nodes
  BY PlanAssumption
<1>4. CASE Pass
  <2>1. /\ emitting = Pending /\ UNCHANGED <<emitting, pc, outcome, finished, finishes, teardown>>
        /\ loop' = "emit"
        /\ \A n \in Nodes : states'[n] = IF n \in settled' THEN SettledAs(n) ELSE states[n]
        /\ \A n \in settled' : SettledAs(n) # Pending
    BY <1>1, <1>4 DEF Pass, LoopClaims
  <2>2. ASSUME NEW n \in Nodes  PROVE NodeFinish(n)'
    BY <1>1, <1>3, <2>1, <2>2 DEF NodeFinish, Owes
  <2>3. QED  BY <2>1, <2>2 DEF FinishClaim
<1>5. ASSUME NEW n \in Nodes, ClaimSettled(n)  PROVE FinishClaim'
  <2>1. NodeFinish(n) /\ states[n] # Pending /\ emitting # n
    BY <1>1, <1>3, <1>5 DEF ClaimSettled, NodeFinish
  <2>2. NodeFinish(n)'
    BY <1>5, <2>1 DEF ClaimSettled, Unclaimed, NodeFinish, Owes, TypeOK, OutcomesType
  <2>3. \A m \in Nodes \ {n} : Same(m)
    BY <1>3, <1>5 DEF Same, ClaimSettled, TypeOK, OutcomesType
  <2>4. LoopClaims' /\ (sealed => sealed')
    BY <1>1, <1>5 DEF LoopClaims, ClaimSettled
  <2>5. QED  BY <2>2, <2>3, <2>4, OneNodeTouched
<1>6. CASE AppendSettled
  <2>1. PICK n \in Nodes : n = emitting
    BY <1>6 DEF AppendSettled, TypeOK, LoopType
  <2>2. NodeFinish(n) /\ emitting' # n
    BY <1>1, <1>6, <2>1 DEF AppendSettled
  <2>3. NodeFinish(n)'
    BY <1>1, <1>6, <2>1, <2>2 DEF AppendSettled, AppendFinished, NodeFinish, Owes, TypeOK, LogType
  <2>4. \A m \in Nodes \ {n} : Same(m)
    BY <1>3, <1>6, <2>1 DEF Same, AppendSettled, AppendFinished, TypeOK, LogType
  <2>5. LoopClaims' /\ (sealed => sealed')
    BY <1>1, <1>6 DEF LoopClaims, AppendSettled
  <2>6. QED  BY <2>3, <2>4, <2>5, OneNodeTouched
<1>7. CASE Wake \/ PollNothing \/ Return \/ Branch \/ Dispatch
  <2>1. LoopClaims' /\ UNCHANGED <<settled, emitting, states, outcome, finished, finishes, teardown>>
    BY <1>1, <1>7 DEF LoopClaims, Wake, PollNothing, Return, Branch, Dispatch
  <2>2. ASSUME NEW n \in Nodes  PROVE NodeFinish(n)'
    <3>1. pc'[n] = pc[n] \/ pc'[n] \in {"group", "slot"}
      BY <1>7 DEF Wake, PollNothing, Return, Branch, Dispatch
    <3>2. QED  BY <1>1, <2>1, <3>1 DEF NodeFinish, Owes, Decided
  <2>3. QED  BY <2>1, <2>2 DEF FinishClaim, LoopClaims
<1>8. ASSUME NEW n \in Nodes, Settle(n)  PROVE FinishClaim'
  <2>1. NodeFinish(n)
    BY <1>1
  <2>2. NodeFinish(n)'
    BY <1>8, <2>1 DEF Settle, Unclaimed, NodeFinish, Owes, Decided, TypeOK, OutcomesType,
       GoroutinesType
  <2>3. \A m \in Nodes \ {n} : Same(m)
    BY <1>8 DEF Same, Settle, TypeOK, OutcomesType, GoroutinesType
  <2>4. LoopClaims' /\ (sealed => sealed')
    BY <1>1, <1>8 DEF LoopClaims, Settle
  <2>5. QED  BY <2>2, <2>3, <2>4, OneNodeTouched
<1>9. ASSUME NEW n \in Nodes, Report(n)  PROVE FinishClaim'
  <2>1. NodeFinish(n)
    BY <1>1
  <2>2. NodeFinish(n)'
    BY <1>9, <2>1 DEF Report, AppendFinished, NodeFinish, Owes, Decided, TypeOK, LogType,
       GoroutinesType
  <2>3. \A m \in Nodes \ {n} : Same(m)
    BY <1>9 DEF Same, Report, AppendFinished, TypeOK, LogType, GoroutinesType
  <2>4. LoopClaims' /\ (sealed => sealed')
    BY <1>1, <1>9 DEF LoopClaims, Report
  <2>5. QED  BY <2>2, <2>3, <2>4, OneNodeTouched
<1>10. ASSUME NEW n \in Nodes, Goes(n), ~Settle(n), ~Report(n)  PROVE FinishClaim'
  <2>1. UNCHANGED <<states, settled, emitting, loop>> /\ NodeFinish(n)
    BY <1>1, <1>10, GoesInside DEF claimVars
  <2>2. /\ UNCHANGED <<finished, finishes, teardown>>
        /\ \A m \in Nodes \ {n} : pc'[m] = pc[m] /\ outcome'[m] = outcome[m]
        /\ pc'[n] \in Decided => outcome'[n] # Pending
        /\ ~Owes(n)'
    BY <1>1, <1>10, GoesFinish
  <2>3. NodeFinish(n)'
    BY <2>1, <2>2, Zenon DEF NodeFinish
  <2>4. LoopClaims' /\ (sealed => sealed')
    BY <1>1, <2>1, <2>2 DEF LoopClaims
  <2>5. \A m \in Nodes \ {n} : Same(m)
    BY <2>1, <2>2 DEF Same
  <2>6. QED  BY <2>3, <2>4, <2>5, OneNodeTouched
<1>11. ASSUME NEW n \in Nodes, Leave(n) \/ LeaveRetry(n)  PROVE FinishClaim'
  <2>1. /\ NodeFinish(n) /\ outcome[n] # Pending
        /\ states' = [states EXCEPT ![n] = outcome[n]] /\ pc' = [pc EXCEPT ![n] = "idle"]
        /\ UNCHANGED <<settled, emitting, loop, outcome, finished, finishes, teardown>>
    BY <1>1, <1>11 DEF Leave, LeaveRetry, NodeFinish, Decided
  <2>2. NodeFinish(n)'
    BY <2>1 DEF NodeFinish, Owes, Decided, TypeOK, OutcomesType, GoroutinesType
  <2>3. \A m \in Nodes \ {n} : Same(m)
    BY <2>1 DEF Same, TypeOK, OutcomesType, GoroutinesType
  <2>4. LoopClaims' /\ (sealed => sealed')
    BY <1>1, <2>1 DEF LoopClaims
  <2>5. QED  BY <2>2, <2>3, <2>4, OneNodeTouched
<1>12. ASSUME NEW n \in Nodes, AbortRetry(n)  PROVE FinishClaim'
  <2>1. /\ NodeFinish(n)
        /\ states' = [states EXCEPT ![n] = "cancelled"] /\ pc' = [pc EXCEPT ![n] = "abort"]
        /\ pc[n] = "slot"
        /\ UNCHANGED <<settled, emitting, loop, outcome, finished, finishes, teardown>>
    BY <1>1, <1>12 DEF AbortRetry
  <2>2. NodeFinish(n)'
    BY <2>1 DEF NodeFinish, Owes, Decided, TypeOK, OutcomesType, GoroutinesType, Pending
  <2>3. \A m \in Nodes \ {n} : Same(m)
    BY <2>1 DEF Same, TypeOK, OutcomesType, GoroutinesType
  <2>4. LoopClaims' /\ (sealed => sealed')
    BY <1>1, <2>1 DEF LoopClaims
  <2>5. QED  BY <2>2, <2>3, <2>4, OneNodeTouched
<1>13. ASSUME NEW n \in Nodes, ClaimAborted(n)  PROVE FinishClaim'
  <2>1. NodeFinish(n)
    BY <1>1
  <2>2. NodeFinish(n)'
    BY <1>13, <2>1 DEF ClaimAborted, Unclaimed, NodeFinish, Owes, Decided, Pending, TypeOK,
       OutcomesType, GoroutinesType
  <2>3. \A m \in Nodes \ {n} : Same(m)
    BY <1>13 DEF Same, ClaimAborted, TypeOK, OutcomesType, GoroutinesType
  <2>4. LoopClaims' /\ (sealed => sealed')
    BY <1>1, <1>13 DEF LoopClaims, ClaimAborted
  <2>5. QED  BY <2>2, <2>3, <2>4, OneNodeTouched
<1>14. ASSUME NEW n \in Nodes, ReportAborted(n)  PROVE FinishClaim'
  <2>1. NodeFinish(n)
    BY <1>1
  <2>2. NodeFinish(n)'
    BY <1>14, <2>1 DEF ReportAborted, AppendFinished, NodeFinish, Owes, Decided, TypeOK,
       LogType, GoroutinesType
  <2>3. \A m \in Nodes \ {n} : Same(m)
    BY <1>14 DEF Same, ReportAborted, AppendFinished, TypeOK, LogType, GoroutinesType
  <2>4. LoopClaims' /\ (sealed => sealed')
    BY <1>1, <1>14 DEF LoopClaims, ReportAborted
  <2>5. QED  BY <2>2, <2>3, <2>4, OneNodeTouched
<1>15. ASSUME NEW n \in Nodes, LeaveAborted(n) \/ EndCapture(n)  PROVE FinishClaim'
  <2>1. /\ NodeFinish(n) /\ pc' = [pc EXCEPT ![n] = "idle"]
        /\ UNCHANGED <<settled, emitting, loop, states, outcome, finished, finishes, teardown>>
    BY <1>1, <1>15 DEF LeaveAborted, EndCapture
  <2>2. NodeFinish(n)'
    BY <2>1 DEF NodeFinish, Owes, Decided, TypeOK, GoroutinesType
  <2>3. \A m \in Nodes \ {n} : Same(m)
    BY <2>1 DEF Same, TypeOK, GoroutinesType
  <2>4. LoopClaims' /\ (sealed => sealed')
    BY <1>1, <2>1 DEF LoopClaims
  <2>5. QED  BY <2>2, <2>3, <2>4, OneNodeTouched
<1>16. CASE Serve  BY <1>16, ServeFinish
<1>17. CASE Aside
  <2>1. /\ UNCHANGED <<settled, emitting, loop, states, pc, outcome>> /\ (sealed => sealed')
        /\ \/ UNCHANGED <<finished, finishes>>
           \/ \E n \in Nodes : settleAbandoned(n)
    BY <1>17, AsideFrame, AsideFinish DEF claimVars
  <2>2. CASE UNCHANGED <<finished, finishes>>
    BY <1>1, <2>1, <2>2, NodeUntouched DEF FinishClaim, LoopClaims, Same
  <2>3. ASSUME NEW n \in Nodes, settleAbandoned(n)  PROVE FinishClaim'
    <3>1. NodeFinish(n)
      BY <1>1
    <3>2. NodeFinish(n)'
      BY <2>1, <2>3, <3>1 DEF settleAbandoned, AppendFinished, Unclaimed, NodeFinish, Owes,
         Pending, TypeOK, OutcomesType, LogType
    <3>3. \A m \in Nodes \ {n} : Same(m)
      BY <2>1, <2>3 DEF Same, settleAbandoned, AppendFinished, TypeOK, OutcomesType, LogType
    <3>4. LoopClaims' /\ (sealed => sealed')
      BY <1>1, <2>1 DEF LoopClaims
    <3>5. QED  BY <3>2, <3>3, <3>4, OneNodeTouched
  <2>4. QED  BY <2>1, <2>2, <2>3
<1>18. QED
  BY <1>4, <1>5, <1>6, <1>7, <1>8, <1>9, <1>10, <1>11, <1>12, <1>13, <1>14, <1>15,
     <1>16, <1>17 DEF Next, LoopNext, StepNext, CommandNext, Goes, Aside

\* The claim of finished holds throughout a run.
THEOREM FinishSafe == Spec => []FinishClaim
<1>1. Init => FinishClaim
  BY PlanAssumption DEF Init, FinishClaim, NodeFinish, Owes, Decided
<1>2. QED
  BY <1>1, TypeCorrect, RunningSafe, FinishStep, PTL DEF Spec

\* One execution of a step never gets a second step.finished, whoever of the
\* loop, the step, a retry, step.skip and settleAbandoned gets there first.
THEOREM OneFinish == Spec => []OneFinishPerExecution
<1>1. FinishClaim => OneFinishPerExecution
  BY DEF FinishClaim, NodeFinish, OneFinishPerExecution
<1>2. QED  BY <1>1, FinishSafe, PTL

-----------------------------------------------------------------------------
(* Slots.                                                                  *)

\* Where a goroutine has no global slot, where it has one, and where only a
\* retry loop that was cancelled while it waited has none.
Slotless == {"idle", "group", "slot", "backoff", "regroup", "reslot", "leave",
             "abort", "abortreport", "aborted", "capture"}
Slotted == {"lookup", "attempt", "held", "judge", "claim", "cleanup", "conclude", "record"}
Closing == {"finish", "report", "onfailure", "always", "giveback"}

NodeSlot(n) ==
  /\ pc[n] \in Slotless => n \notin holding
  /\ pc[n] \in Slotted => n \in holding
  /\ pc[n] \in Closing => n \in holding \/ (task[n] = "step" /\ ctxDone /\ outcome[n] = "cancelled")
  /\ pc[n] \in {"group", "regroup", "backoff", "reslot", "lookup", "finish", "leave"} => task[n] = "step"
  /\ pc[n] \in {"group", "regroup"} => Limited(n)
  /\ pc[n] = "idle" => task[n] = "none"
  /\ pc[n] = "capture" => task[n] = "snapshot"
  /\ pc[n] \in Aborting => task[n] = "retry"

\* The group's slot is taken before the global one and given back after it.
Member(n) == task[n] = "step" /\ InGroup(n)

Members(g) == {n \in Nodes : Group[n] = g /\ task[n] = "step" /\ InGroup(n)}

GroupsKept ==
  \A g \in DOMAIN GroupLimit : IsFiniteSet(Members(g)) /\ groupSem[g] = Cardinality(Members(g))

GlobalKept ==
  /\ sem <= MaxParallel
  /\ IsFiniteSet(holding)
  /\ sem = Cardinality(holding) + lingering

NodesKept == \A n \in Nodes : NodeSlot(n)

-----------------------------------------------------------------------------
(* The global semaphore.                                                   *)

\* The select on the semaphore took a slot the goroutine did not have.
LEMMA SlotTaken ==
  ASSUME TypeOK, GlobalKept, NEW n \in Nodes, TakeSlot(n), n \notin holding, lingering' = lingering
  PROVE  GlobalKept'
<1>1. /\ IsFiniteSet(holding \cup {n})
      /\ Cardinality(holding \cup {n}) = Cardinality(holding) + 1
  BY FS_AddElement DEF GlobalKept
<1>2. Cardinality(holding) \in Nat
  BY FS_CardinalityType DEF GlobalKept
<1>3. QED
  BY <1>1, <1>2, OptionsAssumption DEF GlobalKept, TakeSlot, TypeOK, SemaphoresType

\* A slot given back at once, or left to a retry goroutine's deferred release.
LEMMA SlotReleased ==
  ASSUME TypeOK, GlobalKept, NEW n \in Nodes, n \in holding, holding' = holding \ {n},
         \/ sem' = sem - 1 /\ lingering' = lingering
         \/ sem' = sem /\ lingering' = lingering + 1
  PROVE  GlobalKept'
<1>1. /\ IsFiniteSet(holding \ {n})
      /\ Cardinality(holding \ {n}) = Cardinality(holding) - 1
  BY FS_RemoveElement DEF GlobalKept
<1>2. Cardinality(holding) \in Nat
  BY FS_CardinalityType DEF GlobalKept
<1>3. QED
  BY <1>1, <1>2, OptionsAssumption DEF GlobalKept, TypeOK, SemaphoresType

\* Nothing happened to the run's semaphore.
LEMMA GlobalUntouched ==
  ASSUME GlobalKept, UNCHANGED <<sem, holding, lingering>>
  PROVE  GlobalKept'
BY DEF GlobalKept

-----------------------------------------------------------------------------
(* The groups' semaphores.                                                 *)

\* No node of a limited group went in or out.
LEMMA GroupsUntouched ==
  ASSUME GroupsKept, groupSem' = groupSem, \A m \in Nodes : Limited(m) => (Member(m)' <=> Member(m))
  PROVE  GroupsKept'
<1>1. SUFFICES ASSUME NEW g \in DOMAIN GroupLimit  PROVE Members(g)' = Members(g)
  BY DEF GroupsKept
<1>2. QED  BY DEF Members, Member, Limited

\* permits took the group's slot.
LEMMA GroupEntered ==
  ASSUME TypeOK, GroupsKept, NEW n \in Nodes, Limited(n), ~Member(n), Member(n)',
         \A m \in Nodes \ {n} : Member(m)' <=> Member(m),
         groupSem' = [groupSem EXCEPT ![Group[n]] = @ + 1]
  PROVE  GroupsKept'
<1>1. SUFFICES ASSUME NEW g \in DOMAIN GroupLimit
               PROVE  IsFiniteSet(Members(g)') /\ groupSem'[g] = Cardinality(Members(g)')
  BY DEF GroupsKept
<1>2. IsFiniteSet(Members(g)) /\ groupSem[g] = Cardinality(Members(g))
  BY DEF GroupsKept
<1>3. CASE g # Group[n]
  <2>1. Members(g)' = Members(g)
    BY <1>3 DEF Members, Member
  <2>2. QED  BY <1>2, <1>3, <2>1 DEF TypeOK, SemaphoresType
<1>4. CASE g = Group[n]
  <2>1. Members(g)' = Members(g) \cup {n} /\ n \notin Members(g)
    BY <1>4 DEF Members, Member
  <2>2. /\ IsFiniteSet(Members(g) \cup {n})
        /\ Cardinality(Members(g) \cup {n}) = Cardinality(Members(g)) + 1
    BY <1>2, <2>1, FS_AddElement
  <2>3. QED  BY <1>2, <1>4, <2>1, <2>2 DEF TypeOK, SemaphoresType
<1>5. QED  BY <1>3, <1>4

\* The group's slot is given back.
LEMMA GroupLeft ==
  ASSUME TypeOK, GroupsKept, NEW n \in Nodes, Limited(n), Member(n), ~Member(n)',
         \A m \in Nodes \ {n} : Member(m)' <=> Member(m),
         groupSem' = [groupSem EXCEPT ![Group[n]] = @ - 1]
  PROVE  GroupsKept'
<1>1. SUFFICES ASSUME NEW g \in DOMAIN GroupLimit
               PROVE  IsFiniteSet(Members(g)') /\ groupSem'[g] = Cardinality(Members(g)')
  BY DEF GroupsKept
<1>2. IsFiniteSet(Members(g)) /\ groupSem[g] = Cardinality(Members(g))
  BY DEF GroupsKept
<1>3. CASE g # Group[n]
  <2>1. Members(g)' = Members(g)
    BY <1>3 DEF Members, Member
  <2>2. QED  BY <1>2, <1>3, <2>1 DEF TypeOK, SemaphoresType
<1>4. CASE g = Group[n]
  <2>1. Members(g)' = Members(g) \ {n} /\ n \in Members(g)
    BY <1>4 DEF Members, Member
  <2>2. /\ IsFiniteSet(Members(g) \ {n})
        /\ Cardinality(Members(g) \ {n}) = Cardinality(Members(g)) - 1
    BY <1>2, <2>1, FS_RemoveElement
  <2>3. QED  BY <1>2, <1>4, <2>1, <2>2 DEF TypeOK, SemaphoresType
<1>5. QED  BY <1>3, <1>4

-----------------------------------------------------------------------------
SlotsKept == GlobalKept /\ GroupsKept /\ NodesKept

SameSlot(m) ==
  /\ pc'[m] = pc[m] /\ task'[m] = task[m] /\ outcome'[m] = outcome[m]
  /\ m \in holding' <=> m \in holding

\* A goroutine a step leaves alone keeps its slots.
LEMMA SlotUntouched ==
  ASSUME NEW m \in Nodes, SameSlot(m)
  PROVE  /\ (ctxDone => ctxDone') /\ NodeSlot(m) => NodeSlot(m)'
         /\ Member(m)' <=> Member(m)
BY DEF SameSlot, NodeSlot, Member, InGroup, Limited

\* release gives back what the goroutine has: both slots or none.
LEMMA Released ==
  ASSUME TypeOK, SlotsKept, NEW n \in Nodes, Release(n), lingering' = lingering, task' = task,
         task[n] = "step", pc[n] \in Slotted \cup Closing, pc'[n] \in {"backoff", "leave"},
         \A m \in Nodes \ {n} : pc'[m] = pc[m] /\ outcome'[m] = outcome[m], ctxDone' = ctxDone
  PROVE  SlotsKept'
<1> USE DEF SlotsKept
<1>1. \A m \in Nodes \ {n} : SameSlot(m)
  BY DEF SameSlot, Release, HasSlot
<1>2. n \notin holding' /\ NodeSlot(n)' /\ ~Member(n)'
  BY DEF Release, HasSlot, NodeSlot, Member, InGroup, Slotless, Slotted, Closing, Aborting, Limited
<1>3. NodesKept'
  BY <1>1, <1>2, SlotUntouched DEF NodesKept
<1>4. CASE n \in holding
  <2>1. GlobalKept'
    BY <1>4, SlotReleased DEF Release, HasSlot
  <2>2. GroupsKept'
    <3>1. CASE Limited(n)
      BY <1>1, <1>2, <1>4, <3>1, SlotUntouched, GroupLeft DEF Release, HasSlot, Member, InGroup
    <3>2. CASE ~Limited(n)
      BY <1>1, <1>4, <3>2, SlotUntouched, GroupsUntouched DEF Release, HasSlot
    <3>3. QED  BY <3>1, <3>2
  <2>3. QED  BY <1>3, <2>1, <2>2
<1>5. CASE n \notin holding
  <2>1. GlobalKept'
    BY <1>5, GlobalUntouched DEF Release, HasSlot
  <2>2. ~Member(n)
    BY <1>5 DEF Member, InGroup, Slotted, Closing
  <2>3. QED
    BY <1>1, <1>2, <1>3, <1>5, <2>1, <2>2, SlotUntouched, GroupsUntouched DEF Release, HasSlot
<1>6. QED  BY <1>4, <1>5

\* A step that moves one goroutine and no semaphore.
LEMMA Moved ==
  ASSUME TypeOK, SlotsKept, NEW n \in Nodes, UNCHANGED semVars, \A m \in Nodes \ {n} : SameSlot(m),
         NodeSlot(n)', Limited(n) => (Member(n)' <=> Member(n)), ctxDone => ctxDone'
  PROVE  SlotsKept'
<1>1. NodesKept'
  BY SlotUntouched DEF SlotsKept, NodesKept
<1>2. GlobalKept'
  BY GlobalUntouched DEF SlotsKept, semVars
<1>3. GroupsKept'
  BY SlotUntouched, GroupsUntouched DEF SlotsKept, semVars
<1>4. QED  BY <1>1, <1>2, <1>3 DEF SlotsKept

\* A step that takes the global slot: the group's is the goroutine's already.
LEMMA Took ==
  ASSUME TypeOK, SlotsKept, NEW n \in Nodes, TakeSlot(n), UNCHANGED <<task, lingering, groupSem>>,
         pc[n] \in {"slot", "reslot"}, pc'[n] \in Slotted,
         \A m \in Nodes \ {n} : pc'[m] = pc[m] /\ outcome'[m] = outcome[m], ctxDone' = ctxDone,
         pc'[n] = "lookup" => task[n] = "step"
  PROVE  SlotsKept'
<1>1. n \notin holding /\ n \in holding'
  BY DEF SlotsKept, NodesKept, NodeSlot, Slotless, TakeSlot
<1>2. GlobalKept'
  BY <1>1, SlotTaken DEF SlotsKept
<1>3. \A m \in Nodes \ {n} : SameSlot(m)
  BY DEF SameSlot, TakeSlot
<1>4. Member(n)' <=> Member(n)
  BY <1>1 DEF Member, InGroup
<1>5. NodeSlot(n)'
  BY <1>1 DEF NodeSlot, Slotted, Slotless, Closing, Aborting
<1>6. NodesKept'
  BY <1>3, <1>5, SlotUntouched DEF SlotsKept, NodesKept
<1>7. GroupsKept'
  BY <1>3, <1>4, SlotUntouched, GroupsUntouched DEF SlotsKept
<1>8. QED  BY <1>2, <1>6, <1>7 DEF SlotsKept

\* The goroutine of a step.
LEMMA GoesSlots ==
  ASSUME TypeOK, RunningClaim, SlotsKept, NEW n \in Nodes, Goes(n)
  PROVE  SlotsKept'
<1> USE DEF goto, GoFrame, localVars, TypeOK, GoroutinesType
<1>1. NodeSlot(n)
  BY DEF SlotsKept, NodesKept
<1> DEFINE Moves == /\ UNCHANGED semVars /\ \A m \in Nodes \ {n} : SameSlot(m)
                    /\ NodeSlot(n)' /\ (Limited(n) => (Member(n)' <=> Member(n)))
<1>2. ctxDone' = ctxDone
  BY GoesInside
<1>3. Moves => SlotsKept'
  BY <1>2, Moved
<1>4. CASE EnterGroup(n)
  <2>1. pc[n] \in {"group", "regroup"} /\ task[n] = "step" /\ Limited(n) /\ n \notin holding
    BY <1>1, <1>4 DEF EnterGroup, NodeSlot, Slotless
  <2>2. /\ pc'[n] \in {"slot", "reslot"} /\ UNCHANGED <<task, holding, sem, lingering, outcome>>
        /\ \A m \in Nodes \ {n} : pc'[m] = pc[m]
    BY <1>4 DEF EnterGroup
  <2>3. \A m \in Nodes \ {n} : SameSlot(m)
    BY <2>2 DEF SameSlot
  <2>4. NodeSlot(n)' /\ ~Member(n) /\ Member(n)'
    BY <2>1, <2>2 DEF NodeSlot, Slotless, Slotted, Closing, Aborting, Member, InGroup
  <2>5. GroupsKept'
    BY <1>4, <2>1, <2>3, <2>4, SlotUntouched, GroupEntered DEF EnterGroup, SlotsKept
  <2>6. NodesKept'
    BY <1>2, <2>3, <2>4, SlotUntouched DEF SlotsKept, NodesKept
  <2>7. QED  BY <2>2, <2>5, <2>6, GlobalUntouched DEF SlotsKept
<1>5. CASE StartStep(n)
  <2>1. /\ TakeSlot(n) /\ pc[n] = "slot" /\ task[n] = "step" /\ UNCHANGED <<task, lingering, groupSem>>
        /\ pc'[n] \in {"conclude", "attempt", "lookup"}
        /\ \A m \in Nodes \ {n} : pc'[m] = pc[m] /\ outcome'[m] = outcome[m]
    BY <1>5 DEF StartStep
  <2>2. QED  BY <1>2, <2>1, Took DEF Slotted
<1>6. CASE NextAttempt(n) \/ StartRetry(n)
  <2>1. /\ TakeSlot(n) /\ pc[n] \in {"slot", "reslot"} /\ UNCHANGED <<task, lingering, groupSem>>
        /\ pc'[n] = "attempt"
        /\ \A m \in Nodes \ {n} : pc'[m] = pc[m] /\ outcome'[m] = outcome[m]
    BY <1>6 DEF NextAttempt, StartRetry
  <2>2. QED  BY <1>2, <2>1, Took DEF Slotted
<1>7. CASE Judge(n)
  <2>1. /\ pc[n] = "judge" /\ task[n] = "step" /\ n \in holding
        /\ UNCHANGED <<task, lingering>>
        /\ \A m \in Nodes \ {n} : pc'[m] = pc[m] /\ outcome'[m] = outcome[m]
    BY <1>1, <1>7 DEF Judge, NodeSlot, Slotted
  <2>2. CASE pc'[n] = "finish" /\ UNCHANGED <<sem, holding, groupSem>>
    <3>1. Moves
      BY <2>1, <2>2 DEF semVars, SameSlot, NodeSlot, Slotless, Slotted, Closing, Aborting, Member, InGroup
    <3>2. QED  BY <1>3, <3>1
  <2>3. CASE pc'[n] = "backoff" /\ Release(n)
    BY <1>2, <2>1, <2>3, Released DEF Slotted
  <2>4. QED  BY <1>7, <2>2, <2>3 DEF Judge
<1>8. CASE GiveBack(n)
  BY <1>2, <1>8, Released DEF GiveBack, Closing
<1>9. CASE CancelRetry(n)
  <2>1. /\ pc[n] \in {"backoff", "regroup", "reslot"} /\ ctxDone /\ task[n] = "step" /\ n \notin holding
        /\ UNCHANGED <<task, sem, holding, lingering>> /\ pc'[n] = "finish" /\ outcome'[n] = "cancelled"
        /\ \A m \in Nodes \ {n} : pc'[m] = pc[m] /\ outcome'[m] = outcome[m]
    BY <1>1, <1>9 DEF CancelRetry, NodeSlot, Slotless
  <2>2. (\A m \in Nodes \ {n} : SameSlot(m)) /\ NodeSlot(n)' /\ ~Member(n)'
    BY <1>2, <2>1 DEF SameSlot, NodeSlot, Slotless, Slotted, Closing, Aborting, Member, InGroup
  <2>3. NodesKept'
    BY <1>2, <2>2, SlotUntouched DEF SlotsKept, NodesKept
  <2>4. GroupsKept'
    <3>1. CASE pc[n] = "reslot" /\ Limited(n)
      BY <1>9, <2>1, <2>2, <3>1, SlotUntouched, GroupLeft DEF CancelRetry, SlotsKept, Member, InGroup
    <3>2. CASE ~(pc[n] = "reslot" /\ Limited(n))
      <4>1. Limited(n) => ~Member(n)
        BY <2>1, <3>2 DEF Member, InGroup
      <4>2. QED
        BY <1>9, <2>2, <3>2, <4>1, SlotUntouched, GroupsUntouched DEF CancelRetry, SlotsKept
    <3>3. QED  BY <3>1, <3>2
  <2>5. QED  BY <2>1, <2>3, <2>4, GlobalUntouched DEF SlotsKept
<1>10. CASE EndBackoff(n)
  <2>1. Moves
    BY <1>1, <1>10 DEF EndBackoff, semVars, SameSlot, NodeSlot, Slotless, Slotted, Closing, Aborting, Member,
       InGroup, Limited
  <2>2. QED  BY <1>3, <2>1
<1>11. CASE CacheLookup(n) \/ EndHold(n) \/ JudgeRetry(n) \/ RunOnFailure(n) \/ EndAlways(n)
  <2>1. Moves
    BY <1>1, <1>2, <1>11 DEF CacheLookup, EndHold, JudgeRetry, RunOnFailure, EndAlways, semVars, SameSlot,
       NodeSlot, Slotless, Slotted, Closing, Aborting, Member, InGroup
  <2>2. QED  BY <1>3, <2>1
<1>12. CASE EndAttempt(n)
  <2>1. /\ pc[n] = "attempt" /\ pc'[n] \in {"held", "judge"} /\ UNCHANGED <<semVars, task>>
        /\ \A m \in Nodes \ {n} : pc'[m] = pc[m] /\ outcome'[m] = outcome[m]
    BY <1>12 DEF EndAttempt
  <2>2. Moves
    BY <1>1, <2>1 DEF semVars, SameSlot, NodeSlot, Slotless, Slotted, Closing, Aborting, Member, InGroup
  <2>3. QED  BY <1>3, <2>2
<1>13. CASE Settle(n) \/ Report(n) \/ AlwaysAtSettle(n) \/ claimAlwaysAtSettle(n)
  <2>1. Moves
    BY <1>1, <1>2, <1>13 DEF Settle, Report, AlwaysAtSettle, claimAlwaysAtSettle, semVars, SameSlot,
       NodeSlot, Slotless, Slotted, Closing, Aborting, Member, InGroup
  <2>2. QED  BY <1>3, <2>1
<1>14. QED
  BY <1>4, <1>5, <1>6, <1>7, <1>8, <1>9, <1>10, <1>11, <1>12, <1>13 DEF Goes

\* A control handler launches goroutines without a slot, on idle nodes.
LEMMA ServeSlots ==
  ASSUME TypeOK, RunningClaim, SlotsKept, Serve
  PROVE  SlotsKept'
<1>1. request.step \in Nodes /\ UNCHANGED semVars
  BY ServeClaims DEF Serve
<1> PICK n \in Nodes : n = request.step
  BY <1>1
<1>2. NodeSlot(n)
  BY DEF SlotsKept, NodesKept
<1>3. ~ctxDone => \A k \in Nodes : k \notin running => pc[k] = "idle"
  BY Zenon DEF RunningClaim
<1>4. CASE handleStepRetry(n) \/ handleWSSnapshot(n)
  <2>1. /\ ~ctxDone /\ ctxDone' = ctxDone /\ n \notin running /\ outcome' = outcome
        /\ \/ pc' = [pc EXCEPT ![n] = "slot"] /\ task' = [task EXCEPT ![n] = "retry"]
           \/ pc' = [pc EXCEPT ![n] = "capture"] /\ task' = [task EXCEPT ![n] = "snapshot"]
    BY <1>4 DEF handleStepRetry, handleWSSnapshot, CanRetry, CanSkip, Launch, goto, localVars
  <2>2. pc[n] = "idle" /\ n \notin holding /\ task[n] = "none"
    BY <1>2, <1>3, <2>1 DEF NodeSlot, Slotless
  <2>3. /\ NodeSlot(n)' /\ (Member(n)' <=> Member(n)) /\ \A m \in Nodes \ {n} : SameSlot(m)
    BY <1>1, <2>1, <2>2 DEF NodeSlot, Slotless, Slotted, Closing, Aborting, Member, InGroup, SameSlot, semVars,
       TypeOK, GoroutinesType
  <2>4. QED  BY <1>1, <2>1, <2>3, Moved
<1>5. CASE UNCHANGED <<pc, task, outcome>> /\ (ctxDone => ctxDone')
  <2>1. \A m \in Nodes : SameSlot(m)
    BY <1>1, <1>5 DEF SameSlot, semVars
  <2>2. QED  BY <1>1, <1>2, <1>5, <2>1, Moved, SlotUntouched
<1>6. CASE \/ handleRunCancel \/ refuse(request) \/ handleStepSkip(n) \/ handleRerunFrom(n)
           \/ \E op \in {"run.pause", "run.resume"} : handleRunPause(op)
           \/ \E op \in {"breakpoint.set", "breakpoint.clear"} : handleBreakpoint(request.step, op)
  BY <1>5, <1>6 DEF handleRunCancel, refuse, handleRunPause, handleBreakpoint, handleStepSkip,
     handleRerunFrom, goVars, localVars
<1>7. QED
  BY <1>4, <1>6 DEF Serve, serveControl

\* A step of teardown or a client, and no slot.
LEMMA AsideSlots ==
  ASSUME Aside, ~ReleaseRetry
  PROVE  UNCHANGED <<pc, task, outcome, semVars>>
<1> USE DEF goVars, localVars, semVars, TeardownFrame
<1>1. CASE SendRequest \/ RefuseFinished \/ Interrupt \/ Abandon
  BY <1>1 DEF SendRequest, RefuseFinished, Interrupt, Abandon
<1>2. CASE TeardownNext
  BY <1>2 DEF TeardownNext, ScheduleReturned, settleAbandoned, claimAlways, StartAlways,
     DropAlways, FinishAlways, SettledAbandoned, ClaimedAlways, SpendBudget, AlwaysEnded, Seal
<1>3. CASE Terminated \/ UNCHANGED vars
  BY <1>3 DEF Terminated, vars
<1>4. QED  BY <1>1, <1>2, <1>3 DEF Aside

\* Every action keeps the semaphores.
LEMMA SlotStep ==
  ASSUME TypeOK, RunningClaim, SlotsKept, [Next]_vars
  PROVE  SlotsKept'
<1> USE DEF goto, GoFrame, goVars, localVars, TypeOK, GoroutinesType
<1>1. ASSUME UNCHANGED <<pc, task, outcome, semVars>>, ctxDone => ctxDone'
      PROVE  SlotsKept'
  <2>1. \A m \in Nodes : SameSlot(m)
    BY <1>1 DEF SameSlot, semVars
  <2>2. NodesKept'
    BY <1>1, <2>1, SlotUntouched DEF SlotsKept, NodesKept
  <2>3. QED
    BY <1>1, <2>1, <2>2, SlotUntouched, GroupsUntouched, GlobalUntouched DEF SlotsKept, semVars
<1>2. CASE Pass \/ AppendSettled \/ Branch \/ Wake \/ PollNothing \/ Return
  BY <1>1, <1>2 DEF Pass, AppendSettled, Branch, Wake, PollNothing, Return
<1>3. ASSUME NEW n \in Nodes, ClaimSettled(n)  PROVE SlotsKept'
  BY <1>1, <1>3 DEF ClaimSettled
<1>4. CASE Dispatch
  <2>1. UNCHANGED <<semVars, outcome, ctxDone>>
    BY <1>4 DEF Dispatch
  <2>2. ASSUME NEW n \in Nodes
        PROVE  NodeSlot(n)' /\ (Limited(n) => (Member(n)' <=> Member(n)))
    <3>1. NodeSlot(n)
      BY DEF SlotsKept, NodesKept
    <3>2. CASE n \notin ready
      <4>1. SameSlot(n)
        BY <1>4, <2>1, <3>2 DEF Dispatch, SameSlot, semVars
      <4>2. QED  BY <2>1, <3>1, <4>1, SlotUntouched
    <3>3. CASE n \in ready
      <4>1. /\ pc[n] = "idle" /\ task'[n] = "step"
            /\ pc'[n] = IF Limited(n) THEN "group" ELSE "slot"
        BY <1>4, <3>3 DEF Dispatch, RunningClaim
      <4>2. QED
        BY <2>1, <3>1, <4>1 DEF NodeSlot, Slotless, Slotted, Closing, Aborting, Member, InGroup, semVars, Limited
    <3>4. QED  BY <3>2, <3>3
  <2>3. QED
    BY <2>1, <2>2, GroupsUntouched, GlobalUntouched DEF SlotsKept, NodesKept, semVars
<1>5. ASSUME NEW n \in Nodes, Goes(n)  PROVE SlotsKept'
  BY <1>5, GoesSlots
<1>6. ASSUME NEW n \in Nodes, \/ Leave(n) \/ AbortRetry(n) \/ ReportAborted(n)
                              \/ LeaveAborted(n) \/ EndCapture(n) \/ ClaimAborted(n)
      PROVE  SlotsKept'
  <2>1. NodeSlot(n)
    BY DEF SlotsKept, NodesKept
  <2>2. /\ UNCHANGED <<semVars, outcome, ctxDone>>
        /\ \A m \in Nodes \ {n} : pc'[m] = pc[m] /\ task'[m] = task[m]
        /\ pc[n] \in {"leave", "slot", "abortreport", "aborted", "capture", "abort"}
        /\ pc[n] = "slot" => task[n] = "retry"
        /\ \/ pc'[n] = "idle" /\ task'[n] = "none"
           \/ pc'[n] \in Aborting /\ task'[n] = task[n] /\ pc[n] \in {"slot", "abort", "abortreport"}
    BY <1>6 DEF Leave, AbortRetry, ReportAborted, LeaveAborted, EndCapture, ClaimAborted, Aborting
  <2>3. n \notin holding /\ ~Member(n)
    BY <2>1, <2>2 DEF NodeSlot, Slotless, Member, InGroup
  <2>4. NodeSlot(n)' /\ ~Member(n)'
    BY <2>1, <2>2, <2>3 DEF NodeSlot, Slotless, Slotted, Closing, Aborting, Member, InGroup, semVars
  <2>5. \A m \in Nodes \ {n} : SameSlot(m)
    BY <2>2 DEF SameSlot, semVars
  <2>6. QED  BY <2>2, <2>3, <2>4, <2>5, Moved
<1>7. ASSUME NEW n \in Nodes, LeaveRetry(n)  PROVE SlotsKept'
  <2>1. n \in holding /\ task[n] = "retry"
    BY <1>7 DEF LeaveRetry, SlotsKept, NodesKept, NodeSlot, Closing
  <2>2. GlobalKept'
    BY <1>7, <2>1, SlotReleased DEF LeaveRetry, SlotsKept
  <2>3. \A m \in Nodes \ {n} : SameSlot(m)
    BY <1>7 DEF LeaveRetry, SameSlot
  <2>4. NodeSlot(n)' /\ ~Member(n) /\ ~Member(n)'
    BY <1>7, <2>1 DEF LeaveRetry, NodeSlot, Slotless, Slotted, Closing, Aborting, Member
  <2>5. NodesKept'
    BY <1>7, <2>3, <2>4, SlotUntouched DEF SlotsKept, NodesKept, LeaveRetry
  <2>6. GroupsKept'
    BY <1>7, <2>3, <2>4, SlotUntouched, GroupsUntouched DEF SlotsKept, LeaveRetry
  <2>7. QED  BY <2>2, <2>5, <2>6 DEF SlotsKept
<1>8. CASE ReleaseRetry
  <2>1. UNCHANGED <<pc, task, outcome, holding, groupSem, ctxDone>>
    BY <1>8 DEF ReleaseRetry
  <2>2. \A m \in Nodes : SameSlot(m)
    BY <2>1 DEF SameSlot
  <2>3. GlobalKept'
    BY <1>8, <2>1, OptionsAssumption, FS_CardinalityType DEF ReleaseRetry, SlotsKept, GlobalKept, SemaphoresType
  <2>4. QED
    BY <2>1, <2>2, <2>3, SlotUntouched, GroupsUntouched DEF SlotsKept, NodesKept
<1>9. CASE Serve  BY <1>9, ServeSlots
<1>10. CASE Aside /\ ~ReleaseRetry
  BY <1>1, <1>10, AsideSlots, AsideFrame
<1>11. QED
  BY <1>2, <1>3, <1>4, <1>5, <1>6, <1>7, <1>8, <1>9, <1>10
  DEF Next, LoopNext, StepNext, CommandNext, Goes, Aside

\* The semaphores are kept throughout a run.
THEOREM SlotsSafe == Spec => []SlotsKept
<1>1. ASSUME Init  PROVE SlotsKept
  <2>1. GlobalKept
    BY <1>1, FS_EmptySet, OptionsAssumption DEF Init, GlobalKept
  <2>2. \A g \in DOMAIN GroupLimit : Members(g) = {}
    BY <1>1 DEF Init, Members
  <2>3. GroupsKept
    BY <1>1, <2>2, FS_EmptySet DEF Init, GroupsKept
  <2>4. NodesKept
    BY <1>1 DEF Init, NodesKept, NodeSlot, Slotted, Closing, Aborting
  <2>5. QED  BY <2>1, <2>3, <2>4 DEF SlotsKept
<1>2. QED
  BY <1>1, TypeCorrect, RunningSafe, SlotStep, PTL DEF Spec

\* No slot is leaked or given back twice by release, a cancelled backoff, an
\* aborted retry or a retry that lingers: the run's and the groups' semaphores
\* hold exactly what the goroutines still have, and never more than
\* MaxParallel steps work at once.
THEOREM SlotsAreAccounted == Spec => []SlotsAccounted
<1>1. ASSUME TypeOK, SlotsKept  PROVE SlotsAccounted
  <2>1. /\ sem = Cardinality(holding) + lingering
        /\ \A g \in DOMAIN GroupLimit :
             groupSem[g] = Cardinality({n \in Nodes : Group[n] = g /\ task[n] = "step" /\ InGroup(n)})
    BY <1>1 DEF SlotsKept, GlobalKept, GroupsKept, Members
  <2> DEFINE Busy == {n \in Nodes : pc[n] \in Working /\ (pc[n] = "onfailure" => Failed(outcome[n]))}
  <2>2. Busy \subseteq holding
    BY <1>1 DEF SlotsKept, NodesKept, NodeSlot, Working, Slotted, Closing, Failed, FailedStates
  <2>3. IsFiniteSet(holding) /\ Cardinality(holding) \in Nat /\ lingering \in Nat
    BY <1>1, FS_CardinalityType DEF SlotsKept, GlobalKept, TypeOK, SemaphoresType
  <2>4. Cardinality(Busy) <= Cardinality(holding) /\ Cardinality(Busy) \in Nat
    BY <2>2, <2>3, FS_Subset, FS_CardinalityType
  <2>5. Cardinality(Busy) <= MaxParallel
    BY <1>1, <2>1, <2>3, <2>4, OptionsAssumption DEF SlotsKept, GlobalKept, TypeOK, SemaphoresType
  <2>6. QED  BY <2>1, <2>5 DEF SlotsAccounted, BoundedWork
<1>2. QED
  BY <1>1, TypeCorrect, SlotsSafe, PTL

-----------------------------------------------------------------------------
(* Cleanups.                                                               *)

\* The claim of alwaysRun.
CleanupClaim ==
  /\ teardown # "waiting" => ctxDone \/ LoopOver
  /\ teardown = "waiting" => pendingAlways = {}
  /\ pendingAlways \subseteq alwaysRun
  /\ \A n \in Nodes :
       /\ cleanups[n] \in {0, 1}
       /\ n \notin alwaysRun \/ n \in pendingAlways => cleanups[n] = 0
       /\ n \in alwaysRun => cleanups[n] = 1 \/ n \in pendingAlways \/ budgetSpent

\* Teardown claims what no step claimed, and accounts for what it gives up.
CleanupComplete ==
  /\ budgetSpent => teardown \in {"always", "cleanup", "sealed"}
  /\ teardown = "claiming" => Always \subseteq alwaysRun \cup todo
  /\ teardown \in {"always", "cleanup", "sealed"} => Always \subseteq alwaysRun
  /\ teardown \in {"cleanup", "sealed"} => pendingAlways = {} /\ (budgetSpent => cleanupLost)
  /\ sealed /\ alwaysInFlight > 0 => cleanupLost
  /\ \A n \in Nodes : pc[n] = "claim" => n \in Always

cleanupVars == <<alwaysRun, alwaysInFlight, cleanups, teardownVars>>

-----------------------------------------------------------------------------
\* Goroutines that do not touch their Always handlers.
Elsewhere(n) ==
  \/ EnterGroup(n) \/ StartStep(n) \/ CacheLookup(n) \/ EndAttempt(n) \/ EndHold(n)
  \/ Judge(n) \/ EndBackoff(n) \/ CancelRetry(n) \/ NextAttempt(n) \/ Settle(n)
  \/ Report(n) \/ RunOnFailure(n) \/ AlwaysAtSettle(n) \/ GiveBack(n) \/ Leave(n)
  \/ StartRetry(n) \/ AbortRetry(n) \/ ClaimAborted(n) \/ ReportAborted(n)
  \/ LeaveAborted(n) \/ JudgeRetry(n) \/ LeaveRetry(n) \/ EndCapture(n)

\* Such a step leaves the claims of the cleanups alone, and reaches the claim
\* of runAlwaysAtSettle only for a node that declares Always handlers.
LEMMA ElsewhereFrame ==
  ASSUME TypeOK, NEW n \in Nodes, Elsewhere(n)
  PROVE  /\ UNCHANGED <<cleanupVars, ctxDone, loop>>
         /\ \A m \in Nodes : pc'[m] = "claim" => pc[m] = "claim" \/ m \in Always
<1> USE DEF cleanupVars, goto, GoFrame, loopVars, ocVars, logVars, TypeOK, GoroutinesType
<1>1. CASE EnterGroup(n)  BY <1>1 DEF EnterGroup
<1>2. CASE StartStep(n)  BY <1>2 DEF StartStep
<1>3. CASE CacheLookup(n)  BY <1>3 DEF CacheLookup
<1>4. CASE EndAttempt(n)  BY <1>4 DEF EndAttempt
<1>5. CASE EndHold(n)  BY <1>5 DEF EndHold
<1>6. CASE Judge(n)  BY <1>6 DEF Judge
<1>7. CASE EndBackoff(n)  BY <1>7 DEF EndBackoff
<1>8. CASE CancelRetry(n)  BY <1>8 DEF CancelRetry
<1>9. CASE NextAttempt(n)  BY <1>9 DEF NextAttempt
<1>10. CASE Settle(n)  BY <1>10 DEF Settle
<1>11. CASE Report(n)  BY <1>11 DEF Report
<1>12. CASE RunOnFailure(n)  BY <1>12 DEF RunOnFailure
<1>13. CASE AlwaysAtSettle(n)  BY <1>13 DEF AlwaysAtSettle
<1>14. CASE GiveBack(n)  BY <1>14 DEF GiveBack
<1>15. CASE Leave(n)  BY <1>15 DEF Leave
<1>16. CASE StartRetry(n)  BY <1>16 DEF StartRetry
<1>17. CASE AbortRetry(n)  BY <1>17 DEF AbortRetry
<1>18. CASE ClaimAborted(n)  BY <1>18 DEF ClaimAborted
<1>19. CASE ReportAborted(n)  BY <1>19 DEF ReportAborted
<1>20. CASE LeaveAborted(n)  BY <1>20 DEF LeaveAborted
<1>21. CASE JudgeRetry(n)  BY <1>21 DEF JudgeRetry
<1>22. CASE LeaveRetry(n)  BY <1>22 DEF LeaveRetry
<1>23. CASE EndCapture(n)  BY <1>23 DEF EndCapture
<1>24. QED
  BY <1>1, <1>2, <1>3, <1>4, <1>5, <1>6, <1>7, <1>8, <1>9, <1>10, <1>11, <1>12,
     <1>13, <1>14, <1>15, <1>16, <1>17, <1>18, <1>19, <1>20, <1>21, <1>22, <1>23
  DEF Elsewhere

\* The loop never claims a cleanup, and once it is over it stays over.
LEMMA LoopFrame ==
  ASSUME TypeOK, LoopNext
  PROVE  /\ UNCHANGED <<cleanupVars, ctxDone>> /\ (LoopOver => LoopOver')
         /\ \A m \in Nodes : pc'[m] = "claim" => pc[m] = "claim"
<1> USE DEF cleanupVars, loopVars, ocVars, goVars, logVars, LoopOver
<1>1. CASE Pass  BY <1>1 DEF Pass
<1>2. CASE \E n \in Nodes : ClaimSettled(n)  BY <1>2 DEF ClaimSettled
<1>3. CASE AppendSettled \/ Branch \/ Wake \/ PollNothing \/ Return
  BY <1>3 DEF AppendSettled, Branch, Wake, PollNothing, Return
<1>4. CASE Dispatch
  BY <1>4 DEF Dispatch
<1>5. QED  BY <1>1, <1>2, <1>3, <1>4 DEF LoopNext

\* Of the control operations only run.rerun_from touches a cleanup: it lets
\* the nodes it resets be cleaned up again.
LEMMA ServeFrame ==
  ASSUME TypeOK, Serve
  PROVE  /\ ~LoopOver /\ UNCHANGED <<alwaysInFlight, teardownVars>> /\ (ctxDone => ctxDone')
         /\ \A m \in Nodes : pc'[m] = "claim" => pc[m] = "claim"
         /\ \/ UNCHANGED <<alwaysRun, cleanups>>
            \/ /\ ~ctxDone
               /\ \E S \in SUBSET Nodes :
                    /\ alwaysRun' = alwaysRun \ S
                    /\ cleanups' = [m \in Nodes |-> IF m \in S THEN 0 ELSE cleanups[m]]
<1> DEFINE n == request.step
<1>1. /\ n \in Nodes /\ ~LoopOver /\ UNCHANGED teardownVars
  BY RequestsAssumption DEF Serve, LoopOver, TypeOK, LoopType
<1> HIDE DEF n
<1> USE DEF goto, Launch, goVars, ocVars, TypeOK, GoroutinesType
<1>2. CASE handleRunCancel \/ refuse(request)
  BY <1>1, <1>2 DEF handleRunCancel, refuse
<1>3. CASE \E op \in {"run.pause", "run.resume"} : handleRunPause(op)
  BY <1>1, <1>3 DEF handleRunPause
<1>4. CASE \E op \in {"breakpoint.set", "breakpoint.clear"} : handleBreakpoint(n, op)
  BY <1>1, <1>4 DEF handleBreakpoint
<1>5. CASE handleStepRetry(n) \/ handleStepSkip(n) \/ handleWSSnapshot(n)
  BY <1>1, <1>5 DEF handleStepRetry, handleStepSkip, handleWSSnapshot
<1>6. CASE handleRerunFrom(n)
  <2> DEFINE S == {m \in dependentsClosure[n] : states[m] # Pending}
  <2>1. S \in SUBSET Nodes
    BY <1>1 DEF dependentsClosure
  <2>2. /\ ~ctxDone /\ alwaysRun' = alwaysRun \ S /\ ctxDone' = ctxDone
        /\ cleanups' = [m \in Nodes |-> IF m \in S THEN 0 ELSE cleanups[m]]
        /\ UNCHANGED <<alwaysInFlight, pc>>
    BY <1>6 DEF handleRerunFrom
  <2> HIDE DEF S
  <2>3. QED  BY <1>1, <2>1, <2>2
<1>7. QED
  BY <1>2, <1>3, <1>4, <1>5, <1>6, Zenon DEF Serve, serveControl, n

-----------------------------------------------------------------------------
\* Every action preserves the claim of alwaysRun.
LEMMA ClaimStep ==
  ASSUME TypeOK, CleanupClaim, [Next]_vars
  PROVE  CleanupClaim'
<1> USE DEF cleanupVars, teardownVars, TeardownFrame, GoFrame, loopVars, ocVars, logVars
<1>1. CASE \E n \in Nodes : Elsewhere(n)
  BY <1>1, ElsewhereFrame DEF CleanupClaim, LoopOver
<1>2. ASSUME NEW n \in Nodes, claimAlwaysAtSettle(n)  PROVE CleanupClaim'
  BY <1>2 DEF claimAlwaysAtSettle, Uncleaned, CleanupClaim, LoopOver, TypeOK, LogType
<1>3. ASSUME NEW n \in Nodes, EndAlways(n)  PROVE CleanupClaim'
  BY <1>3 DEF EndAlways, CleanupClaim, LoopOver
<1>4. CASE LoopNext
  BY <1>4, LoopFrame DEF CleanupClaim
<1>5. CASE Serve
  BY <1>5, ServeFrame DEF CleanupClaim
<1>6. CASE ReleaseRetry \/ SendRequest \/ RefuseFinished \/ Interrupt
  BY <1>6 DEF ReleaseRetry, SendRequest, RefuseFinished, Interrupt, CleanupClaim, LoopOver
<1>7. CASE Abandon \/ ScheduleReturned
  BY <1>7 DEF Abandon, ScheduleReturned, GraceExpires, CleanupClaim, LoopOver
<1>8. ASSUME NEW n \in Nodes, settleAbandoned(n)  PROVE CleanupClaim'
  BY <1>8 DEF settleAbandoned, CleanupClaim, LoopOver
<1>9. ASSUME NEW n \in Nodes, claimAlways(n)  PROVE CleanupClaim'
  BY <1>9 DEF claimAlways, Uncleaned, CleanupClaim, LoopOver
<1>10. ASSUME NEW n \in Nodes, StartAlways(n)  PROVE CleanupClaim'
  BY <1>10 DEF StartAlways, CleanupClaim, LoopOver, TypeOK, LogType, TeardownType
<1>11. ASSUME NEW n \in Nodes, DropAlways(n) \/ FinishAlways(n)  PROVE CleanupClaim'
  BY <1>11 DEF DropAlways, FinishAlways, CleanupClaim, LoopOver
<1>12. CASE SettledAbandoned \/ ClaimedAlways \/ SpendBudget \/ AlwaysEnded \/ Seal
  BY <1>12 DEF SettledAbandoned, ClaimedAlways, SpendBudget, AlwaysEnded, Seal,
     CleanupClaim, LoopOver
<1>13. CASE Terminated \/ UNCHANGED vars
  BY <1>13 DEF Terminated, vars, CleanupClaim, LoopOver
<1>14. QED
  BY <1>1, <1>2, <1>3, <1>4, <1>5, <1>6, <1>7, <1>8, <1>9, <1>10, <1>11, <1>12, <1>13
  DEF Next, StepNext, CommandNext, TeardownNext, Elsewhere

\* A cleanup that nobody claimed has not run, and one that is claimed ran, is
\* queued in teardown, or was dropped with its budget.
THEOREM CleanupClaimed == Spec => []CleanupClaim
<1>1. Init => CleanupClaim
  BY DEF Init, CleanupClaim
<1>2. QED  BY <1>1, TypeCorrect, ClaimStep, PTL DEF Spec

\* One execution's Always handlers never run twice: not by the step and by
\* teardown, not after a second retry.
THEOREM CleanupAtMostOnce == Spec => []AlwaysAtMostOnce
<1>1. CleanupClaim => AlwaysAtMostOnce
  BY DEF CleanupClaim, AlwaysAtMostOnce
<1>2. QED  BY <1>1, CleanupClaimed, PTL

-----------------------------------------------------------------------------
\* Every action keeps teardown's account of the cleanups complete.
LEMMA CompleteStep ==
  ASSUME TypeOK, CleanupClaim, CleanupComplete, [Next]_vars
  PROVE  CleanupComplete'
<1> USE DEF cleanupVars, teardownVars, TeardownFrame, GoFrame, loopVars, ocVars, goVars,
            logVars, sealed
<1>1. CASE \E n \in Nodes : Elsewhere(n)
  BY <1>1, ElsewhereFrame DEF CleanupComplete
<1>2. ASSUME NEW n \in Nodes, claimAlwaysAtSettle(n)  PROVE CleanupComplete'
  BY <1>2 DEF claimAlwaysAtSettle, goto, Uncleaned, CleanupComplete, TypeOK, GoroutinesType
<1>3. ASSUME NEW n \in Nodes, EndAlways(n)  PROVE CleanupComplete'
  BY <1>3 DEF EndAlways, goto, CleanupComplete, TypeOK, OutcomesType, GoroutinesType
<1>4. CASE LoopNext
  BY <1>4, LoopFrame DEF CleanupComplete
<1>5. CASE Serve
  BY <1>5, ServeFrame DEF CleanupClaim, CleanupComplete
<1>6. CASE ReleaseRetry \/ SendRequest \/ RefuseFinished \/ Interrupt
  BY <1>6 DEF ReleaseRetry, SendRequest, RefuseFinished, Interrupt, CleanupComplete
<1>7. CASE Abandon \/ ScheduleReturned
  BY <1>7 DEF Abandon, ScheduleReturned, CleanupComplete
<1>8. ASSUME NEW n \in Nodes, settleAbandoned(n)  PROVE CleanupComplete'
  BY <1>8 DEF settleAbandoned, CleanupComplete
<1>9. ASSUME NEW n \in Nodes, claimAlways(n)  PROVE CleanupComplete'
  BY <1>9 DEF claimAlways, Uncleaned, CleanupComplete
<1>10. ASSUME NEW n \in Nodes, StartAlways(n) \/ DropAlways(n) \/ FinishAlways(n)
       PROVE  CleanupComplete'
  BY <1>10 DEF StartAlways, DropAlways, FinishAlways, CleanupComplete
<1>11. CASE SettledAbandoned \/ ClaimedAlways \/ SpendBudget
  BY <1>11 DEF SettledAbandoned, ClaimedAlways, SpendBudget, CleanupComplete
<1>12. CASE AlwaysEnded
  BY <1>12 DEF AlwaysEnded, CleanupComplete
<1>13. CASE Seal
  <2>1. alwaysInFlight > 0 => cleanupLost'
    BY <1>13 DEF Seal, CleanupQuiet
  <2>2. cleanupLost => cleanupLost'
    BY <1>13, Zenon DEF Seal
  <2>3. QED  BY <1>13, <2>1, <2>2 DEF Seal, CleanupComplete
<1>14. CASE Terminated \/ UNCHANGED vars
  BY <1>14 DEF Terminated, vars, CleanupComplete
<1>15. QED
  BY <1>1, <1>2, <1>3, <1>4, <1>5, <1>6, <1>7, <1>8, <1>9, <1>10, <1>11, <1>12, <1>13, <1>14
  DEF Next, StepNext, CommandNext, TeardownNext, Elsewhere

\* Past its claiming pass, teardown left no declared cleanup unclaimed.
THEOREM CleanupCompleted == Spec => []CleanupComplete
<1>1. Init => CleanupComplete
  BY DEF Init, CleanupComplete, sealed
<1>2. QED  BY <1>1, TypeCorrect, CleanupClaimed, CompleteStep, PTL DEF Spec

\* Always means always: when the stream is sealed every declared cleanup
\* ran, or run.finished says that some of it was given up.
THEOREM CleanupRan == Spec => []AlwaysRan
<1>1. CleanupClaim /\ CleanupComplete => AlwaysRan
  BY PlanTypes DEF CleanupClaim, CleanupComplete, AlwaysRan, sealed
<1>2. QED  BY <1>1, CleanupClaimed, CleanupCompleted, PTL

\* No settle-time cleanup outlives the ledger unannounced, and none starts
\* after it is sealed.
THEOREM CleanupInside == Spec => CleanupInsideTheLedger
<1>1. CleanupComplete => (sealed /\ alwaysInFlight > 0 => cleanupLost)
  BY DEF CleanupComplete
<1>2. ASSUME TypeOK, CleanupComplete, [Next]_vars
      PROVE  [sealed => \A n \in Nodes : cleanups'[n] <= cleanups[n]]_vars
  <2> USE DEF cleanupVars, teardownVars, TeardownFrame, GoFrame, ocVars, logVars, sealed,
              TypeOK, LogType
  <2>1. SUFFICES ASSUME sealed, NEW m \in Nodes  PROVE cleanups'[m] <= cleanups[m]
    OBVIOUS
  <2>2. CASE \E n \in Nodes : Elsewhere(n)
    BY <1>2, <2>1, <2>2, ElsewhereFrame
  <2>3. ASSUME NEW n \in Nodes, claimAlwaysAtSettle(n) \/ EndAlways(n)
        PROVE  cleanups'[m] <= cleanups[m]
    BY <1>2, <2>1, <2>3 DEF claimAlwaysAtSettle, EndAlways, Uncleaned, CleanupComplete
  <2>4. CASE LoopNext
    BY <1>2, <2>1, <2>4, LoopFrame
  <2>5. CASE Serve
    <3>1. UNCHANGED cleanups \/ \E S \in SUBSET Nodes :
             cleanups' = [k \in Nodes |-> IF k \in S THEN 0 ELSE cleanups[k]]
      BY <1>2, <2>5, ServeFrame
    <3>2. QED  BY <1>2, <2>1, <3>1
  <2>6. CASE ReleaseRetry \/ SendRequest \/ RefuseFinished \/ Interrupt \/ Abandon
    BY <1>2, <2>1, <2>6 DEF ReleaseRetry, SendRequest, RefuseFinished, Interrupt, Abandon
  <2>7. CASE TeardownNext
    BY <1>2, <2>1, <2>7 DEF TeardownNext, ScheduleReturned, settleAbandoned, claimAlways,
       StartAlways, DropAlways, FinishAlways, SettledAbandoned, ClaimedAlways, SpendBudget,
       AlwaysEnded, Seal
  <2>8. CASE Terminated \/ UNCHANGED vars
    BY <1>2, <2>1, <2>8 DEF Terminated, vars
  <2>9. QED
    BY <1>2, <2>2, <2>3, <2>4, <2>5, <2>6, <2>7, <2>8
    DEF Next, StepNext, CommandNext, Elsewhere
<1>3. QED
  BY <1>1, <1>2, TypeCorrect, CleanupCompleted, PTL DEF Spec, CleanupInsideTheLedger

-----------------------------------------------------------------------------
(* The ledger.                                                             *)

Waiting == teardown = "waiting"

\* Teardown runs beside the steps only in a cancelled run, where no control
\* handler starts or unsettles anything; and the loop leaves when every step
\* has a state, returns when no goroutine is left.
Endgame ==
  /\ ~Waiting => ctxDone \/ (LoopOver /\ \A n \in Nodes : pc[n] = "idle")
  /\ loop \in {"returned", "failed"} => \A n \in Nodes : pc[n] = "idle"
  /\ loop \in {"leaving", "returned"} \/ (loop = "emit" /\ verdict = "done")
       => \A n \in Nodes : states[n] # Pending

\* A goroutine inside its execution touches neither the loop nor teardown.
LEMMA GoesTeardown ==
  ASSUME NEW n \in Nodes, Goes(n)
  PROVE  UNCHANGED teardownVars
<1>1. CASE \/ EnterGroup(n) \/ StartStep(n) \/ CacheLookup(n) \/ EndAttempt(n) \/ EndHold(n)
           \/ Judge(n) \/ EndBackoff(n) \/ CancelRetry(n) \/ NextAttempt(n)
  BY <1>1, Zenon DEF EnterGroup, StartStep, CacheLookup, EndAttempt, EndHold, Judge, EndBackoff,
     CancelRetry, NextAttempt, GoFrame
<1>2. CASE \/ Settle(n) \/ Report(n) \/ RunOnFailure(n) \/ AlwaysAtSettle(n)
           \/ claimAlwaysAtSettle(n) \/ EndAlways(n) \/ GiveBack(n) \/ StartRetry(n) \/ JudgeRetry(n)
  BY <1>2, Zenon DEF Settle, Report, RunOnFailure, AlwaysAtSettle, claimAlwaysAtSettle, EndAlways,
     GiveBack, StartRetry, JudgeRetry, GoFrame
<1>3. QED  BY <1>1, <1>2 DEF Goes

\* Teardown starts when the scheduler returns or the run is cancelled, and
\* never goes back to waiting.
LEMMA AsideTeardown ==
  ASSUME TypeOK, Aside
  PROVE  /\ ~Waiting => ~Waiting'
         /\ Waiting' \/ ~Waiting \/ ctxDone \/ loop \in {"returned", "failed"}
<1> USE DEF Waiting, teardownVars
<1>1. CASE ReleaseRetry \/ SendRequest \/ RefuseFinished \/ Interrupt
  BY <1>1 DEF ReleaseRetry, SendRequest, RefuseFinished, Interrupt
<1>2. CASE Abandon
  BY <1>2 DEF Abandon, GraceExpires
<1>3. CASE TeardownNext
  BY <1>3 DEF TeardownNext, ScheduleReturned, settleAbandoned, claimAlways, StartAlways, DropAlways,
     FinishAlways, SettledAbandoned, ClaimedAlways, SpendBudget, AlwaysEnded, Seal
<1>4. CASE Terminated \/ UNCHANGED vars
  BY <1>4 DEF Terminated, vars
<1>5. QED  BY <1>1, <1>2, <1>3, <1>4 DEF Aside

\* Every action preserves it.
LEMMA EndgameStep ==
  ASSUME TypeOK, RunningClaim, Endgame, [Next]_vars
  PROVE  Endgame'
<1> USE DEF goto, GoFrame, loopVars, passVars, ocVars, goVars, localVars, teardownVars, Waiting,
            LoopOver, Endgame
<1>1. CASE Pass
  BY <1>1 DEF Pass
<1>2. CASE AppendSettled \/ Wake \/ PollNothing
  BY <1>2 DEF AppendSettled, Wake, PollNothing
<1>3. ASSUME NEW n \in Nodes, ClaimSettled(n)  PROVE Endgame'
  BY <1>3 DEF ClaimSettled
<1>4. CASE Branch
  BY <1>4 DEF Branch, TypeOK, LoopType
<1>5. CASE Dispatch
  BY <1>5 DEF Dispatch
<1>6. CASE Return
  <2>1. \A n \in Nodes : pc[n] = "idle"
    BY <1>6 DEF Return, Quiescent, RunningClaim
  <2>2. QED  BY <1>6, <2>1 DEF Return
<1>7. ASSUME NEW n \in Nodes, Goes(n)  PROVE Endgame'
  <2>1. UNCHANGED <<states, loop, verdict, ctxDone>> /\ pc[n] # "idle"
    BY <1>7, GoesInside DEF claimVars, Executing
  <2>2. teardown' = teardown
    BY <1>7, GoesTeardown
  <2>3. QED  BY <2>1, <2>2
<1>8. ASSUME NEW n \in Nodes, Leave(n) \/ LeaveRetry(n) \/ AbortRetry(n)  PROVE Endgame'
  <2>1. UNCHANGED <<loop, verdict, ctxDone, teardown>> /\ pc[n] # "idle" /\ states[n] = Pending
    BY <1>8 DEF Leave, LeaveRetry, AbortRetry, RunningClaim, Aborting
  <2>2. QED  BY <2>1
<1>9. ASSUME NEW n \in Nodes, ClaimAborted(n) \/ ReportAborted(n) \/ LeaveAborted(n) \/ EndCapture(n)
      PROVE Endgame'
  BY <1>9 DEF ClaimAborted, ReportAborted, LeaveAborted, EndCapture
<1>10. CASE Serve
  <2>1. loop \in {"idle", "poll"} /\ loop' \in {"pass", "dispatch"} /\ teardown' = teardown
    BY <1>10, ServeClaims
  <2>2. ctxDone => ctxDone'
    BY <1>10, ServeClaims DEF handleStepRetry, handleStepSkip, handleRerunFrom, handleWSSnapshot
  <2>3. QED  BY <2>1, <2>2
<1>11. CASE Aside
  <2>1. UNCHANGED <<states, loop, verdict, pc>> /\ (ctxDone => ctxDone')
    BY <1>11, AsideFrame DEF claimVars
  <2>2. Waiting' \/ ~Waiting \/ ctxDone \/ loop \in {"returned", "failed"}
    BY <1>11, AsideTeardown
  <2>3. QED  BY <2>1, <2>2
<1>12. QED
  BY <1>1, <1>2, <1>3, <1>4, <1>5, <1>6, <1>7, <1>8, <1>9, <1>10, <1>11
  DEF Next, LoopNext, StepNext, CommandNext, Goes, Aside

\* The loop and Run's teardown meet as Endgame says in every run.
THEOREM EndgameSafe == Spec => []Endgame
<1>1. Init => Endgame
  BY DEF Init, Endgame, Waiting
<1>2. QED
  BY <1>1, TypeCorrect, RunningSafe, EndgameStep, PTL DEF Spec

-----------------------------------------------------------------------------
(* The stream and the claims.                                              *)

\* An execution past its own claim of step.finished.
Published == {"report", "record", "onfailure", "always", "claim", "cleanup",
              "giveback", "leave"}

\* The claim, the event and the state name one outcome.  Until teardown
\* starts a claim exists exactly for the steps that have a state or are past
\* their own settle; afterwards settleAbandoned may have claimed the others.
NodeLedger(n) ==
  /\ n \in settled \/ emitting = n => pc[n] = "idle"
  /\ pc[n] \in {"report", "record"} => finished[n] = outcome[n]
  /\ pc[n] = "abortreport" => finished[n] = "cancelled"
  /\ emitting = n => finished[n] = states[n] /\ n \notin settled
  /\ finishes[n] = 1 => finished[n] # Pending /\ finished[n] = reported[n]
  /\ ~sealed /\ finished[n] # Pending /\ ~Owes(n) /\ emitting # n => finishes[n] = 1
  /\ Waiting =>
       /\ pc[n] \in Published => finished[n] = outcome[n]
       /\ states[n] = Pending /\ pc[n] \notin Published => finished[n] = Pending
       /\ n \in settled \/ pc[n] = "abort" => finished[n] = Pending
       /\ pc[n] = "abort" => states[n] = "cancelled"
       /\ states[n] # Pending /\ n \notin settled /\ pc[n] # "abort" => finished[n] = states[n]

LedgerKept == \A n \in Nodes : NodeLedger(n)

\* What a step leaves alone, and how it may move teardown.
Kept(n) ==
  /\ states'[n] = states[n] /\ pc'[n] = pc[n] /\ outcome'[n] = outcome[n]
  /\ finished'[n] = finished[n] /\ finishes'[n] = finishes[n] /\ reported'[n] = reported[n]
  /\ n \in settled' <=> n \in settled
  /\ emitting' = n <=> emitting = n

Onward == (sealed => sealed') /\ (~Waiting => ~Waiting')

\* A step that touches one node.
LEMMA OneLedgerTouched ==
  ASSUME LedgerKept, Onward, NEW n \in Nodes, NodeLedger(n)', \A m \in Nodes \ {n} : Kept(m)
  PROVE  LedgerKept'
<1>1. ASSUME NEW m \in Nodes, Kept(m)  PROVE NodeLedger(m)'
  BY <1>1 DEF LedgerKept, NodeLedger, Kept, Owes, Onward, sealed, Waiting
<1>2. QED  BY <1>1 DEF LedgerKept

\* A step that touches none.
LEMMA NoLedgerTouched ==
  ASSUME LedgerKept, Onward, \A m \in Nodes : Kept(m)
  PROVE  LedgerKept'
<1>1. ASSUME NEW m \in Nodes, Kept(m)  PROVE NodeLedger(m)'
  BY <1>1 DEF LedgerKept, NodeLedger, Kept, Owes, Onward, sealed, Waiting
<1>2. QED  BY <1>1 DEF LedgerKept

\* Inside an execution only Settle claims and only Report appends; past the
\* claim the outcome is not changed any more.
LEMMA GoesLedger ==
  ASSUME TypeOK, NEW n \in Nodes, Goes(n), ~Settle(n), ~Report(n)
  PROVE  /\ UNCHANGED <<finished, finishes, reported>>
         /\ \A m \in Nodes \ {n} : pc'[m] = pc[m] /\ outcome'[m] = outcome[m]
         /\ pc[n] \in Published <=> pc'[n] \in Published
         /\ pc[n] \in Published => outcome'[n] = outcome[n]
         /\ ~Owes(n)' /\ ~Owes(n)
         /\ pc[n] # "abort" /\ pc'[n] # "abort"
<1> USE DEF Published, Owes, goto, ocVars, localVars, logVars, ledger, TypeOK, GoroutinesType
<1>1. CASE EnterGroup(n)  BY <1>1 DEF EnterGroup
<1>2. CASE StartStep(n)  BY <1>2 DEF StartStep, BeginAttempt
<1>3. CASE CacheLookup(n)  BY <1>3 DEF CacheLookup, BeginAttempt
<1>4. CASE EndAttempt(n)  BY <1>4 DEF EndAttempt
<1>5. CASE EndHold(n)  BY <1>5 DEF EndHold
<1>6. CASE Judge(n)  BY <1>6 DEF Judge
<1>7. CASE EndBackoff(n)  BY <1>7 DEF EndBackoff
<1>8. CASE CancelRetry(n)  BY <1>8 DEF CancelRetry
<1>9. CASE NextAttempt(n)  BY <1>9 DEF NextAttempt, BeginAttempt
<1>10. CASE RunOnFailure(n)  BY <1>10 DEF RunOnFailure
<1>11. CASE AlwaysAtSettle(n)  BY <1>11 DEF AlwaysAtSettle
<1>12. CASE claimAlwaysAtSettle(n)  BY <1>12 DEF claimAlwaysAtSettle
<1>13. CASE EndAlways(n)  BY <1>13 DEF EndAlways
<1>14. CASE GiveBack(n)  BY <1>14 DEF GiveBack
<1>15. CASE StartRetry(n)  BY <1>15 DEF StartRetry, BeginAttempt
<1>16. CASE JudgeRetry(n)  BY <1>16 DEF JudgeRetry
<1>17. QED
  BY <1>1, <1>2, <1>3, <1>4, <1>5, <1>6, <1>7, <1>8, <1>9, <1>10, <1>11, <1>12,
     <1>13, <1>14, <1>15, <1>16 DEF Goes

\* Outside the loop and the steps only settleAbandoned moves the ledger.
LEMMA AsideReports ==
  ASSUME Aside
  PROVE  \/ UNCHANGED <<finished, finishes, reported, started, superseded, attempts>>
         \/ \E n \in Nodes : settleAbandoned(n)
<1> USE DEF ocVars, logVars, ledger
<1>1. CASE ReleaseRetry \/ SendRequest \/ RefuseFinished \/ Interrupt \/ Abandon
  BY <1>1 DEF ReleaseRetry, SendRequest, RefuseFinished, Interrupt, Abandon
<1>2. CASE TeardownNext
  BY <1>2 DEF TeardownNext, ScheduleReturned, claimAlways, StartAlways, DropAlways, FinishAlways,
     SettledAbandoned, ClaimedAlways, SpendBudget, AlwaysEnded, Seal
<1>3. CASE Terminated \/ UNCHANGED vars
  BY <1>3 DEF Terminated, vars
<1>4. QED  BY <1>1, <1>2, <1>3 DEF Aside

\* A handler that changes anything runs before teardown starts, with no
\* claim of the loop outstanding, on nodes without a goroutine.
LEMMA ServeLedger ==
  ASSUME TypeOK, RunningClaim, FinishClaim, Endgame, LedgerKept, Serve
  PROVE  LedgerKept'
<1>1. /\ settled = {} /\ emitting = Pending /\ UNCHANGED <<settled, emitting, teardown>>
      /\ request.step \in Nodes /\ ~LoopOver
  BY ServeClaims DEF FinishClaim, LoopOver
<1> PICK n \in Nodes : n = request.step
  BY <1>1
<1>2. ~ctxDone => Waiting /\ Waiting' /\ ~sealed /\ ~sealed'
  BY <1>1 DEF Endgame, Waiting, sealed
<1>3. ~ctxDone => \A k \in Nodes : k \notin running => pc[k] = "idle"
  BY Zenon DEF RunningClaim
<1>4. \A m \in Nodes : emitting # m /\ m \notin settled
  BY <1>1, PlanAssumption
<1>5. Onward
  BY <1>1 DEF Onward, sealed, Waiting
<1> USE DEF TypeOK, OutcomesType, GoroutinesType, LogType
<1>6. CASE handleStepRetry(n)
  <2>1. /\ ~ctxDone /\ n \notin running
        /\ states' = [k \in Nodes |-> IF k \in {n} THEN Pending ELSE states[k]]
        /\ finished' = [k \in Nodes |-> IF k \in {n} THEN Pending ELSE finished[k]]
        /\ finishes' = [k \in Nodes |-> IF k \in {n} /\ ~sealed THEN 0 ELSE finishes[k]]
        /\ pc' = [pc EXCEPT ![n] = "slot"] /\ UNCHANGED <<outcome, reported>>
    BY <1>6 DEF handleStepRetry, CanRetry, UnsettleAll, DropClaims, Launch, goto
  <2>2. NodeLedger(n)'
    BY <1>1, <1>2, <1>4, <2>1 DEF NodeLedger, Owes, Published
  <2>3. \A m \in Nodes \ {n} : Kept(m)
    BY <1>1, <2>1 DEF Kept
  <2>4. QED  BY <1>1, <1>5, <2>2, <2>3, OneLedgerTouched
<1>7. CASE handleStepSkip(n)
  <2>1. /\ ~ctxDone /\ n \notin running /\ finished[n] = Pending
        /\ states' = [states EXCEPT ![n] = "skipped_manual"]
        /\ finished' = [finished EXCEPT ![n] = "skipped_manual"]
        /\ finishes' = IF sealed THEN finishes ELSE [finishes EXCEPT ![n] = @ + 1]
        /\ reported' = IF sealed THEN reported ELSE [reported EXCEPT ![n] = "skipped_manual"]
        /\ pc' = pc /\ outcome' = outcome
    BY <1>7 DEF handleStepSkip, CanSkip, AppendFinished, goVars, localVars
  <2>2. pc[n] = "idle" /\ NodeFinish(n) /\ NodeLedger(n)
    BY <1>1, <1>3, <2>1 DEF FinishClaim, LedgerKept
  <2>3. finishes[n] = 0
    BY <1>2, <2>1, <2>2 DEF NodeFinish
  <2>4. NodeLedger(n)'
    BY <1>1, <1>2, <1>4, <2>1, <2>2, <2>3 DEF NodeLedger, Owes, Published, Pending
  <2>5. \A m \in Nodes \ {n} : Kept(m)
    BY <1>1, <2>1 DEF Kept
  <2>6. QED  BY <1>1, <1>5, <2>4, <2>5, OneLedgerTouched
<1>8. CASE handleRerunFrom(n)
  <2> DEFINE S == {k \in dependentsClosure[n] : states[k] # Pending}
  <2>1. /\ S \subseteq Nodes /\ S \cap running = {} /\ ~ctxDone
        /\ states' = [k \in Nodes |-> IF k \in S THEN Pending ELSE states[k]]
        /\ finished' = [k \in Nodes |-> IF k \in S THEN Pending ELSE finished[k]]
        /\ finishes' = [k \in Nodes |-> IF k \in S /\ ~sealed THEN 0 ELSE finishes[k]]
        /\ pc' = pc /\ UNCHANGED <<outcome, reported>>
    <3>1. S \subseteq Nodes
      BY <1>1 DEF dependentsClosure
    <3>2. QED
      BY <1>8, <3>1 DEF handleRerunFrom, CanRerun, UnsettleAll, DropClaims, localVars
  <2> HIDE DEF S
  <2>2. \A k \in S : pc[k] = "idle"
    BY <1>3, <2>1
  <2>3. SUFFICES ASSUME NEW m \in Nodes  PROVE NodeLedger(m)'
    BY DEF LedgerKept
  <2>4. NodeLedger(m)
    BY DEF LedgerKept
  <2>5. CASE m \in S
    BY <1>1, <1>2, <1>4, <2>1, <2>2, <2>5 DEF NodeLedger, Owes, Published
  <2>6. CASE m \notin S
    BY <1>1, <1>2, <1>4, <2>1, <2>4, <2>6 DEF NodeLedger, Owes, Published
  <2>7. QED  BY <2>5, <2>6
<1>9. CASE handleWSSnapshot(n)
  <2>1. /\ pc' = [pc EXCEPT ![n] = "capture"] /\ ~ctxDone /\ n \notin running
        /\ UNCHANGED <<states, finished, finishes, reported, outcome>>
    BY <1>9 DEF handleWSSnapshot, CanSkip, Launch, goto, localVars, ledger
  <2>2. pc[n] = "idle" /\ NodeLedger(n)
    BY <1>1, <1>3, <2>1 DEF LedgerKept
  <2>3. NodeLedger(n)'
    BY <1>1, <1>2, <1>4, <2>1, <2>2 DEF NodeLedger, Owes, Published
  <2>4. \A m \in Nodes \ {n} : Kept(m)
    BY <1>1, <2>1 DEF Kept
  <2>5. QED  BY <1>1, <1>5, <2>3, <2>4, OneLedgerTouched
<1>10. CASE UNCHANGED <<pc, states, finished, finishes, reported, outcome>>
  BY <1>1, <1>5, <1>10, NoLedgerTouched DEF Kept
<1>11. CASE \/ handleRunCancel \/ refuse(request)
            \/ \E op \in {"run.pause", "run.resume"} : handleRunPause(op)
            \/ \E op \in {"breakpoint.set", "breakpoint.clear"} : handleBreakpoint(request.step, op)
  BY <1>10, <1>11 DEF handleRunCancel, refuse, handleRunPause, handleBreakpoint, ocVars,
     goVars, localVars, ledger
<1>12. QED
  BY <1>6, <1>7, <1>8, <1>9, <1>11 DEF Serve, serveControl

\* Every action keeps the stream and the claims together.
LEMMA LedgerStep ==
  ASSUME TypeOK, RunningClaim, FinishClaim, Endgame, LedgerKept, [Next]_vars
  PROVE  LedgerKept'
<1> USE DEF goto, GoFrame, loopVars, passVars, ocVars, goVars, localVars, logVars,
            ledger, teardownVars, sealed, Waiting, Onward
<1>1. /\ settled # {} \/ emitting # Pending => loop = "emit"
      /\ \A n \in Nodes : NodeFinish(n) /\ NodeLedger(n)
  BY DEF FinishClaim, LedgerKept
<1>2. Pending \notin Nodes
  BY PlanAssumption
<1>3. \A n \in Nodes : pc[n] \notin Aborting \cup {"idle"} => n \in running /\ states[n] = Pending
  BY DEF RunningClaim
<1>4. CASE Pass
  <2>1. /\ emitting = Pending /\ settled = {}
        /\ UNCHANGED <<emitting, pc, outcome, finished, finishes, reported, teardown>>
        /\ \A n \in Nodes : states'[n] = IF n \in settled' THEN SettledAs(n) ELSE states[n]
        /\ \A n \in settled' : states[n] = Pending /\ n \notin running /\ SettledAs(n) # Pending
    BY <1>1, <1>4 DEF Pass, Unclassified
  <2>2. ASSUME NEW n \in Nodes  PROVE NodeLedger(n)'
    <3>1. CASE n \notin settled'
      BY <1>1, <1>2, <2>1, <3>1 DEF NodeLedger, Owes
    <3>2. CASE n \in settled'
      <4>1. pc[n] = "idle"
        BY <2>1, <3>2 DEF RunningClaim, Aborting
      <4>2. QED  BY <1>1, <1>2, <2>1, <3>2, <4>1 DEF NodeLedger, Owes, Published
    <3>3. QED  BY <3>1, <3>2
  <2>3. QED  BY <2>2 DEF LedgerKept
<1>5. ASSUME NEW n \in Nodes, ClaimSettled(n)  PROVE LedgerKept'
  <2>1. NodeFinish(n) /\ NodeLedger(n) /\ states[n] # Pending /\ emitting = Pending /\ n \in settled
        /\ emitting # n
    BY <1>1, <1>2, <1>5 DEF ClaimSettled, NodeFinish
  <2>2. NodeLedger(n)'
    <3>1. ~Owes(n) \/ ~Unclaimed(n)
      BY <2>1 DEF NodeFinish, Unclaimed
    <3>2. pc[n] = "idle" \/ pc[n] \in Aborting
      BY <1>3, <2>1
    <3>3. CASE Unclaimed(n)
      BY <1>5, <2>1, <3>1, <3>2, <3>3 DEF ClaimSettled, Unclaimed, NodeLedger, Owes, NodeFinish, TypeOK,
         OutcomesType, Aborting, Published
    <3>4. CASE ~Unclaimed(n)
      BY <1>5, <2>1, <3>2, <3>4 DEF ClaimSettled, Unclaimed, NodeLedger, Owes, NodeFinish, TypeOK,
         OutcomesType, Aborting, Published
    <3>5. QED  BY <3>3, <3>4
  <2>3. \A m \in Nodes \ {n} : Kept(m)
    BY <1>2, <1>5 DEF Kept, ClaimSettled, TypeOK, OutcomesType
  <2>4. Onward
    BY <1>5 DEF ClaimSettled
  <2>5. QED  BY <2>2, <2>3, <2>4, OneLedgerTouched
<1>6. CASE AppendSettled
  <2>1. PICK n \in Nodes : n = emitting
    BY <1>6 DEF AppendSettled, TypeOK, LoopType
  <2>2. NodeFinish(n) /\ NodeLedger(n) /\ emitting' # n /\ ~Owes(n)
    BY <1>1, <1>6, <2>1 DEF AppendSettled, NodeFinish
  <2>3. NodeLedger(n)'
    BY <1>6, <2>1, <2>2 DEF AppendSettled, AppendFinished, NodeFinish, NodeLedger, Owes, TypeOK, LogType
  <2>4. \A m \in Nodes \ {n} : Kept(m)
    BY <1>2, <1>6, <2>1 DEF Kept, AppendSettled, AppendFinished, TypeOK, LogType
  <2>5. Onward
    BY <1>6 DEF AppendSettled
  <2>6. QED  BY <2>3, <2>4, <2>5, OneLedgerTouched
<1>7. CASE Wake \/ PollNothing \/ Return \/ Branch
  <2>1. \A m \in Nodes : Kept(m)
    BY <1>7 DEF Kept, Wake, PollNothing, Return, Branch
  <2>2. Onward
    BY <1>7 DEF Wake, PollNothing, Return, Branch
  <2>3. QED  BY <2>1, <2>2, NoLedgerTouched
<1>8. CASE Dispatch
  <2>1. /\ UNCHANGED <<settled, emitting, states, outcome, finished, finishes, reported, teardown>>
        /\ settled = {} /\ emitting = Pending
    BY <1>1, <1>8 DEF Dispatch
  <2>2. ASSUME NEW n \in Nodes  PROVE NodeLedger(n)'
    <3>1. pc'[n] = pc[n] \/ (pc[n] = "idle" /\ pc'[n] \in {"group", "slot"})
      BY <1>8 DEF Dispatch, RunningClaim
    <3>2. QED  BY <1>1, <1>2, <2>1, <3>1 DEF NodeLedger, Owes, Published
  <2>3. QED  BY <2>2 DEF LedgerKept
<1>9. ASSUME NEW n \in Nodes, Settle(n)  PROVE LedgerKept'
  <2>1. NodeFinish(n) /\ NodeLedger(n) /\ states[n] = Pending /\ emitting # n /\ n \notin settled
    BY <1>1, <1>3, <1>9 DEF Settle, Aborting, NodeFinish
  <2>2. NodeLedger(n)'
    BY <1>9, <2>1 DEF Settle, Unclaimed, NodeFinish, NodeLedger, Owes, Published, TypeOK,
       OutcomesType, GoroutinesType
  <2>3. \A m \in Nodes \ {n} : Kept(m)
    BY <1>9 DEF Kept, Settle, TypeOK, OutcomesType, GoroutinesType
  <2>4. Onward
    BY <1>9 DEF Settle
  <2>5. QED  BY <2>2, <2>3, <2>4, OneLedgerTouched
<1>10. ASSUME NEW n \in Nodes, Report(n)  PROVE LedgerKept'
  <2>1. NodeFinish(n) /\ NodeLedger(n) /\ states[n] = Pending /\ emitting # n /\ n \notin settled
    BY <1>1, <1>3, <1>10 DEF Report, Aborting, NodeFinish
  <2>2. NodeLedger(n)'
    BY <1>10, <2>1 DEF Report, AppendFinished, NodeFinish, NodeLedger, Owes, Published, TypeOK,
       LogType, GoroutinesType
  <2>3. \A m \in Nodes \ {n} : Kept(m)
    BY <1>10 DEF Kept, Report, AppendFinished, TypeOK, LogType, GoroutinesType
  <2>4. Onward
    BY <1>10 DEF Report
  <2>5. QED  BY <2>2, <2>3, <2>4, OneLedgerTouched
<1>11. ASSUME NEW n \in Nodes, Goes(n), ~Settle(n), ~Report(n)  PROVE LedgerKept'
  <2>1. UNCHANGED <<states, settled, emitting, teardown>> /\ NodeLedger(n) /\ pc[n] # "idle"
    BY <1>1, <1>11, GoesInside, GoesTeardown DEF claimVars, Executing
  <2>2. /\ UNCHANGED <<finished, finishes, reported>>
        /\ \A m \in Nodes \ {n} : pc'[m] = pc[m] /\ outcome'[m] = outcome[m]
        /\ pc[n] \in Published <=> pc'[n] \in Published
        /\ pc[n] \in Published => outcome'[n] = outcome[n]
        /\ ~Owes(n)' /\ ~Owes(n)
        /\ pc[n] # "abort" /\ pc'[n] # "abort"
    BY <1>11, GoesLedger
  <2>3. NodeLedger(n)'
    BY <2>1, <2>2 DEF NodeLedger, Owes
  <2>4. \A m \in Nodes \ {n} : Kept(m)
    BY <2>1, <2>2 DEF Kept
  <2>5. QED  BY <2>1, <2>3, <2>4, OneLedgerTouched
<1>12. ASSUME NEW n \in Nodes, Leave(n) \/ LeaveRetry(n)  PROVE LedgerKept'
  <2>1. /\ NodeFinish(n) /\ NodeLedger(n) /\ states[n] = Pending /\ outcome[n] # Pending
        /\ pc[n] \in {"leave", "giveback"}
        /\ states' = [states EXCEPT ![n] = outcome[n]] /\ pc' = [pc EXCEPT ![n] = "idle"]
        /\ UNCHANGED <<settled, emitting, outcome, finished, finishes, reported, teardown>>
    BY <1>1, <1>3, <1>12 DEF Leave, LeaveRetry, NodeFinish, Decided, Aborting
  <2>2. NodeLedger(n)'
    BY <2>1 DEF NodeFinish, NodeLedger, Owes, Published, TypeOK, OutcomesType, GoroutinesType
  <2>3. \A m \in Nodes \ {n} : Kept(m)
    BY <2>1 DEF Kept, TypeOK, OutcomesType, GoroutinesType
  <2>4. QED  BY <2>1, <2>2, <2>3, OneLedgerTouched
<1>13. ASSUME NEW n \in Nodes, AbortRetry(n)  PROVE LedgerKept'
  <2>1. /\ NodeFinish(n) /\ NodeLedger(n) /\ states[n] = Pending /\ pc[n] = "slot"
        /\ states' = [states EXCEPT ![n] = "cancelled"] /\ pc' = [pc EXCEPT ![n] = "abort"]
        /\ UNCHANGED <<settled, emitting, outcome, finished, finishes, reported, teardown>>
    BY <1>1, <1>3, <1>13 DEF AbortRetry, Aborting
  <2>2. NodeLedger(n)'
    BY <2>1 DEF NodeFinish, NodeLedger, Owes, Published, TypeOK, OutcomesType, GoroutinesType, Pending
  <2>3. \A m \in Nodes \ {n} : Kept(m)
    BY <2>1 DEF Kept, TypeOK, OutcomesType, GoroutinesType
  <2>4. QED  BY <2>1, <2>2, <2>3, OneLedgerTouched
<1>14. ASSUME NEW n \in Nodes, ClaimAborted(n)  PROVE LedgerKept'
  <2>1. NodeFinish(n) /\ NodeLedger(n)
    BY <1>1
  <2>2. NodeLedger(n)'
    BY <1>14, <2>1 DEF ClaimAborted, Unclaimed, NodeFinish, NodeLedger, Owes, Published, Pending, TypeOK,
       OutcomesType, GoroutinesType
  <2>3. \A m \in Nodes \ {n} : Kept(m)
    BY <1>14 DEF Kept, ClaimAborted, TypeOK, OutcomesType, GoroutinesType
  <2>4. Onward
    BY <1>14 DEF ClaimAborted
  <2>5. QED  BY <2>2, <2>3, <2>4, OneLedgerTouched
<1>15. ASSUME NEW n \in Nodes, ReportAborted(n)  PROVE LedgerKept'
  <2>1. NodeFinish(n) /\ NodeLedger(n)
    BY <1>1
  <2>2. NodeLedger(n)'
    BY <1>15, <2>1 DEF ReportAborted, AppendFinished, NodeFinish, NodeLedger, Owes, Published, TypeOK,
       LogType, GoroutinesType
  <2>3. \A m \in Nodes \ {n} : Kept(m)
    BY <1>15 DEF Kept, ReportAborted, AppendFinished, TypeOK, LogType, GoroutinesType
  <2>4. Onward
    BY <1>15 DEF ReportAborted
  <2>5. QED  BY <2>2, <2>3, <2>4, OneLedgerTouched
<1>16. ASSUME NEW n \in Nodes, LeaveAborted(n) \/ EndCapture(n)  PROVE LedgerKept'
  <2>1. /\ NodeLedger(n) /\ pc[n] \in {"aborted", "capture"} /\ pc' = [pc EXCEPT ![n] = "idle"]
        /\ UNCHANGED <<settled, emitting, states, outcome, finished, finishes, reported, teardown>>
    BY <1>1, <1>16 DEF LeaveAborted, EndCapture
  <2>2. NodeLedger(n)'
    BY <2>1 DEF NodeLedger, Owes, Published, TypeOK, GoroutinesType
  <2>3. \A m \in Nodes \ {n} : Kept(m)
    BY <2>1 DEF Kept, TypeOK, GoroutinesType
  <2>4. QED  BY <2>1, <2>2, <2>3, OneLedgerTouched
<1>17. CASE Serve  BY <1>17, ServeLedger
<1>18. CASE Aside
  <2>1. UNCHANGED <<settled, emitting, states, pc, outcome>> /\ Onward
    BY <1>18, AsideFrame, AsideFinish, AsideTeardown DEF claimVars
  <2>2. CASE UNCHANGED <<finished, finishes, reported>>
    BY <2>1, <2>2, NoLedgerTouched DEF Kept
  <2>3. ASSUME NEW n \in Nodes, settleAbandoned(n)  PROVE LedgerKept'
    <3>1. NodeFinish(n) /\ NodeLedger(n) /\ ~Waiting /\ ~Waiting'
      BY <1>1, <2>3 DEF settleAbandoned
    <3>2. NodeLedger(n)'
      BY <2>1, <2>3, <3>1 DEF settleAbandoned, AppendFinished, Unclaimed, NodeFinish, NodeLedger, Owes,
         Pending, TypeOK, OutcomesType, LogType
    <3>3. \A m \in Nodes \ {n} : Kept(m)
      BY <2>1, <2>3 DEF Kept, settleAbandoned, AppendFinished, TypeOK, OutcomesType, LogType
    <3>4. QED  BY <2>1, <3>2, <3>3, OneLedgerTouched
  <2>4. QED  BY <1>18, <2>2, <2>3, AsideReports
<1>19. QED
  BY <1>4, <1>5, <1>6, <1>7, <1>8, <1>9, <1>10, <1>11, <1>12, <1>13, <1>14, <1>15,
     <1>16, <1>17, <1>18 DEF Next, LoopNext, StepNext, CommandNext, Goes, Aside

\* The stream and the claims agree throughout a run.
THEOREM LedgerSafe == Spec => []LedgerKept
<1>1. Init => LedgerKept
  BY PlanAssumption DEF Init, LedgerKept, NodeLedger, Owes, Published
<1>2. QED
  BY <1>1, TypeCorrect, RunningSafe, FinishSafe, EndgameSafe, LedgerStep, PTL DEF Spec

-----------------------------------------------------------------------------
(* The status run.finished rolls up.                                       *)

\* Teardown's result map is a snapshot of states or of finished, completed by
\* settleAbandoned: what it says of a step is what was claimed for it.
ResultKept ==
  /\ ~Waiting => \A n \in Nodes : result[n] # Pending => result[n] = finished[n]
  /\ teardown = "settling" => \A n \in Nodes : result[n] = Pending => n \in todo
  /\ teardown \in {"claiming", "always", "cleanup", "sealed"} => \A n \in Nodes : result[n] # Pending

\* Beside teardown the loop and the steps leave its variables alone, and the
\* first claim of a step.finished stays: nothing is unsettled any more.
LEMMA BesideTeardown ==
  ASSUME TypeOK, RunningClaim, Endgame, [Next]_vars, ~Aside
  PROVE  /\ UNCHANGED teardownVars
         /\ ~Waiting => \A n \in Nodes : finished[n] # Pending => finished'[n] = finished[n]
<1> USE DEF goto, GoFrame, ocVars, TypeOK, OutcomesType
<1>1. CASE Pass \/ AppendSettled \/ Branch \/ Wake \/ PollNothing \/ Dispatch \/ Return
  BY <1>1 DEF Pass, AppendSettled, Branch, Wake, PollNothing, Dispatch, Return
<1>2. ASSUME NEW n \in Nodes, ClaimSettled(n)
      PROVE  /\ UNCHANGED teardownVars
             /\ \A m \in Nodes : finished[m] # Pending => finished'[m] = finished[m]
  BY <1>2 DEF ClaimSettled, Unclaimed
<1>3. ASSUME NEW n \in Nodes, Goes(n)
      PROVE  /\ UNCHANGED teardownVars
             /\ \A m \in Nodes : finished[m] # Pending => finished'[m] = finished[m]
  <2>1. CASE Settle(n) \/ Report(n)
    BY <1>3, <2>1, GoesTeardown DEF Settle, Report, Unclaimed
  <2>2. CASE ~Settle(n) /\ ~Report(n)
    BY <1>3, <2>2, GoesTeardown, GoesLedger
  <2>3. QED  BY <2>1, <2>2
<1>4. ASSUME NEW n \in Nodes, \/ Leave(n) \/ LeaveRetry(n) \/ AbortRetry(n) \/ ReportAborted(n)
                              \/ LeaveAborted(n) \/ EndCapture(n) \/ ClaimAborted(n)
      PROVE  /\ UNCHANGED teardownVars
             /\ \A m \in Nodes : finished[m] # Pending => finished'[m] = finished[m]
  BY <1>4 DEF Leave, LeaveRetry, AbortRetry, ReportAborted, LeaveAborted, EndCapture, ClaimAborted,
     Unclaimed
<1>5. CASE Serve
  <2>1. UNCHANGED teardownVars
    BY <1>5 DEF Serve
  <2>2. CASE ~Waiting
    <3>1. ctxDone
      BY <1>5, <2>2 DEF Endgame, Serve, LoopOver
    <3>2. finished' = finished
      BY <1>5, <3>1, ServeClaims DEF handleStepRetry, handleStepSkip, handleRerunFrom, handleWSSnapshot
    <3>3. QED  BY <2>1, <3>2
  <2>3. QED  BY <2>1, <2>2
<1>6. QED
  BY <1>1, <1>2, <1>3, <1>4, <1>5 DEF Next, LoopNext, StepNext, CommandNext, Goes, Aside

\* Every action keeps the result map true to the claims.
LEMMA ResultStep ==
  ASSUME TypeOK, RunningClaim, FinishClaim, Endgame, LedgerKept, NotStuck, ResultKept, [Next]_vars
  PROVE  ResultKept'
<1> USE DEF ResultKept, Waiting, TypeOK, OutcomesType, TeardownType, Teardowns
<1>1. CASE ~Aside
  BY <1>1, BesideTeardown DEF teardownVars
<1>2. CASE ReleaseRetry \/ SendRequest \/ RefuseFinished \/ Interrupt \/ Terminated \/ UNCHANGED vars
  BY <1>2 DEF ReleaseRetry, SendRequest, RefuseFinished, Interrupt, Terminated, vars, ocVars, teardownVars
<1>3. CASE Abandon
  BY <1>3 DEF Abandon, ocVars
<1>4. CASE ScheduleReturned
  <2>1. /\ loop = "returned" /\ Waiting /\ teardown' = "claiming"
        /\ result' = states /\ finished' = finished
    BY <1>4 DEF ScheduleReturned, NotStuck, ocVars
  <2>2. \A n \in Nodes : states[n] # Pending /\ pc[n] = "idle" /\ n \notin settled
    BY <2>1 DEF Endgame, FinishClaim
  <2>3. \A n \in Nodes : finished[n] = states[n]
    BY <2>1, <2>2 DEF LedgerKept, NodeLedger
  <2>4. QED  BY <2>1, <2>2, <2>3
<1>5. ASSUME NEW n \in Nodes, settleAbandoned(n)  PROVE ResultKept'
  BY <1>5 DEF settleAbandoned, Unclaimed, Pending
<1>6. CASE SettledAbandoned
  BY <1>6 DEF SettledAbandoned, ocVars
<1>7. ASSUME NEW n \in Nodes, claimAlways(n) \/ StartAlways(n) \/ DropAlways(n) \/ FinishAlways(n)
      PROVE ResultKept'
  BY <1>7 DEF claimAlways, StartAlways, DropAlways, FinishAlways, ocVars
<1>8. CASE ClaimedAlways \/ SpendBudget \/ AlwaysEnded \/ Seal
  BY <1>8 DEF ClaimedAlways, SpendBudget, AlwaysEnded, Seal, ocVars
<1>9. QED
  BY <1>1, <1>2, <1>3, <1>4, <1>5, <1>6, <1>7, <1>8 DEF Aside, TeardownNext

\* The loop never decides on a dependency cycle.
THEOREM NotStuckSafe == Spec => []NotStuck
<1>1. Init => NotStuck
  BY DEF Init, NotStuck
<1>2. QED
  BY <1>1, TypeCorrect, NotStuckStep, PTL DEF Spec

\* The status run.finished rolls up and the stream never disagree about a
\* step, abandoned by teardown or not: what the ledger last said of it is what
\* emitFinal's result map says.
THEOREM ResultIsTheLedger == Spec => []ResultMatchesLedger
<1>1. Init => ResultKept
  BY DEF Init, ResultKept, Waiting
<1>2. FinishClaim /\ LedgerKept /\ ResultKept => ResultMatchesLedger
  BY DEF FinishClaim, NodeFinish, LedgerKept, NodeLedger, ResultKept, Waiting, ResultMatchesLedger, sealed
<1>3. QED
  BY <1>1, <1>2, TypeCorrect, RunningSafe, FinishSafe, EndgameSafe, LedgerSafe, NotStuckSafe,
     ResultStep, PTL DEF Spec

-----------------------------------------------------------------------------
(* Attempt numbers and handler passes.                                     *)

Trying == {"attempt", "held", "judge", "backoff", "regroup", "reslot"}

\* Where the goroutine's attempt is past the recorded high-water mark, and
\* where a handler pass may still run against it.
Fresh == Trying \cup {"lookup", "finish"}
Handling == {"report", "onfailure", "always", "claim", "cleanup"}

Retrying(n) == pc[n] = "slot" /\ task[n] = "retry"

\* attempts is the high-water mark of what the stream started and of what a
\* handler ran against, except while an execution is beyond it.
NodeAttempt(n) ==
  /\ pc[n] = "group" => task[n] = "step"
  /\ pc[n] = "lookup" \/ Retrying(n) => started[n] < attempt[n]
  /\ pc[n] \in Trying => started[n] <= attempt[n]
  /\ Waiting =>
       /\ pc[n] \in Fresh \/ Retrying(n) => attempts[n] < attempt[n]
       /\ pc[n] \in Fresh \cup {"conclude"} => started[n] <= attempt[n]
       /\ pc[n] \notin Fresh \cup {"conclude"} => started[n] <= attempts[n]
       /\ \A a \in handled[n] : a <= attempts[n]
       /\ pc[n] \in Handling => attempt[n] \in 1..attempts[n]
       /\ pc[n] \in Handling /\ handlerAnchors[n] = 0 => \A a \in handled[n] : a < attempt[n]

AttemptsKept == \A n \in Nodes : NodeAttempt(n)

SameAttempt(n) ==
  /\ pc'[n] = pc[n] /\ task'[n] = task[n] /\ attempt'[n] = attempt[n] /\ attempts'[n] = attempts[n]
  /\ started'[n] = started[n] /\ handled'[n] = handled[n] /\ handlerAnchors'[n] = handlerAnchors[n]

\* A step that leaves a node's numbers alone.
LEMMA AttemptUntouched ==
  ASSUME NEW n \in Nodes, NodeAttempt(n), SameAttempt(n), ~Waiting => ~Waiting'
  PROVE  NodeAttempt(n)'
BY DEF NodeAttempt, SameAttempt, Waiting, Retrying

\* Inside an execution a goroutine moves its own numbers only.
LEMMA GoesAttempt ==
  ASSUME TypeOK, NEW n \in Nodes, Goes(n)
  PROVE  \A m \in Nodes \ {n} : SameAttempt(m)
<1> USE DEF SameAttempt, goto, ocVars, localVars, logVars, ledger, TypeOK, GoroutinesType, OutcomesType, LogType
<1>1. CASE EnterGroup(n)  BY <1>1 DEF EnterGroup
<1>2. CASE StartStep(n)  BY <1>2 DEF StartStep, BeginAttempt
<1>3. CASE CacheLookup(n)  BY <1>3 DEF CacheLookup, BeginAttempt
<1>4. CASE EndAttempt(n)  BY <1>4 DEF EndAttempt
<1>5. CASE EndHold(n)  BY <1>5 DEF EndHold
<1>6. CASE Judge(n)  BY <1>6 DEF Judge
<1>7. CASE EndBackoff(n)  BY <1>7 DEF EndBackoff
<1>8. CASE CancelRetry(n)  BY <1>8 DEF CancelRetry
<1>9. CASE NextAttempt(n)  BY <1>9 DEF NextAttempt, BeginAttempt
<1>10. CASE Settle(n)  BY <1>10 DEF Settle, recordAttempt
<1>11. CASE Report(n)  BY <1>11 DEF Report, AppendFinished
<1>12. CASE RunOnFailure(n)  BY <1>12 DEF RunOnFailure, recordHandlerRan
<1>13. CASE AlwaysAtSettle(n)  BY <1>13 DEF AlwaysAtSettle
<1>14. CASE claimAlwaysAtSettle(n)  BY <1>14 DEF claimAlwaysAtSettle
<1>15. CASE EndAlways(n)  BY <1>15 DEF EndAlways, recordHandlerRan
<1>16. CASE GiveBack(n)  BY <1>16 DEF GiveBack
<1>17. CASE StartRetry(n)  BY <1>17 DEF StartRetry, BeginAttempt
<1>18. CASE JudgeRetry(n)  BY <1>18 DEF JudgeRetry
<1>19. QED
  BY <1>1, <1>2, <1>3, <1>4, <1>5, <1>6, <1>7, <1>8, <1>9, <1>10, <1>11, <1>12,
     <1>13, <1>14, <1>15, <1>16, <1>17, <1>18 DEF Goes

\* ...and keeps them in order: a step that starts its first attempt under a
\* live context does so before teardown, from the high-water mark.
LEMMA GoesNumbers ==
  ASSUME TypeOK, RunningClaim, Endgame, LedgerKept, NEW n \in Nodes, NodeAttempt(n), Goes(n)
  PROVE  NodeAttempt(n)'
<1> USE DEF NodeAttempt, Retrying, Trying, Fresh, Handling, Waiting, goto, ocVars, localVars, logVars, ledger,
            TypeOK, GoroutinesType, OutcomesType, LogType
<1>1. teardown' = teardown
  BY GoesTeardown DEF teardownVars
<1>2. CASE EnterGroup(n)  BY <1>1, <1>2 DEF EnterGroup
<1>3. CASE StartStep(n)
  <2>1. ctxDone \/ Waiting
    BY <1>3 DEF StartStep, Endgame
  <2>2. CASE ctxDone
    BY <1>1, <1>3, <2>2 DEF StartStep
  <2>3. CASE ~ctxDone /\ Waiting
    BY <1>1, <1>3, <2>3 DEF StartStep, BeginAttempt, sealed
  <2>4. QED  BY <2>1, <2>2, <2>3
<1>4. CASE CacheLookup(n)  BY <1>1, <1>4 DEF CacheLookup, BeginAttempt
<1>5. CASE EndAttempt(n)
  <2>1. /\ pc[n] = "attempt" /\ UNCHANGED <<task, attempt, attempts, started, handled, handlerAnchors>>
        /\ pc' = [pc EXCEPT ![n] = "held"] \/ pc' = [pc EXCEPT ![n] = "judge"]
    BY <1>5 DEF EndAttempt
  <2>2. QED  BY <1>1, <2>1
<1>6. CASE EndHold(n)  BY <1>1, <1>6 DEF EndHold
<1>7. CASE Judge(n)  BY <1>1, <1>7 DEF Judge
<1>8. CASE EndBackoff(n)  BY <1>1, <1>8 DEF EndBackoff
<1>9. CASE CancelRetry(n)  BY <1>1, <1>9 DEF CancelRetry
<1>10. CASE NextAttempt(n)  BY <1>1, <1>10 DEF NextAttempt, BeginAttempt
<1>11. CASE Settle(n)
  <2>1. Waiting => Unclaimed(n)
    BY <1>11 DEF Settle, RunningClaim, Aborting, LedgerKept, NodeLedger, Published, Unclaimed
  <2>2. QED  BY <1>1, <1>11, <2>1 DEF Settle, recordAttempt
<1>12. CASE Report(n)  BY <1>1, <1>12 DEF Report, AppendFinished
<1>13. CASE RunOnFailure(n)  BY <1>1, <1>13 DEF RunOnFailure, recordHandlerRan
<1>14. CASE AlwaysAtSettle(n)  BY <1>1, <1>14 DEF AlwaysAtSettle
<1>15. CASE claimAlwaysAtSettle(n)  BY <1>1, <1>15 DEF claimAlwaysAtSettle
<1>16. CASE EndAlways(n)  BY <1>1, <1>16 DEF EndAlways, recordHandlerRan
<1>17. CASE GiveBack(n)  BY <1>1, <1>17 DEF GiveBack
<1>18. CASE StartRetry(n)  BY <1>1, <1>18 DEF StartRetry, BeginAttempt
<1>19. CASE JudgeRetry(n)  BY <1>1, <1>19 DEF JudgeRetry
<1>20. QED
  BY <1>2, <1>3, <1>4, <1>5, <1>6, <1>7, <1>8, <1>9, <1>10, <1>11, <1>12,
     <1>13, <1>14, <1>15, <1>16, <1>17, <1>18, <1>19 DEF Goes

\* Outside the loop and the steps the numbers stay, and only FinishAlways
\* records a handler pass.
LEMMA AsideNumbers ==
  ASSUME Aside
  PROVE  /\ UNCHANGED <<task, attempt, attempts, started, superseded>>
         /\ UNCHANGED <<handled, handlerAnchors>> \/ (~Waiting /\ \E n \in Nodes : FinishAlways(n))
<1> USE DEF ocVars, goVars, localVars, logVars, ledger, TeardownFrame
<1>1. CASE ReleaseRetry \/ SendRequest \/ RefuseFinished \/ Interrupt \/ Abandon
  BY <1>1 DEF ReleaseRetry, SendRequest, RefuseFinished, Interrupt, Abandon
<1>2. CASE TeardownNext
  BY <1>2 DEF TeardownNext, ScheduleReturned, settleAbandoned, AppendFinished, claimAlways, StartAlways,
     DropAlways, FinishAlways, SettledAbandoned, ClaimedAlways, SpendBudget, AlwaysEnded, Seal, Waiting
<1>3. CASE Terminated \/ UNCHANGED vars
  BY <1>3 DEF Terminated, vars
<1>4. QED  BY <1>1, <1>2, <1>3 DEF Aside

\* A control handler unsettles nodes without a goroutine, and a retry starts
\* one past the high-water mark.
LEMMA ServeNumbers ==
  ASSUME TypeOK, RunningClaim, Endgame, AttemptsKept, Serve
  PROVE  AttemptsKept'
<1>1. /\ UNCHANGED <<teardown, handled>> /\ request.step \in Nodes /\ ~LoopOver
  BY ServeClaims DEF Serve, LoopOver
<1> PICK n \in Nodes : n = request.step
  BY <1>1
<1>2. ~ctxDone => \A k \in Nodes : k \notin running => pc[k] = "idle"
  BY Zenon DEF RunningClaim
<1>3. ~ctxDone => Waiting
  BY <1>1 DEF Endgame
<1>4. SUFFICES ASSUME NEW m \in Nodes  PROVE NodeAttempt(m)'
  BY DEF AttemptsKept
<1>5. NodeAttempt(m)
  BY DEF AttemptsKept
<1> USE DEF TypeOK, OutcomesType, GoroutinesType, LogType, NodeAttempt, Retrying, Waiting, Trying, Fresh,
            Handling
<1>6. CASE handleStepRetry(n)
  <2>1. /\ ~ctxDone /\ n \notin running /\ UNCHANGED <<attempts, started>>
        /\ handlerAnchors' = [k \in Nodes |-> IF k \in {n} THEN 0 ELSE handlerAnchors[k]]
        /\ pc' = [pc EXCEPT ![n] = "slot"] /\ task' = [task EXCEPT ![n] = "retry"]
        /\ attempt' = [attempt EXCEPT ![n] = attempts[n] + 1]
    BY <1>6 DEF handleStepRetry, CanRetry, UnsettleAll, TakeAnchors, Launch, goto
  <2>2. QED  BY <1>1, <1>2, <1>3, <1>5, <2>1
<1>7. CASE handleRerunFrom(n)
  <2> DEFINE S == {k \in dependentsClosure[n] : states[k] # Pending}
  <2>1. /\ S \subseteq Nodes /\ S \cap running = {} /\ ~ctxDone
        /\ handlerAnchors' = [k \in Nodes |-> IF k \in S THEN 0 ELSE handlerAnchors[k]]
        /\ UNCHANGED <<attempt, attempts, started, pc, task>>
    <3>1. S \subseteq Nodes
      BY DEF dependentsClosure
    <3>2. QED
      BY <1>7, <3>1 DEF handleRerunFrom, CanRerun, UnsettleAll, TakeAnchors, localVars
  <2> HIDE DEF S
  <2>2. \A k \in S : pc[k] = "idle"
    BY <1>2, <2>1
  <2>3. QED  BY <1>1, <1>5, <2>1, <2>2
<1>8. CASE handleWSSnapshot(n)
  <2>1. /\ ~ctxDone /\ n \notin running
        /\ pc' = [pc EXCEPT ![n] = "capture"] /\ task' = [task EXCEPT ![n] = "snapshot"]
        /\ UNCHANGED <<attempt, attempts, started, handlerAnchors>>
    BY <1>8 DEF handleWSSnapshot, CanSkip, Launch, goto, localVars, ledger
  <2>2. QED  BY <1>1, <1>2, <1>5, <2>1
<1>9. CASE UNCHANGED <<pc, task, attempt, attempts, started, handlerAnchors>>
  BY <1>1, <1>5, <1>9
<1>10. CASE \/ handleRunCancel \/ refuse(request) \/ handleStepSkip(n)
            \/ \E op \in {"run.pause", "run.resume"} : handleRunPause(op)
            \/ \E op \in {"breakpoint.set", "breakpoint.clear"} : handleBreakpoint(request.step, op)
  BY <1>9, <1>10 DEF handleRunCancel, refuse, handleRunPause, handleBreakpoint, handleStepSkip,
     AppendFinished, ocVars, goVars, localVars, ledger
<1>11. QED
  BY <1>6, <1>7, <1>8, <1>10 DEF Serve, serveControl

\* Every action keeps the attempt numbers in order.
LEMMA AttemptStep ==
  ASSUME TypeOK, RunningClaim, Endgame, LedgerKept, AttemptsKept, [Next]_vars
  PROVE  AttemptsKept'
<1> USE DEF goto, GoFrame, loopVars, ocVars, goVars, localVars, logVars, ledger, teardownVars,
            TypeOK, GoroutinesType, OutcomesType, LogType
<1>1. \A n \in Nodes : NodeAttempt(n)
  BY DEF AttemptsKept
<1>2. CASE Pass \/ AppendSettled \/ Branch \/ Wake \/ PollNothing \/ Return
  <2>1. (\A m \in Nodes : SameAttempt(m)) /\ teardown' = teardown
    BY <1>2 DEF Pass, AppendSettled, AppendFinished, Branch, Wake, PollNothing, Return, SameAttempt
  <2>2. QED  BY <1>1, <2>1, AttemptUntouched DEF AttemptsKept, Waiting
<1>3. ASSUME NEW n \in Nodes, ClaimSettled(n)  PROVE AttemptsKept'
  <2>1. (\A m \in Nodes : SameAttempt(m)) /\ teardown' = teardown
    BY <1>3 DEF ClaimSettled, SameAttempt
  <2>2. QED  BY <1>1, <2>1, AttemptUntouched DEF AttemptsKept, Waiting
<1>4. CASE Dispatch
  <2>1. SUFFICES ASSUME NEW n \in Nodes  PROVE NodeAttempt(n)'
    BY DEF AttemptsKept
  <2>2. /\ n \in ready => pc[n] = "idle" /\ pc'[n] \in {"group", "slot"} /\ task'[n] = "step"
        /\ n \notin ready => pc'[n] = pc[n] /\ task'[n] = task[n]
        /\ UNCHANGED <<attempt, attempts, started, handled, handlerAnchors, teardown>>
    BY <1>4 DEF Dispatch, RunningClaim
  <2>3. QED
    BY <1>1, <2>2 DEF NodeAttempt, Retrying, Trying, Fresh, Handling, Waiting
<1>5. ASSUME NEW n \in Nodes, Goes(n)  PROVE AttemptsKept'
  <2>1. NodeAttempt(n)' /\ teardown' = teardown
    BY <1>1, <1>5, GoesNumbers, GoesTeardown
  <2>2. QED
    BY <1>1, <1>5, <2>1, GoesAttempt, AttemptUntouched DEF AttemptsKept, Waiting
<1>6. ASSUME NEW n \in Nodes, \/ Leave(n) \/ LeaveRetry(n) \/ AbortRetry(n) \/ ReportAborted(n)
                              \/ LeaveAborted(n) \/ EndCapture(n) \/ ClaimAborted(n)
      PROVE  AttemptsKept'
  <2>1. /\ UNCHANGED <<attempt, attempts, started, handled, handlerAnchors, teardown>>
        /\ \A m \in Nodes \ {n} : pc'[m] = pc[m] /\ task'[m] = task[m]
        /\ pc[n] \in {"leave", "giveback", "slot", "abortreport", "aborted", "capture", "abort"}
        /\ pc'[n] \in {"idle", "abort", "aborted", "abortreport"}
    BY <1>6 DEF Leave, LeaveRetry, AbortRetry, ReportAborted, AppendFinished, LeaveAborted, EndCapture,
       ClaimAborted
  <2>2. NodeAttempt(n)'
    BY <1>1, <2>1 DEF NodeAttempt, Retrying, Trying, Fresh, Handling, Waiting
  <2>3. \A m \in Nodes \ {n} : SameAttempt(m)
    BY <2>1 DEF SameAttempt
  <2>4. QED  BY <1>1, <2>1, <2>2, <2>3, AttemptUntouched DEF AttemptsKept, Waiting
<1>7. CASE Serve  BY <1>7, ServeNumbers
<1>8. CASE Aside
  <2>1. pc' = pc /\ (~Waiting => ~Waiting')
    BY <1>8, AsideFrame, AsideTeardown
  <2>2. UNCHANGED <<task, attempt, attempts, started>>
    BY <1>8, AsideNumbers
  <2>3. CASE UNCHANGED <<handled, handlerAnchors>>
    BY <1>1, <2>1, <2>2, <2>3, AttemptUntouched DEF AttemptsKept, SameAttempt
  <2>4. CASE ~Waiting
    BY <1>1, <2>1, <2>2, <2>4 DEF AttemptsKept, NodeAttempt, Retrying
  <2>5. QED  BY <1>8, <2>3, <2>4, AsideNumbers
<1>9. QED
  BY <1>2, <1>3, <1>4, <1>5, <1>6, <1>7, <1>8 DEF Next, LoopNext, StepNext, CommandNext, Goes, Aside

\* The attempt numbers are in order throughout a run.
THEOREM AttemptsSafe == Spec => []AttemptsKept
<1>1. Init => AttemptsKept
  BY DEF Init, AttemptsKept, NodeAttempt, Retrying, Trying, Fresh, Handling
<1>2. QED
  BY <1>1, TypeCorrect, RunningSafe, EndgameSafe, LedgerSafe, AttemptStep, PTL DEF Spec

\* The four ways an attempt starts.
LEMMA AttemptStarts ==
  ASSUME TypeOK, [Next]_vars, NEW n \in Nodes, pc[n] # "attempt", pc'[n] = "attempt"
  PROVE  StartStep(n) \/ CacheLookup(n) \/ NextAttempt(n) \/ StartRetry(n)
<1> USE DEF goto, loopVars, goVars, TypeOK, GoroutinesType
<1>1. CASE Pass \/ AppendSettled \/ Branch \/ Wake \/ PollNothing \/ Return \/ Dispatch
  BY <1>1 DEF Pass, AppendSettled, Branch, Wake, PollNothing, Return, Dispatch
<1>2. ASSUME NEW m \in Nodes, ClaimSettled(m)  PROVE FALSE
  BY <1>2 DEF ClaimSettled
<1>3. ASSUME NEW m \in Nodes, Goes(m), ~(StartStep(m) \/ CacheLookup(m) \/ NextAttempt(m) \/ StartRetry(m))
      PROVE  FALSE
  <2>1. CASE \/ EnterGroup(m) \/ EndHold(m) \/ Judge(m) \/ EndBackoff(m) \/ CancelRetry(m) \/ Settle(m)
    BY <2>1 DEF EnterGroup, EndHold, Judge, EndBackoff, CancelRetry, Settle
  <2>2. CASE \/ EndAttempt(m) \/ Report(m) \/ RunOnFailure(m) \/ AlwaysAtSettle(m) \/ claimAlwaysAtSettle(m)
             \/ EndAlways(m) \/ GiveBack(m) \/ JudgeRetry(m)
    BY <2>2 DEF EndAttempt, Report, RunOnFailure, AlwaysAtSettle, claimAlwaysAtSettle, EndAlways, GiveBack,
       JudgeRetry
  <2>3. QED  BY <1>3, <2>1, <2>2 DEF Goes
<1>4. ASSUME NEW m \in Nodes, Goes(m), StartStep(m) \/ CacheLookup(m) \/ NextAttempt(m) \/ StartRetry(m)
      PROVE  m = n
  BY <1>4 DEF StartStep, CacheLookup, NextAttempt, StartRetry
<1>5. ASSUME NEW m \in Nodes, \/ Leave(m) \/ LeaveRetry(m) \/ AbortRetry(m) \/ ReportAborted(m)
                              \/ LeaveAborted(m) \/ EndCapture(m) \/ ClaimAborted(m)
      PROVE  FALSE
  BY <1>5 DEF Leave, LeaveRetry, AbortRetry, ReportAborted, LeaveAborted, EndCapture, ClaimAborted
<1>6. CASE Serve
  BY <1>6, ServeClaims DEF handleStepRetry, handleStepSkip, handleRerunFrom, handleWSSnapshot, Launch
<1>7. CASE Aside
  BY <1>7, AsideFrame
<1>8. QED
  BY <1>1, <1>2, <1>3, <1>4, <1>5, <1>6, <1>7 DEF Next, LoopNext, StepNext, CommandNext, Goes, Aside

\* Attempt numbers are never reused: every attempt that starts, whether a
\* dispatch, runStep's retry loop or step.retry starts it, has a higher number
\* than any step.started the ledger and the log files already know.
THEOREM AttemptsAreFresh == Spec => FreshAttempts
<1>1. ASSUME TypeOK, Endgame, AttemptsKept, [Next]_vars, NEW n \in Nodes,
             pc[n] # "attempt", pc'[n] = "attempt"
      PROVE  attempt'[n] > started[n]
  <2>1. NodeAttempt(n)
    BY <1>1 DEF AttemptsKept
  <2> USE <1>1, <2>1 DEF goto, TypeOK, GoroutinesType, OutcomesType, LogType, NodeAttempt, Retrying, Trying,
                    Waiting
  <2>2. CASE StartStep(n)
    <3>1. ~ctxDone /\ Waiting
      BY <2>2 DEF StartStep, Endgame
    <3>2. QED  BY <2>2, <3>1 DEF StartStep, Fresh
  <2>3. CASE CacheLookup(n)  BY <2>3 DEF CacheLookup
  <2>4. CASE NextAttempt(n)  BY <2>4 DEF NextAttempt
  <2>5. CASE StartRetry(n)  BY <2>5 DEF StartRetry
  <2>6. QED  BY <2>2, <2>3, <2>4, <2>5, AttemptStarts
<1>2. TypeOK /\ Endgame /\ AttemptsKept /\ [Next]_vars
        => [\A n \in Nodes : pc[n] # "attempt" /\ pc'[n] = "attempt" => attempt'[n] > started[n]]_vars
  BY <1>1
<1>3. QED
  BY <1>2, TypeCorrect, EndgameSafe, AttemptsSafe, PTL DEF Spec, FreshAttempts

\* Each handler.superseded takes back a pass of its own: a pass whose anchor
\* is still there has not been taken back.
NodeEvidence(n) ==
  /\ IsFiniteSet(handled[n])
  /\ superseded[n] <= Cardinality(handled[n])
  /\ Waiting /\ handlerAnchors[n] # 0 => superseded[n] < Cardinality(handled[n])

EvidenceKept == \A n \in Nodes : NodeEvidence(n)

\* A handler pass against an attempt no pass ran against yet is new evidence.
LEMMA PassRan ==
  ASSUME TypeOK, AttemptsKept, EvidenceKept, NEW n \in Nodes, recordHandlerRan(n), pc[n] \in Handling,
         UNCHANGED <<superseded, teardown>>
  PROVE  EvidenceKept'
<1> USE DEF TypeOK, OutcomesType, GoroutinesType, LogType, NodeEvidence, Waiting
<1>1. NodeAttempt(n) /\ NodeEvidence(n)
  BY DEF AttemptsKept, EvidenceKept
<1>2. /\ handled'[n] = handled[n] \cup {attempt[n]} /\ handlerAnchors'[n] = attempt[n]
      /\ \A m \in Nodes \ {n} : handled'[m] = handled[m] /\ handlerAnchors'[m] = handlerAnchors[m]
  BY DEF recordHandlerRan
<1>3. /\ IsFiniteSet(handled'[n]) /\ Cardinality(handled[n]) \in Nat
      /\ Cardinality(handled'[n]) = IF attempt[n] \in handled[n] THEN Cardinality(handled[n])
                                    ELSE Cardinality(handled[n]) + 1
  <2>1. IsFiniteSet(handled[n])
    BY <1>1
  <2>2. /\ IsFiniteSet(handled[n] \cup {attempt[n]})
        /\ Cardinality(handled[n] \cup {attempt[n]})
             = IF attempt[n] \in handled[n] THEN Cardinality(handled[n]) ELSE Cardinality(handled[n]) + 1
    BY <2>1, FS_AddElement
  <2>3. QED  BY <1>2, <2>1, <2>2, FS_CardinalityType
<1>4. Waiting /\ handlerAnchors[n] = 0 => attempt[n] \notin handled[n]
  BY <1>1 DEF NodeAttempt
<1>5. superseded[n] \in Nat /\ superseded'[n] = superseded[n] /\ (Waiting' <=> Waiting)
  OBVIOUS
<1>6. NodeEvidence(n)'
  <2>1. CASE attempt[n] \in handled[n]
    BY <1>1, <1>2, <1>3, <1>4, <1>5, <2>1
  <2>2. CASE attempt[n] \notin handled[n]
    BY <1>1, <1>2, <1>3, <1>5, <2>2
  <2>3. QED  BY <2>1, <2>2
<1>7. \A m \in Nodes \ {n} : NodeEvidence(m)'
  BY <1>2 DEF EvidenceKept
<1>8. QED  BY <1>6, <1>7 DEF EvidenceKept

\* Whoever unsettles a node takes its anchor and emits one handler.superseded.
LEMMA UnsettleEvidence ==
  ASSUME TypeOK, Endgame, EvidenceKept, NEW S, UnsettleAll(S), Waiting, UNCHANGED <<handled, teardown>>
  PROVE  EvidenceKept'
<1>1. SUFFICES ASSUME NEW n \in Nodes  PROVE NodeEvidence(n)'
  BY DEF EvidenceKept
<1>2. NodeEvidence(n) /\ Cardinality(handled[n]) \in Nat
  BY FS_CardinalityType DEF EvidenceKept, NodeEvidence
<1>3. /\ handlerAnchors'[n] = IF n \in S THEN 0 ELSE handlerAnchors[n]
      /\ superseded'[n] = IF n \in S /\ handlerAnchors[n] # 0 THEN superseded[n] + 1 ELSE superseded[n]
  BY DEF UnsettleAll, TakeAnchors, sealed, Waiting
<1>4. QED
  BY <1>2, <1>3 DEF NodeEvidence, Waiting, TypeOK, OutcomesType, LogType

\* Every action keeps the count.
LEMMA EvidenceStep ==
  ASSUME TypeOK, RunningClaim, Endgame, AttemptsKept, EvidenceKept, [Next]_vars
  PROVE  EvidenceKept'
<1> USE DEF goto, GoFrame, loopVars, ocVars, goVars, localVars, logVars, ledger, teardownVars
<1>1. ASSUME UNCHANGED <<handled, superseded, handlerAnchors>>, ~Waiting => ~Waiting'
      PROVE  EvidenceKept'
  BY <1>1 DEF EvidenceKept, NodeEvidence
<1>2. CASE Pass \/ AppendSettled \/ Branch \/ Wake \/ PollNothing \/ Dispatch \/ Return
  <2>1. UNCHANGED <<handled, superseded, handlerAnchors, teardown>>
    BY <1>2 DEF Pass, AppendSettled, AppendFinished, Branch, Wake, PollNothing, Return, Dispatch
  <2>2. QED  BY <1>1, <2>1 DEF Waiting
<1>3. ASSUME NEW n \in Nodes, ClaimSettled(n)  PROVE EvidenceKept'
  BY <1>1, <1>3 DEF ClaimSettled, Waiting
<1>4. ASSUME NEW n \in Nodes, RunOnFailure(n)  PROVE EvidenceKept'
  <2>1. CASE recordHandlerRan(n)
    BY <1>4, <2>1, PassRan DEF RunOnFailure, Handling
  <2>2. CASE UNCHANGED <<handlerAnchors, handled>>
    BY <1>1, <1>4, <2>2 DEF RunOnFailure, Waiting
  <2>3. QED  BY <1>4, <2>1, <2>2 DEF RunOnFailure
<1>5. ASSUME NEW n \in Nodes, EndAlways(n)  PROVE EvidenceKept'
  BY <1>5, PassRan DEF EndAlways, Handling
<1>6. ASSUME NEW n \in Nodes, Goes(n), ~RunOnFailure(n), ~EndAlways(n)  PROVE EvidenceKept'
  <2>1. teardown' = teardown
    BY <1>6, GoesTeardown
  <2>2. CASE \/ EnterGroup(n) \/ EndHold(n) \/ Judge(n) \/ EndBackoff(n) \/ CancelRetry(n) \/ Settle(n)
             \/ EndAttempt(n) \/ AlwaysAtSettle(n) \/ claimAlwaysAtSettle(n) \/ GiveBack(n) \/ JudgeRetry(n)
    BY <1>1, <2>1, <2>2 DEF EnterGroup, EndHold, Judge, EndBackoff, CancelRetry, Settle, EndAttempt,
       AlwaysAtSettle, claimAlwaysAtSettle, GiveBack, JudgeRetry, Waiting
  <2>3. CASE StartStep(n) \/ CacheLookup(n) \/ NextAttempt(n) \/ StartRetry(n) \/ Report(n)
    BY <1>1, <2>1, <2>3 DEF StartStep, CacheLookup, NextAttempt, StartRetry, BeginAttempt, Report,
       AppendFinished, Waiting
  <2>4. QED  BY <1>6, <2>2, <2>3 DEF Goes
<1>7. ASSUME NEW n \in Nodes, \/ Leave(n) \/ LeaveRetry(n) \/ AbortRetry(n) \/ ReportAborted(n)
                              \/ LeaveAborted(n) \/ EndCapture(n) \/ ClaimAborted(n)
      PROVE  EvidenceKept'
  BY <1>1, <1>7 DEF Leave, LeaveRetry, AbortRetry, ReportAborted, AppendFinished, LeaveAborted, EndCapture,
     ClaimAborted, Waiting
<1>8. CASE Serve
  <2>1. UNCHANGED <<teardown, handled>> /\ request.step \in Nodes /\ (~ctxDone => Waiting)
    BY <1>8, ServeClaims DEF Serve, LoopOver, Endgame
  <2>2. CASE handleStepRetry(request.step) \/ handleRerunFrom(request.step)
    BY <2>1, <2>2, UnsettleEvidence DEF handleStepRetry, handleRerunFrom
  <2>3. CASE \/ handleRunCancel \/ refuse(request) \/ handleStepSkip(request.step) \/ handleWSSnapshot(request.step)
             \/ \E op \in {"run.pause", "run.resume"} : handleRunPause(op)
             \/ \E op \in {"breakpoint.set", "breakpoint.clear"} : handleBreakpoint(request.step, op)
    BY <1>1, <2>1, <2>3 DEF handleRunCancel, refuse, handleRunPause, handleBreakpoint, handleStepSkip,
       handleWSSnapshot, AppendFinished, Waiting
  <2>4. QED  BY <1>8, <2>2, <2>3 DEF Serve, serveControl
<1>9. CASE Aside
  <2>1. superseded' = superseded /\ (~Waiting => ~Waiting')
    BY <1>9, AsideNumbers, AsideTeardown
  <2>2. ASSUME NEW n \in Nodes, FinishAlways(n), ~Waiting  PROVE EvidenceKept'
    <3>1. SUFFICES ASSUME NEW m \in Nodes  PROVE NodeEvidence(m)'
      BY DEF EvidenceKept
    <3>2. handled'[m] = IF m = n THEN handled[m] \cup {attempts[m]} ELSE handled[m]
      BY <2>2 DEF FinishAlways, TypeOK, LogType
    <3>3. NodeEvidence(m) /\ superseded[m] \in Nat /\ Cardinality(handled[m]) \in Nat
      BY FS_CardinalityType DEF EvidenceKept, NodeEvidence, TypeOK, LogType
    <3>4. /\ NodeEvidence(m) /\ superseded[m] \in Nat /\ Cardinality(handled[m]) \in Nat
          /\ IsFiniteSet(handled'[m]) /\ Cardinality(handled'[m]) >= Cardinality(handled[m])
      <4>1. CASE m # n
        BY <3>2, <3>3, <4>1 DEF NodeEvidence
      <4>2. CASE m = n
        <5>1. /\ IsFiniteSet(handled[m] \cup {attempts[m]})
              /\ Cardinality(handled[m] \cup {attempts[m]})
                   = IF attempts[m] \in handled[m] THEN Cardinality(handled[m]) ELSE Cardinality(handled[m]) + 1
          BY <3>3, FS_AddElement DEF NodeEvidence
        <5>2. QED  BY <3>2, <3>3, <4>2, <5>1
      <4>3. QED  BY <4>1, <4>2
    <3>5. Cardinality(handled'[m]) \in Nat
      BY <3>4, FS_CardinalityType
    <3>6. QED  BY <2>1, <2>2, <3>4, <3>5 DEF NodeEvidence
  <2>3. QED  BY <1>1, <1>9, <2>1, <2>2, AsideNumbers
<1>10. QED
  BY <1>2, <1>3, <1>4, <1>5, <1>6, <1>7, <1>8, <1>9 DEF Next, LoopNext, StepNext, CommandNext, Goes, Aside

\* No run takes back a handler pass twice.
THEOREM EvidenceSafe == Spec => []EvidenceKept
<1>1. Init => EvidenceKept
  BY FS_EmptySet DEF Init, EvidenceKept, NodeEvidence
<1>2. QED
  BY <1>1, TypeCorrect, RunningSafe, EndgameSafe, AttemptsSafe, EvidenceStep, PTL DEF Spec

\* When schedule returns by itself every step is in the ledger, once, in the
\* state the status is computed from; and handler.superseded never takes back
\* a handler pass that did not run.
THEOREM EveryStepIsReported == Spec => EveryStepReported
<1>1. ASSUME FinishClaim, Endgame, LedgerKept, ScheduleReturned, loop = "returned", NEW n \in Nodes
      PROVE  finishes[n] = 1 /\ reported[n] = states[n]
  <2>1. /\ Waiting /\ ~sealed /\ states[n] # Pending /\ pc[n] = "idle"
        /\ n \notin settled /\ emitting # n
    BY <1>1, PlanAssumption DEF ScheduleReturned, Waiting, sealed, Endgame, FinishClaim
  <2>2. finished[n] = states[n]
    BY <1>1, <2>1 DEF LedgerKept, NodeLedger
  <2>3. QED  BY <1>1, <2>1, <2>2 DEF LedgerKept, NodeLedger, Owes
<1>2. EvidenceKept => SupersededOnce
  BY DEF EvidenceKept, NodeEvidence, SupersededOnce
<1>3. ASSUME FinishClaim, Endgame, LedgerKept, EvidenceKept'
      PROVE  [/\ ScheduleReturned /\ loop = "returned" =>
                   \A n \in Nodes : finishes[n] = 1 /\ reported[n] = states[n]
              /\ SupersededOnce']_vars
  <2>1. SupersededOnce'
    BY <1>3 DEF EvidenceKept, NodeEvidence, SupersededOnce
  <2>2. QED  BY <1>1, <1>3, <2>1
<1>4. QED
  BY <1>3, FinishSafe, EndgameSafe, LedgerSafe, EvidenceSafe, PTL DEF EveryStepReported
=============================================================================
