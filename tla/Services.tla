------------------------------ MODULE Services ------------------------------
(***************************************************************************)
(* One service step of a run and the steps that need it                    *)
(* (internal/engine/service.go, and the parts of engine.go and control.go  *)
(* that dispatch, stop and revive a service).                              *)
(*                                                                         *)
(* svc.at is where the service's goroutine is; svc.stops says whether the  *)
(* loop still has its stop channel registered, svc.stop whether that       *)
(* channel is closed, svc.ready is outcomes.ready, svc.pending the entry   *)
(* of pendingRevive.  svc.execs, svc.entry and svc.heard are the           *)
(* serviceTable: the executions begun, the generation published (0: none)  *)
(* and the latest generation heard of.  svc.crashed is the set of          *)
(* generations whose process exited by itself.                             *)
(*                                                                         *)
(* job[c] is a consumer's goroutine: the generation it waits for, the      *)
(* generation whose address its environment has, the generation that was   *)
(* current when it was dispatched, and whether the run had decided by then *)
(* not to run the service.                                                 *)
(***************************************************************************)
EXTENDS Naturals, FiniteSets

CONSTANTS
    Consumers,      \* steps that need the service
    Slots,          \* Options.MaxParallel
    Ops             \* control requests that can still arrive

Svc == "service"

ASSUME ServicesAssumption ==
    /\ IsFiniteSet(Consumers) /\ Svc \notin Consumers
    /\ Slots \in Nat /\ Ops \in Nat

ServiceNodes == Consumers \cup {Svc}

VARIABLES svc, job, nodeState, busy, loopAt, free, runCancelled, paused, ops

serviceVars == <<svc, job, nodeState, busy, loopAt, free, runCancelled, paused, ops>>

Unsettled == "none"
Quiet == [at |-> "none", waits |-> 0, addr |-> 0, from |-> 0, alone |-> FALSE]

ServicesInit ==
    /\ svc = [at |-> "none", up |-> FALSE, stops |-> FALSE, stop |-> FALSE,
              ready |-> FALSE, pending |-> FALSE, execs |-> 0, entry |-> 0,
              heard |-> 0, slot |-> FALSE, end |-> Unsettled, crashed |-> {}]
    /\ job = [c \in Consumers |-> Quiet]
    /\ nodeState = [n \in ServiceNodes |-> Unsettled]
    /\ busy = {}
    /\ loopAt = "pass"
    /\ free = Slots
    /\ runCancelled = FALSE
    /\ paused = FALSE
    /\ ops = Ops

-----------------------------------------------------------------------------
(* The service table.                                                      *)

serviceRan(st) == st \in {"succeeded", "failed"}

\* serviceTable.begin: a new generation, before its goroutine exists.
Begun(s) == [s EXCEPT !.execs = @ + 1, !.at = "queued", !.stops = TRUE,
                      !.stop = FALSE, !.end = Unsettled]

heard(s, gen) == [s EXCEPT !.heard = IF gen > @ THEN gen ELSE @]

publish(s, gen) == heard([s EXCEPT !.entry = gen], gen)

\* Mutant: an execution that ends is not announced to who waits for it.
WithdrawSilently(s, gen) == [s EXCEPT !.entry = IF @ <= gen THEN 0 ELSE @]

withdraw(s, gen) == heard([s EXCEPT !.entry = IF @ <= gen THEN 0 ELSE @], gen)

readyAt(s, gen) == s.entry # 0 /\ s.entry >= gen

\* unsettleLocked, for the service: its record of being ready goes too.
Unready(s) == [s EXCEPT !.ready = FALSE]

-----------------------------------------------------------------------------
(* The loop.                                                               *)

\* satisfiedBy and skipPropagation, for a step whose only need is the service.
Blocks == nodeState[Svc] \notin {Unsettled, "succeeded"}
Inherited == IF nodeState[Svc] = "skipped_manual" THEN "skipped_manual" ELSE "skipped"

\* revivePendingLocked: runs in the same critical section as readySet.
Revives == /\ svc.pending /\ ~runCancelled /\ Svc \notin busy
           /\ serviceRan(nodeState[Svc])

revivePending ==
    [svc EXCEPT !.pending = @ /\ ~runCancelled /\ Svc \in busy,
                !.ready = @ /\ ~Revives]

\* One pass: restarts, readySet, and the marking of what it dispatches.
Pass ==
    /\ loopAt = "pass"
    /\ LET S == revivePending
           before == IF Revives THEN [nodeState EXCEPT ![Svc] = Unsettled]
                                ELSE nodeState
           open == {n \in ServiceNodes : before[n] = Unsettled /\ n \notin busy}
           blocked == {c \in open \ {Svc} : ~Revives /\ Blocks}
           able == {n \in open \ blocked :
                        n = Svc \/ before[Svc] # Unsettled \/ S.ready}
           chosen == IF paused \/ runCancelled THEN {} ELSE able
           after == [n \in ServiceNodes |->
                        CASE n \in open /\ runCancelled -> "cancelled"
                          [] n \in blocked /\ ~runCancelled -> Inherited
                          [] OTHER -> before[n]]
       IN /\ svc' = IF Svc \in chosen THEN Begun(S) ELSE S
          /\ job' = [c \in Consumers |->
                        IF c \in chosen
                        THEN [Quiet EXCEPT !.at = "queued", !.from = S.execs]
                        ELSE job[c]]
          /\ busy' = busy \cup chosen
          /\ nodeState' = after
          /\ loopAt' = IF \A n \in ServiceNodes : after[n] # Unsettled
                          THEN "done" ELSE "stop"
    /\ UNCHANGED <<free, runCancelled, paused, ops>>

\* Mutant: a retried consumer, which is busy from the start, does not count.
IdleBesidesBusy == \A c \in Consumers : nodeState[c] # Unsettled \/ c \in busy

\* No step that needs the service is still to settle.
Idle == \A c \in Consumers : nodeState[c] # Unsettled

\* stopIdleServices closes the channel once and forgets it.
stopIdleServices ==
    /\ loopAt = "stop"
    /\ svc' = IF svc.stops /\ svc.ready /\ Idle
                 THEN [svc EXCEPT !.ready = FALSE, !.stop = TRUE, !.stops = FALSE]
                 ELSE svc
    /\ loopAt' = "serve"
    /\ UNCHANGED <<job, nodeState, busy, free, runCancelled, paused, ops>>

NextPass ==
    /\ loopAt = "serve"
    /\ loopAt' = "pass"
    /\ UNCHANGED <<svc, job, nodeState, busy, free, runCancelled, paused, ops>>

-----------------------------------------------------------------------------
(* Control operations.                                                     *)

Serving == loopAt = "serve" /\ ops > 0
Served == loopAt' = "pass" /\ ops' = ops - 1

\* reviveServicesLocked: what a consumer that is run again finds of the
\* service, what it changes and which generation is worth waiting for.
reviveServices ==
    CASE Svc \in busy /\ svc.stops /\ svc.ready -> [s |-> svc, gen |-> 0]
      [] Svc \in busy /\ svc.stops /\ ~svc.ready -> [s |-> svc, gen |-> svc.execs]
      [] Svc \in busy /\ ~svc.stops ->
            [s |-> [svc EXCEPT !.pending = TRUE], gen |-> svc.execs + 1]
      [] Svc \notin busy /\ serviceRan(nodeState[Svc]) ->
            [s |-> Unready(svc), gen |-> svc.execs + 1]
      [] Svc \notin busy /\ nodeState[Svc] = Unsettled ->
            [s |-> svc, gen |-> svc.execs + 1]
      [] OTHER -> [s |-> svc, gen |-> 0]

\* A service skipped by hand, or cancelled, stays so: nothing to wait for.
Declined == Svc \notin busy /\ nodeState[Svc] # Unsettled /\ ~serviceRan(nodeState[Svc])

\* Whether reviveServicesLocked unsettles the service.
Restarted == Svc \notin busy /\ serviceRan(nodeState[Svc])

\* handleStepRetry of a consumer.
RetryConsumer(c) ==
    /\ Serving /\ ~runCancelled
    /\ c \notin busy /\ nodeState[c] = "failed"
    /\ svc' = reviveServices.s
    /\ LET gen == reviveServices.gen IN
          job' = [job EXCEPT ![c] = [Quiet EXCEPT !.at = "await", !.waits = gen,
                                       !.from = IF gen = 0 THEN svc.execs ELSE gen,
                                       !.alone = Declined]]
    /\ nodeState' = [n \in ServiceNodes |->
                        IF n = c \/ (n = Svc /\ Restarted) THEN Unsettled ELSE nodeState[n]]
    /\ busy' = busy \cup {c}
    /\ Served
    /\ UNCHANGED <<free, runCancelled, paused>>

\* handleStepRetry of the service itself.
RetryService ==
    /\ Serving /\ ~runCancelled
    /\ Svc \notin busy /\ nodeState[Svc] = "failed"
    /\ svc' = Begun(Unready(svc))
    /\ nodeState' = [nodeState EXCEPT ![Svc] = Unsettled]
    /\ busy' = busy \cup {Svc}
    /\ Served
    /\ UNCHANGED <<job, free, runCancelled, paused>>

\* handleRerunFrom: the closure of a consumer is itself, of the service all.
RerunFrom(n) ==
    LET closure == IF n = Svc THEN ServiceNodes ELSE {n} IN
    /\ Serving /\ ~runCancelled
    /\ closure \cap busy = {} /\ nodeState[n] # Unsettled
    /\ svc' = IF n = Svc THEN Unready(svc) ELSE reviveServices.s
    /\ nodeState' = [m \in ServiceNodes |->
                        IF m \in closure \/ (m = Svc /\ Restarted)
                           THEN Unsettled ELSE nodeState[m]]
    /\ Served
    /\ UNCHANGED <<job, busy, free, runCancelled, paused>>

\* handleStepSkip.
SkipNode(n) ==
    /\ Serving /\ ~runCancelled
    /\ n \notin busy /\ nodeState[n] = Unsettled
    /\ nodeState' = [nodeState EXCEPT ![n] = "skipped_manual"]
    /\ Served
    /\ UNCHANGED <<svc, job, busy, free, runCancelled, paused>>

\* handlePause and handleResume.
PauseOrResume ==
    /\ Serving /\ ~runCancelled
    /\ paused' = ~paused
    /\ Served
    /\ UNCHANGED <<svc, job, nodeState, busy, free, runCancelled>>

CancelRun ==
    /\ ~runCancelled
    /\ runCancelled' = TRUE
    /\ UNCHANGED <<svc, job, nodeState, busy, loopAt, free, paused, ops>>

-----------------------------------------------------------------------------
(* The service's goroutine: runService and serviceAttempt.                 *)

\* The dispatch goroutine has its slot; a cancelled run ends here.
AcquireSlot ==
    /\ svc.at = "queued" /\ free > 0
    /\ IF runCancelled
          THEN /\ svc' = [withdraw(svc, svc.execs) EXCEPT !.at = "withdrawn", !.end = "cancelled"]
               /\ UNCHANGED free
          ELSE /\ svc' = [svc EXCEPT !.at = "starting", !.slot = TRUE]
               /\ free' = free - 1
    /\ UNCHANGED <<job, nodeState, busy, loopAt, runCancelled, paused, ops>>

\* prepareAttempt and StartService.
StartService ==
    /\ svc.at = "starting"
    /\ svc' = [svc EXCEPT !.at = "probing", !.up = TRUE]
    /\ UNCHANGED <<job, nodeState, busy, loopAt, free, runCancelled, paused, ops>>

Fails(s) == [s EXCEPT !.at = "stopped", !.up = FALSE, !.end = "failed"]

\* serviceFailure: a failure in a cancelled run is a cancellation.
serviceFailure ==
    /\ svc.at \in {"starting", "probing"}
    /\ svc' = [Fails(svc) EXCEPT !.end = IF runCancelled THEN "cancelled" ELSE "failed"]
    /\ UNCHANGED <<job, nodeState, busy, loopAt, free, runCancelled, paused, ops>>

\* The process exits by itself.
ServiceCrash ==
    /\ svc.up /\ svc.at \in {"probing", "published", "ready"}
    /\ svc' = [svc EXCEPT !.up = FALSE, !.crashed = @ \cup {svc.execs}]
    /\ UNCHANGED <<job, nodeState, busy, loopAt, free, runCancelled, paused, ops>>

\* The probe passed: the address is published, then the node marked ready.
Publish ==
    /\ svc.at = "probing" /\ svc.up
    /\ svc' = [publish(svc, svc.execs) EXCEPT !.at = "published"]
    /\ UNCHANGED <<job, nodeState, busy, loopAt, free, runCancelled, paused, ops>>

markReady ==
    /\ svc.at = "published"
    /\ svc' = [svc EXCEPT !.at = "ready", !.ready = TRUE, !.slot = FALSE]
    /\ free' = free + 1
    /\ UNCHANGED <<job, nodeState, busy, loopAt, runCancelled, paused, ops>>

\* exitedEarly: the engine notices that the process is gone.
ExitedEarly ==
    /\ svc.at \in {"probing", "ready"} /\ ~svc.up
    /\ svc' = Fails(svc)
    /\ UNCHANGED <<job, nodeState, busy, loopAt, free, runCancelled, paused, ops>>

\* The stop channel or the run's cancellation: stopNow.  A service that was
\* ready has succeeded, whatever ended it, unless it cannot be stopped.
stopNow ==
    /\ svc.at = "ready" /\ (svc.stop \/ runCancelled)
    /\ \E end \in {"succeeded", "failed"} :
          svc' = [svc EXCEPT !.at = "stopped", !.up = FALSE, !.end = end]
    /\ UNCHANGED <<job, nodeState, busy, loopAt, free, runCancelled, paused, ops>>

\* Mutant: the deferred release runs although the service was ready.
WithdrawAndRelease ==
    /\ svc.at = "stopped"
    /\ svc' = [withdraw(svc, svc.execs) EXCEPT !.at = "withdrawn", !.slot = FALSE]
    /\ free' = free + 1
    /\ UNCHANGED <<job, nodeState, busy, loopAt, runCancelled, paused, ops>>

\* runService withdraws the address before it says the step has finished.
Withdraw ==
    /\ svc.at = "stopped"
    /\ svc' = [withdraw(svc, svc.execs) EXCEPT !.at = "withdrawn", !.slot = FALSE]
    /\ free' = IF svc.slot THEN free + 1 ELSE free
    /\ UNCHANGED <<job, nodeState, busy, loopAt, runCancelled, paused, ops>>

ReportService ==
    /\ svc.at = "withdrawn"
    /\ svc' = [svc EXCEPT !.at = "none"]
    /\ nodeState' = [nodeState EXCEPT ![Svc] = svc.end]
    /\ busy' = busy \ {Svc}
    /\ UNCHANGED <<job, loopAt, free, runCancelled, paused, ops>>

-----------------------------------------------------------------------------
(* A consumer's goroutine.                                                 *)

\* A retried consumer waits for its service before it takes a slot.
Await(c) ==
    /\ job[c].at = "await"
    /\ svc.heard >= job[c].waits \/ runCancelled
    /\ LET lost == job[c].waits > 0 /\ ~runCancelled /\ ~readyAt(svc, job[c].waits) IN
          /\ job' = [job EXCEPT ![c] = IF lost THEN Quiet ELSE [@ EXCEPT !.at = "queued"]]
          /\ nodeState' = IF lost THEN [nodeState EXCEPT ![c] = "skipped"] ELSE nodeState
          /\ busy' = IF lost THEN busy \ {c} ELSE busy
    /\ UNCHANGED <<svc, loopAt, free, runCancelled, paused, ops>>

\* The slot, and serviceEnv: the address published at that moment.
ExecuteConsumer(c) ==
    /\ job[c].at = "queued" /\ free > 0 /\ ~runCancelled
    /\ job' = [job EXCEPT ![c] = [@ EXCEPT !.at = "executing",
                                           !.addr = svc.entry]]
    /\ free' = free - 1
    /\ UNCHANGED <<svc, nodeState, busy, loopAt, runCancelled, paused, ops>>

CancelConsumer(c) ==
    /\ job[c].at = "queued" /\ runCancelled
    /\ job' = [job EXCEPT ![c] = Quiet]
    /\ nodeState' = [nodeState EXCEPT ![c] = "cancelled"]
    /\ busy' = busy \ {c}
    /\ UNCHANGED <<svc, loopAt, free, runCancelled, paused, ops>>

FinishConsumer(c) ==
    /\ job[c].at = "executing"
    /\ \E end \in {"succeeded", "failed"} : nodeState' = [nodeState EXCEPT ![c] = end]
    /\ job' = [job EXCEPT ![c] = Quiet]
    /\ busy' = busy \ {c}
    /\ free' = free + 1
    /\ UNCHANGED <<svc, loopAt, runCancelled, paused, ops>>

ServicesDone ==
    /\ loopAt = "done" /\ busy = {}
    /\ UNCHANGED serviceVars

-----------------------------------------------------------------------------
ServiceLoop == Pass \/ stopIdleServices \/ NextPass

ServiceGoroutine ==
    \/ AcquireSlot \/ StartService \/ Publish \/ markReady
    \/ ExitedEarly \/ stopNow \/ Withdraw \/ ReportService

ConsumerGoroutine(c) ==
    Await(c) \/ ExecuteConsumer(c) \/ CancelConsumer(c) \/ FinishConsumer(c)

ServiceControl ==
    \/ \E c \in Consumers : RetryConsumer(c)
    \/ RetryService
    \/ \E n \in ServiceNodes : RerunFrom(n) \/ SkipNode(n)
    \/ PauseOrResume

ServicesNext ==
    \/ ServiceLoop \/ ServiceGoroutine \/ ServiceControl
    \/ \E c \in Consumers : ConsumerGoroutine(c)
    \/ serviceFailure \/ ServiceCrash \/ CancelRun
    \/ ServicesDone

\* Goroutines are scheduled, probes pass or fail, commands end.
ServicesFairness ==
    /\ WF_serviceVars(ServiceLoop)
    /\ WF_serviceVars(ServiceGoroutine)
    /\ \A c \in Consumers : WF_serviceVars(ConsumerGoroutine(c))

ServicesSpec == ServicesInit /\ [][ServicesNext]_serviceVars /\ ServicesFairness

-----------------------------------------------------------------------------
(* While a step that needs the service executes in a run nobody cancelled, *)
(* the service whose address it was given is up, unless its process exited *)
(* by itself: stopIdleServices, a restart for another consumer and a late  *)
(* withdraw of an older execution never take it away, and it starts        *)
(* without an address only when the service crashed after it was chosen,   *)
(* or had been skipped by hand before it was retried (control.go:422).     *)
ServiceOutlivesConsumers ==
    \A c \in Consumers : job[c].at = "executing" /\ ~runCancelled =>
        IF job[c].addr = 0
           THEN job[c].alone \/ \E gen \in svc.crashed : gen >= job[c].from
           ELSE job[c].addr \in svc.crashed \/ (job[c].addr = svc.execs /\ svc.up)

(* Every slot of MaxParallel is accounted for: a service gives its own     *)
(* back once, when it is ready or when it fails before that.               *)
ServiceSlotOnce ==
    free + Cardinality({c \in Consumers : job[c].at = "executing"})
         + (IF svc.slot THEN 1 ELSE 0) = Slots

(* A consumer in execution has the service it was given, and no slot is    *)
(* lost or given twice (service.go:108).                                   *)
ServicesHold == ServiceOutlivesConsumers /\ ServiceSlotOnce

(* The run ends: no consumer waits for ever for a generation nobody will   *)
(* announce and no service outlives its last consumer.  A run left paused  *)
(* does not end, and neither does one whose service was skipped while a    *)
(* retried consumer was waiting for it.                                    *)
ServicesDrain ==
    \/ <>(loopAt = "done" /\ busy = {})
    \/ <>[]paused
    \/ <>(nodeState[Svc] = "skipped_manual")
=============================================================================
