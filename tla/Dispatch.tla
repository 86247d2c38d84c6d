------------------------------ MODULE Dispatch ------------------------------
(***************************************************************************)
(* The webhook dispatcher: every delivery is served by its own handler, and *)
(* an accepted one by its own goroutine. One concurrency group, held        *)
(* through a lock; the handle of the run in progress, guarded by mu; and in *)
(* GitHub App mode a check run per delivery that someone must close.        *)
(***************************************************************************)
EXTENDS Naturals, FiniteSets

CONSTANT Deliveries \* the webhooks that arrive

VARIABLES
  cancel,   \* dispatcher.cancel: the -cancel-in-progress flag
  handler,  \* where each delivery's handler, then its run, is
  holder,   \* the delivery that holds the group's lock
  running,  \* dispatcher.running: whose cancel function it is
  handle,   \* the function a displacing delivery read from it
  ended,    \* whether each run's context is over
  exit,     \* what cmd.Run returned
  check,    \* each delivery's check run, as GitHub shows it
  reported, \* whether the pipeline closed its check itself
  apiDown   \* whether a call about the check failed

dispatchVars == <<cancel, handler, holder, running, handle, ended, exit, check, reported, apiDown>>

NoHolder == "nobody"
ASSUME DispatchAssumption == NoHolder \notin Deliveries
Holding == {"stage", "arm", "exec", "close", "disarm", "release"}

DispatchInit ==
  /\ cancel \in BOOLEAN /\ reported = [d \in Deliveries |-> FALSE]
  /\ handler = [d \in Deliveries |-> "new"] /\ holder = NoHolder /\ running = NoHolder
  /\ handle = [d \in Deliveries |-> NoHolder] /\ ended = [d \in Deliveries |-> FALSE]
  /\ exit = [d \in Deliveries |-> "none"] /\ check = [d \in Deliveries |-> "none"] /\ apiDown = [d \in Deliveries |-> FALSE]

At(d, here) == handler[d] = here
Go(d, there) == handler' = [handler EXCEPT ![d] = there]

-----------------------------------------------------------------------------
(* The check run. A check that was not created is never touched again.     *)

complete(d, conclusion) ==
  IF check[d] = "none" THEN UNCHANGED <<check, apiDown>>
  ELSE \/ check' = [check EXCEPT ![d] = conclusion] /\ UNCHANGED apiDown
       \/ apiDown' = [apiDown EXCEPT ![d] = TRUE] /\ UNCHANGED check

\* A refusal closes it as neutral, any other failure to take the group as failure.
notRun(d, held) == complete(d, IF held THEN "neutral" ELSE "failure")

\* Mutant: the exit code is reported without asking what the check says.
FinishBlind(d) ==
  CASE exit[d] = "nomatch"  -> complete(d, "neutral")
    [] exit[d] = "nostart"  -> complete(d, "failure")
    [] exit[d] = "ok"       -> complete(d, "success")
    [] exit[d] = "failed"   -> complete(d, "failure")
    [] exit[d] = "killed"   -> complete(d, IF ended[d] THEN "cancelled" ELSE "failure")

\* What the pipeline reported itself stands, if the check can be read.
finish(d) ==
  CASE exit[d] = "nomatch"  -> complete(d, "neutral")
    [] exit[d] = "nostart"  -> complete(d, "failure")
    [] exit[d] \in {"ok", "failed", "killed"} ->
         \/ check[d] = "reported" /\ UNCHANGED <<check, apiDown>>
         \/ /\ check[d] # "reported"
            /\ complete(d, CASE exit[d] = "ok" -> "success"
                             [] exit[d] = "killed" /\ ended[d] -> "cancelled"
                             [] OTHER -> "failure")
         \/ /\ check[d] = "reported" /\ apiDown' = [apiDown EXCEPT ![d] = TRUE]
            /\ check' \in {check, [check EXCEPT ![d] = CASE exit[d] = "ok" -> "success"
                                                        [] exit[d] = "killed" /\ ended[d] -> "cancelled"
                                                        [] OTHER -> "failure"]}

-----------------------------------------------------------------------------
(* serve and take.                                                          *)

\* A delivery that is unsigned, too large or of an unknown source goes no further.
serve(d) ==
  /\ At(d, "new")
  /\ \/ Go(d, "refused") /\ UNCHANGED check
     \/ Go(d, "take") /\ check' \in {check, [check EXCEPT ![d] = "queued"]}
  /\ UNCHANGED <<holder, running, handle, ended, exit, apiDown>>

take(d) ==
  /\ At(d, "take") /\ UNCHANGED <<running, handle, ended, exit>>
  /\ \/ holder = NoHolder /\ holder' = d /\ Go(d, "stage") /\ UNCHANGED <<check, apiDown>>
     \/ holder # NoHolder /\ cancel /\ Go(d, "displace") /\ UNCHANGED <<holder, check, apiDown>>
     \/ holder # NoHolder /\ ~cancel /\ Go(d, "busy") /\ notRun(d, TRUE) /\ UNCHANGED holder
     \/ Go(d, "failed") /\ notRun(d, FALSE) /\ UNCHANGED holder

\* The handle is read under mu and called after it was let go of.
readRunning(d) ==
  /\ At(d, "displace") /\ Go(d, "stop") /\ handle' = [handle EXCEPT ![d] = running]
  /\ UNCHANGED <<holder, running, ended, exit, check, apiDown>>
callStop(d) ==
  /\ At(d, "stop") /\ Go(d, "poll")
  /\ ended' = IF handle[d] = NoHolder THEN ended ELSE [ended EXCEPT ![handle[d]] = TRUE]
  /\ UNCHANGED <<holder, running, handle, exit, check, apiDown>>

\* Every 250 ms until the deadline; a lock that fails is asked again too.
poll(d) ==
  /\ At(d, "poll") /\ UNCHANGED <<running, handle, ended, exit>>
  /\ \/ holder = NoHolder /\ holder' = d /\ Go(d, "stage") /\ UNCHANGED <<check, apiDown>>
     \/ Go(d, "timeout") /\ notRun(d, FALSE) /\ UNCHANGED holder

-----------------------------------------------------------------------------
(* run, in its own goroutine after the 202.                                 *)

stage(d) ==
  /\ At(d, "stage") /\ UNCHANGED <<holder, running, handle, ended>>
  /\ \/ Go(d, "arm") /\ UNCHANGED <<exit, check, apiDown>>
     \/ Go(d, "release") /\ exit' = [exit EXCEPT ![d] = "nostart"] /\ complete(d, "failure")
arm(d) ==
  /\ At(d, "arm") /\ Go(d, "exec") /\ running' = d
  /\ UNCHANGED <<holder, handle, ended, exit, check, apiDown>>

timeout(d) ==
  /\ At(d, "exec") /\ ~ended[d] /\ ended' = [ended EXCEPT ![d] = TRUE]
  /\ UNCHANGED <<cancel, handler, holder, running, handle, exit, check, reported, apiDown>>

\* The pipeline: it may close the check itself, and ends with a code, by a
\* signal, or without having started; a run whose context is over is killed.
pipelineReports(d) ==
  /\ At(d, "exec") /\ check[d] = "queued" /\ check' = [check EXCEPT ![d] = "reported"]
  /\ reported' = [reported EXCEPT ![d] = TRUE] /\ UNCHANGED <<cancel, handler, holder, running, handle, ended, exit, apiDown>>
pipelineEnds(d) ==
  /\ At(d, "exec") /\ Go(d, "close")
  /\ \E e \in {"ok", "nomatch", "failed", "killed", "nostart"} :
       /\ check[d] = "reported" => e \in {"ok", "failed", "killed"}
       /\ exit' = [exit EXCEPT ![d] = e]
  /\ UNCHANGED <<cancel, holder, running, handle, ended, check, reported, apiDown>>

closeCheck(d) ==
  /\ At(d, "close") /\ Go(d, "disarm") /\ finish(d)
  /\ UNCHANGED <<holder, running, handle, ended, exit>>

\* Mutant: the deferred calls in the order they were written.
ReleaseFirst(d) ==
  /\ At(d, "disarm") /\ Go(d, "release") /\ holder' = NoHolder
  /\ UNCHANGED <<running, handle, ended, exit, check, apiDown>>

\* The deferred calls, last one first: the handle, the context, the lock.
disarm(d) ==
  /\ At(d, "disarm") /\ Go(d, "release") /\ running' = NoHolder /\ ended' = [ended EXCEPT ![d] = TRUE]
  /\ UNCHANGED <<holder, handle, exit, check, apiDown>>

releaseGroup(d) ==
  /\ At(d, "release") /\ Go(d, "done") /\ holder' = NoHolder
  /\ UNCHANGED <<running, handle, ended, exit, check, apiDown>>

Stage(d) ==
  /\ \/ serve(d) \/ take(d) \/ readRunning(d) \/ callStop(d) \/ poll(d) \/ stage(d) \/ arm(d)
     \/ closeCheck(d) \/ disarm(d) \/ releaseGroup(d)
  /\ UNCHANGED <<cancel, reported>>
DispatchNext == \E d \in Deliveries : Stage(d) \/ timeout(d) \/ pipelineReports(d) \/ pipelineEnds(d)

\* The handler and the run's goroutine go on, -timeout comes, and a killed
\* process ends.
DispatchFairness ==
  \A d \in Deliveries : /\ WF_dispatchVars(Stage(d)) /\ WF_dispatchVars(timeout(d))
                        /\ WF_dispatchVars(ended[d] /\ pipelineEnds(d))
DispatchSpec == DispatchInit /\ [][DispatchNext]_dispatchVars /\ DispatchFairness

-----------------------------------------------------------------------------
\* One delivery at a time runs, and it is the one that holds the group; the
\* handle reaches the process that runs, whatever displaced what before, so
\* the next delivery can stop it. No delivery is left with a check that says
\* queued, and none says more than happened: success for an exit 0, cancelled
\* for a run the dispatcher itself stopped, neutral for one that was refused or
\* matched nothing; what the pipeline reported is not overwritten while GitHub
\* answers (contrib/dispatcher/main.go take, run; githubapp.go finish).
DispatchIsHonest ==
  /\ \A d \in Deliveries :
       /\ handler[d] \in Holding <=> holder = d
       /\ At(d, "exec") => running = d
       /\ handler[d] \in {"busy", "failed", "timeout", "release", "done"} /\ ~apiDown[d] =>
            /\ check[d] # "queued" /\ (reported[d] => check[d] = "reported")
            /\ check[d] = "success" => exit[d] = "ok"
            /\ check[d] = "cancelled" => ended[d] /\ exit[d] = "killed"
            /\ check[d] = "neutral" => At(d, "busy") \/ exit[d] = "nomatch"
  /\ running # NoHolder => holder = running

\* Every accepted delivery gives the group back (main.go run).
GroupIsFreed == \A d \in Deliveries : (holder = d) ~> (holder # d)

\* With -cancel-in-progress a new delivery terminates the run in progress and
\* takes the lock (main.go 15): it never gives up on a run nobody told to stop.
DisplacesTheRun ==
  [][\A d \in Deliveries : At(d, "poll") /\ handler'[d] = "timeout" => holder = NoHolder \/ ended[holder]]_dispatchVars
=============================================================================
