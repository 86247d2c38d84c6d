------------------------------- MODULE Launch --------------------------------
(***************************************************************************)
(* `senro run` and `senro up`: a CLI process that builds a pipeline,       *)
(* starts it as a child, finds it in the registry of live runs, attaches,  *)
(* watches, and exits with a code of its own; the child, which may listen, *)
(* may wait for a client, may refuse to run and may die; and an operator   *)
(* who may interrupt the CLI, or detach, at any moment.                    *)
(***************************************************************************)
EXTENDS Naturals

VARIABLES
  verb,      \* "run" or "up"
  listens,   \* the pipeline's main calls attach.Listen
  waitsFor,  \* ... with WaitForClient
  cli,       \* "build", "poll", "connect", "watch", "branch", "cancel", "reap", "exited"
  asked,     \* interrupted: the signal goroutine has stored it and cancelled the context
  inTime,    \* ... before watch returned
  sighted,      \* the status watch returned, "" for none
  failed,    \* watch returned an error
  cexit,     \* the CLI's exit code
  kid,       \* "none", "up", "listening", "running", "ended", "closed", "dead"
  kidRun,    \* the run's status in the ledger: "", "succeeded", "failed", "cancelled"
  kidCode,   \* the child's exit code, "killed" for a signal
  entry,     \* its registry entry: "none", "live"
  cancelAsk, \* run.cancel has been accepted
  kidSvc,    \* under up, the service's state in the ledger: "", "succeeded", "failed"
  tapSvc     \* ... and the one the tap has seen

launchVars == <<verb, listens, waitsFor, cli, asked, inTime, sighted, failed, cexit, kid, kidRun, kidCode, entry,
                cancelAsk, kidSvc, tapSvc>>
launchSetup   == <<verb, listens, waitsFor>>
kidVars == <<kid, kidRun, kidCode, entry, cancelAsk, kidSvc>>
cliVars == <<cli, asked, inTime, sighted, failed, cexit, tapSvc>>

Ok == "0"  RunFailed == "1"  Usage == "2"  NoTriggerMatch == "78"  Cancelled == "130"

LaunchInit ==
  /\ verb \in {"run", "up"} /\ listens \in BOOLEAN /\ waitsFor \in (IF listens THEN BOOLEAN ELSE {FALSE})
  /\ cli = "build" /\ asked = FALSE /\ inTime = FALSE /\ sighted = "" /\ failed = FALSE /\ cexit = "none"
  /\ kid = "none" /\ kidRun = "" /\ kidCode = "none" /\ entry = "none" /\ cancelAsk = FALSE
  /\ kidSvc = "" /\ tapSvc = ""

Exit(code) == cli' = "exited" /\ cexit' = code

\* Kill, then the reaping goroutine's answer. A killed child leaves its entry
\* for the next Discover to remove.
Reaped == /\ kid' = "dead" /\ kidCode' = (IF kid = "dead" THEN kidCode ELSE "killed")
          /\ UNCHANGED <<kidRun, entry, cancelAsk, kidSvc>>

\* processExitCode: a child that was killed has none.
processExitCode == IF kidCode \in {Ok, RunFailed, NoTriggerMatch} THEN kidCode ELSE RunFailed

exitCodeForRunStatus(s) == CASE s \in {"succeeded", ""} -> Ok [] s = "cancelled" -> Cancelled [] OTHER -> RunFailed

\* A cancelled up is a normal end when its service settled, or, interrupted,
\* was not seen to.
upExitCode(s, interrupted) ==
  IF \/ s = "failed" \/ (s = "" /\ ~interrupted)
     \/ tapSvc = "failed" \/ (tapSvc = "" /\ ~interrupted)
  THEN RunFailed ELSE Ok

-----------------------------------------------------------------------------
(* The CLI.                                                                *)

\* runBuilt: build, then start; an interrupted or failed build starts nothing.
runBuilt ==
  /\ cli = "build"
  /\ \/ ~asked /\ cli' = "poll" /\ kid' = "up" /\ UNCHANGED cexit
     \/ Exit(IF asked THEN Cancelled ELSE Usage) /\ UNCHANGED kid
  /\ UNCHANGED <<launchSetup, asked, inTime, sighted, failed, kidRun, kidCode, entry, cancelAsk, kidSvc, tapSvc>>

\* Discover: the entry of this pid, while the process lives.
Found == entry = "live" /\ kid # "dead"

\* waitForRegistrationOrExit, and what follows when there is no entry: the
\* child's own code, or, interrupted, a kill.
waitForRegistration ==
  /\ cli = "poll"
  /\ \/ Found /\ cli' = "connect" /\ UNCHANGED <<cexit, kidVars>>
     \/ kid = "dead" /\ Exit(IF asked THEN Cancelled ELSE processExitCode) /\ UNCHANGED kidVars
     \/ asked /\ Reaped /\ Exit(Cancelled)
  /\ UNCHANGED <<launchSetup, asked, inTime, sighted, failed, tapSvc>>

ConnectLeaves ==
  /\ cli = "connect"
  /\ \/ kid \in {"listening", "running", "ended"} /\ ~asked /\ cli' = "watch" /\ UNCHANGED <<cexit, kidVars>>
     \/ Exit(Usage) /\ UNCHANGED kidVars
  /\ UNCHANGED <<launchSetup, asked, inTime, sighted, failed, tapSvc>>

\* connectAndNegotiate: a socket that has gone, a version that does not fit or
\* a context that is done kill the child.
connectAndNegotiate ==
  /\ cli = "connect"
  /\ \/ kid \in {"listening", "running", "ended"} /\ ~asked /\ cli' = "watch" /\ UNCHANGED <<cexit, kidVars>>
     \/ Exit(Usage) /\ Reaped
  /\ UNCHANGED <<launchSetup, asked, inTime, sighted, failed, tapSvc>>

\* upTap: the service's state as the stream has delivered it.
observe ==
  /\ cli = "watch" /\ verb = "up" /\ kidSvc # "" /\ tapSvc # kidSvc /\ tapSvc' = kidSvc
  /\ UNCHANGED <<launchSetup, cli, asked, inTime, sighted, failed, cexit, kidVars>>

\* watch ends with the run's status once the hub or the process is gone, the
\* ledger on disk standing in for what was not streamed; or with none, because
\* the context is done, the operator detached, or it failed.
watch ==
  /\ cli = "watch" /\ cli' = "branch"
  /\ \/ kid \in {"closed", "dead"} /\ sighted' = kidRun /\ UNCHANGED failed
        /\ tapSvc' = IF verb = "up" THEN kidSvc ELSE tapSvc
     \/ sighted' = "" /\ failed' \in {FALSE, TRUE} /\ UNCHANGED tapSvc
  /\ UNCHANGED <<launchSetup, asked, inTime, cexit, kidVars>>

\* What runPipelineWith does next is decided by interrupted at this moment.
branch ==
  /\ cli = "branch" /\ cli' = IF asked THEN "cancel" ELSE "reap"
  /\ UNCHANGED <<launchSetup, asked, inTime, sighted, failed, cexit, kidVars, tapSvc>>

\* bestEffortCancel, once, and then a bounded wait.
bestEffortCancel ==
  /\ cli = "cancel" /\ cli' = "wait"
  /\ cancelAsk' \in IF kid = "running" THEN {FALSE, TRUE} ELSE {cancelAsk}
  /\ UNCHANGED <<launchSetup, asked, inTime, sighted, failed, cexit, kid, kidRun, kidCode, entry, kidSvc, tapSvc>>

gracefulShutdownWait ==
  /\ cli = "wait"
  /\ \/ kid = "dead" /\ UNCHANGED kidVars
     \/ kid # "dead" /\ Reaped
  /\ Exit(IF verb = "up" THEN upExitCode(sighted, TRUE) ELSE Cancelled)
  /\ UNCHANGED <<launchSetup, asked, inTime, sighted, failed, tapSvc>>

\* Otherwise the child is waited for, and the status watched is the verdict.
ReapTrusting ==
  /\ cli = "reap" /\ kid = "dead"
  /\ Exit(CASE failed -> processExitCode
            [] ~failed -> IF verb = "up" THEN upExitCode(sighted, FALSE) ELSE exitCodeForRunStatus(sighted))
  /\ UNCHANGED <<launchSetup, asked, inTime, sighted, failed, kidVars, tapSvc>>

reapChild ==
  /\ cli = "reap" /\ kid = "dead"
  /\ Exit(CASE failed \/ sighted = "" -> processExitCode
            [] OTHER -> IF verb = "up" THEN upExitCode(sighted, FALSE) ELSE exitCodeForRunStatus(sighted))
  /\ UNCHANGED <<launchSetup, asked, inTime, sighted, failed, kidVars, tapSvc>>

\* The operator's first SIGINT or SIGTERM to the CLI.
Interrupt ==
  /\ ~asked /\ cli # "exited" /\ asked' = TRUE
  /\ inTime' = (cli \in {"build", "poll", "connect", "watch"})
  /\ UNCHANGED <<launchSetup, cli, sighted, failed, cexit, kidVars, tapSvc>>

-----------------------------------------------------------------------------
(* The child.                                                              *)

\* Register installs the entry whole, by rename; its cleanup removes it.
Register(e) == entry' = e

\* attach.Listen: the server first, then the registry entry.
Listen ==
  /\ kid = "up" /\ listens /\ kid' = "listening" /\ Register("live")
  /\ UNCHANGED <<launchSetup, cliVars, kidRun, kidCode, cancelAsk, kidSvc>>

Attached == cli \in {"watch", "branch", "cancel"}

\* waitForClient, then runPlan up to engine.Run: a lock mode, a trigger that
\* does not match, and everything that is opened can end it before a run
\* exists.
runPlan ==
  /\ \/ kid = "up" /\ ~listens
     \/ kid = "listening" /\ (waitsFor => Attached)
  /\ \/ kid' = "running" /\ UNCHANGED kidCode
     \/ kid' = (IF listens THEN "ended" ELSE "dead") /\ kidCode' \in {Ok, RunFailed, NoTriggerMatch}
  /\ UNCHANGED <<launchSetup, cliVars, kidRun, entry, cancelAsk, kidSvc>>

\* The service of an up settles with the run's end, or by itself before it.
ServiceSettles ==
  /\ kid = "running" /\ verb = "up" /\ kidSvc = "" /\ kidSvc' \in {"succeeded", "failed"}
  /\ UNCHANGED <<launchSetup, cliVars, kid, kidRun, kidCode, entry, cancelAsk>>

\* engine.Run returns a status, which main turns into a code.
childRunFinished ==
  /\ kid = "running"
  /\ kidRun' \in IF cancelAsk THEN {"cancelled", "succeeded", "failed"} ELSE {"succeeded", "failed"}
  /\ (verb = "up" /\ kidSvc = "") => kidRun' # "succeeded"
  /\ (kidSvc = "failed") => kidRun' # "succeeded"
  /\ kid' = (IF listens THEN "ended" ELSE "dead") /\ kidCode' = IF kidRun' = "succeeded" THEN Ok ELSE RunFailed
  /\ UNCHANGED <<launchSetup, cliVars, entry, cancelAsk, kidSvc>>

\* Attach.Close: unregister, the hub, the server; then the process ends.
AttachClose ==
  /\ kid = "ended" /\ kid' = "closed" /\ Register("none")
  /\ UNCHANGED <<launchSetup, cliVars, kidRun, kidCode, cancelAsk, kidSvc>>
KidExits ==
  /\ kid = "closed" /\ kid' = "dead"
  /\ UNCHANGED <<launchSetup, cliVars, kidRun, kidCode, entry, cancelAsk, kidSvc>>

\* It dies: a panic, a kill, a machine out of memory.
KidDies ==
  /\ kid \in {"up", "listening", "running", "ended", "closed"} /\ kid' = "dead" /\ kidCode' = "killed"
  /\ UNCHANGED <<launchSetup, cliVars, kidRun, entry, cancelAsk, kidSvc>>

CliStep ==
  \/ runBuilt \/ waitForRegistration \/ connectAndNegotiate \/ watch \/ branch
  \/ bestEffortCancel \/ gracefulShutdownWait \/ reapChild

LaunchNext ==
  \/ CliStep \/ observe \/ Interrupt \/ Listen \/ runPlan \/ ServiceSettles \/ childRunFinished
  \/ AttachClose \/ KidExits \/ KidDies

\* The CLI's own steps: every wait it makes once interrupted is bounded. What
\* the child does is its own affair.
LaunchFairness == WF_launchVars(CliStep)
LaunchSpec == LaunchInit /\ [][LaunchNext]_launchVars /\ LaunchFairness

-----------------------------------------------------------------------------
\* The CLI never exits over a child that lives, and its code tells the truth:
\* success only for a run that succeeded, a child that said so, or a healthy
\* up; cancelled only when someone did (exitcode.go:5).
ExitIsTruthful ==
  cli = "exited" =>
    /\ kid \in {"none", "dead"}
    /\ cexit = Ok => \/ kidRun = "succeeded" \/ kidCode = Ok
                     \/ verb = "up" /\ asked /\ tapSvc # "failed"
                     \/ verb = "up" /\ kidRun = "cancelled" /\ tapSvc = "succeeded"
    /\ cexit = Cancelled => asked \/ kidRun = "cancelled"
    /\ kidRun = "failed" /\ sighted = "failed" /\ ~asked => cexit = RunFailed

\* An interrupt that came while the CLI was still building, finding, connecting
\* or watching ends it, whatever the child does (cmd_run.go:27).
InterruptEnds == (asked /\ cli \in {"build", "poll", "connect", "watch"}) ~> cli = "exited"

\* exitcode.go:46: "a process the operator interrupted: always 130".
InterruptedMeans130 == cli = "exited" /\ inTime /\ verb = "run" => cexit = Cancelled

\* exitcode.go:17: "This process only PROPAGATES it, from the pipeline binary".
NoMatchIsPropagated == cli = "exited" /\ ~asked /\ kidCode = NoTriggerMatch => cexit = NoTriggerMatch
=============================================================================
