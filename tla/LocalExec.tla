------------------------------ MODULE LocalExec ------------------------------
(***************************************************************************)
(* One attempt on the coordinator's own machine: a step's process, a       *)
(* session's, or a service's process group, whose leader can exit while    *)
(* what it started lives on, stopped by the engine at any moment while the *)
(* goroutine that reaps the leader runs on its own.                        *)
(***************************************************************************)
EXTENDS Naturals

VARIABLES
  lmode,     \* "step", "session", "service"
  lat,       \* where the sandbox is
  ldone,     \* the context is done
  leader,    \* "none", "up", "zombie" (exited, unreaped), "reaped"
  child,     \* what the leader started: "none", "up", "ending" (it was told to), "dead"
  lcode,     \* the leader's exit: "none", "0", "1", "signal"
  slain,     \* this executor sent the leader a signal
  stopping, swept,  \* localService.stopping, swept
  lwaiter,   \* the reaping goroutine: "wait", "sweep", "drain", "done"
  lstop,     \* Stop: "no", "begun", "told", "grace", "kill", "join", "returned"
  early,     \* what the grace was still running for has been killed
  lres,      \* what Run or Wait returned: "none", a code, "infra"
  lcred      \* the attempt's secret directory: "none", "made", "gone"

localVars == <<lmode, lat, ldone, leader, child, lcode, slain, stopping, swept, lwaiter, lstop, early, lres, lcred>>
procVars == <<leader, child, lcode, slain>>
svcVars  == <<stopping, swept, lwaiter, lstop, early>>

LocalInit ==
  /\ lmode \in {"step", "session", "service"} /\ lat = "none" /\ ldone = FALSE
  /\ leader = "none" /\ child = "none" /\ lcode = "none" /\ slain = FALSE
  /\ stopping = FALSE /\ swept = FALSE /\ lwaiter = "wait" /\ lstop = "no" /\ early = FALSE
  /\ lres = "none" /\ lcred = "none"

\* Sandbox, realize: a mount that escapes, has no directory or cannot be
\* linked refuses the attempt.
realize ==
  /\ lat = "none" /\ lat' \in {"new", "refused"}
  /\ UNCHANGED <<lmode, ldone, procVars, svcVars, lres, lcred>>

\* secretdir.Put makes the directory on first use.
LocalPutSecret ==
  /\ lat = "new" /\ lcred = "none" /\ lcred' = "made"
  /\ UNCHANGED <<lmode, lat, ldone, procVars, svcVars, lres>>

\* What a program that did not start is reported as: for a step and a service
\* a code of its own, when it could not be found or executed.
NotStarted == IF lmode = "session" THEN {"infra"} ELSE {"126", "127", "infra"}

\* Run, RunInteractive, RunTerminal, StartService: a service is refused while
\* its ports are taken.
Start ==
  /\ lat = "new"
  /\ \/ ~ldone /\ leader' = "up" /\ child' \in {"none", "up"} /\ lat' = "running" /\ UNCHANGED <<lres, lwaiter>>
     \/ lat' = "ran" /\ lres' \in (IF ldone THEN {"infra"} ELSE NotStarted)
        /\ lwaiter' = "done" /\ UNCHANGED <<leader, child>>
  /\ UNCHANGED <<lmode, ldone, lcode, slain, stopping, swept, lstop, early, lcred>>

\* Processes end by themselves; a leader can leave a child behind.
LeaderExits ==
  /\ leader = "up" /\ leader' = "zombie" /\ lcode' \in {"0", "1"}
  /\ UNCHANGED <<lmode, lat, ldone, child, slain, svcVars, lres, lcred>>
ChildExits ==
  /\ child \in {"up", "ending"} /\ child' = "dead"
  /\ UNCHANGED <<lmode, lat, ldone, leader, lcode, slain, svcVars, lres, lcred>>

\* exec.CommandContext kills the process it started, and only that one.
ContextKills ==
  /\ lmode # "service" /\ ldone /\ leader = "up"
  /\ leader' = "zombie" /\ lcode' = "signal" /\ slain' = TRUE
  /\ UNCHANGED <<lmode, lat, ldone, child, svcVars, lres, lcred>>

\* classifyRunError: a child that still holds the pipes delays the verdict by
\* WaitDelay and no more; a context that was done is the verdict unless the
\* process had succeeded.
classifyRunError ==
  /\ lmode # "service" /\ lat = "running" /\ leader = "zombie" /\ leader' = "reaped"
  /\ lat' = "ran"
  /\ lres' \in CASE lcode = "0" /\ child \in {"up", "ending"} -> IF ldone THEN {"0", "infra"} ELSE {"0"}
                 [] lcode = "0" /\ child \notin {"up", "ending"} -> {"0"}
                 [] OTHER -> IF ldone THEN {"infra"} ELSE {lcode}
  /\ UNCHANGED <<lmode, ldone, child, lcode, slain, svcVars, lcred>>

-----------------------------------------------------------------------------
(* A service.                                                              *)

\* kill(-pgid): every member of the group that lives.
Killed == /\ leader' = (IF leader = "up" THEN "zombie" ELSE leader)
          /\ lcode' = (IF leader = "up" THEN "signal" ELSE lcode)
          /\ slain' = (slain \/ leader = "up")
          /\ child' = (IF child \in {"up", "ending"} THEN "dead" ELSE child)

\* cmd.Wait returns in the reaping goroutine.
ReapLeader ==
  /\ lmode = "service" /\ lwaiter = "wait" /\ leader = "zombie"
  /\ leader' = "reaped" /\ lwaiter' = "sweep"
  /\ UNCHANGED <<lmode, lat, ldone, child, lcode, slain, stopping, swept, lstop, early, lres, lcred>>

\* sweepUnlessStopping, under mu.
SweepAlways ==
  /\ lwaiter = "sweep" /\ lwaiter' = "drain"
  /\ Killed /\ swept' = TRUE /\ early' = (early \/ (lstop \in {"told", "grace"} /\ child = "ending"))
  /\ UNCHANGED <<lmode, lat, ldone, stopping, lstop, lres, lcred>>

SweepNothing ==
  /\ lwaiter = "sweep" /\ lwaiter' = "drain" /\ swept' = TRUE
  /\ UNCHANGED <<lmode, lat, ldone, procVars, stopping, lstop, early, lres, lcred>>

sweepUnlessStopping ==
  /\ lwaiter = "sweep" /\ lwaiter' = "drain"
  /\ IF stopping THEN UNCHANGED <<procVars, swept, early>>
     ELSE Killed /\ swept' = TRUE /\ early' = (early \/ (lstop \in {"told", "grace"} /\ child = "ending"))
  /\ UNCHANGED <<lmode, lat, ldone, stopping, lstop, lres, lcred>>

\* drainCopies waits for the pipes, or waitDelay; serviceVerdict; done.
serviceVerdict ==
  /\ lwaiter = "drain" /\ lwaiter' = "done"
  /\ lat' = "ran" /\ lres' \in {lcode, "infra"}
  /\ UNCHANGED <<lmode, ldone, procVars, stopping, swept, lstop, early, lcred>>

\* Stop takes the group's end over, unless it has been swept.
Stop ==
  /\ lmode = "service" /\ lat \in {"running", "ran"} /\ lstop = "no" /\ stopping' = TRUE
  /\ lstop' = IF swept THEN "join" ELSE "begun"
  /\ UNCHANGED <<lmode, lat, ldone, procVars, swept, lwaiter, early, lres, lcred>>

\* After done: what a program that ran left behind is killed. Otherwise
\* SIGTERM to the group, which its members may act on or ignore; a context
\* that is done goes straight to the kill.
StopSignals ==
  /\ lstop = "begun"
  /\ CASE lwaiter = "done" /\ leader = "none" -> lstop' = "returned" /\ UNCHANGED procVars
       [] lwaiter = "done" /\ leader # "none" -> lstop' = "returned" /\ Killed
       [] lwaiter # "done" /\ ldone -> lstop' = "kill" /\ UNCHANGED procVars
       [] OTHER -> /\ lstop' = "told"
                   /\ child' = (IF child = "up" THEN "ending" ELSE child)
                   /\ slain' = (slain \/ leader = "up")
                   /\ \/ UNCHANGED <<leader, lcode>>
                      \/ leader = "up" /\ leader' = "zombie" /\ lcode' = "signal"
  /\ UNCHANGED <<lmode, lat, ldone, stopping, swept, lwaiter, early, lres, lcred>>

\* The select: done, and then groupEmptyWithin for what is left of the grace;
\* or the grace, or the context, runs out.
AwaitGroup ==
  /\ \/ lstop = "told" /\ lwaiter = "done" /\ lstop' = "grace"
     \/ lstop = "grace" /\ child \in {"none", "dead"} /\ lstop' = "returned"
     \/ lstop \in {"told", "grace"} /\ lstop' = "kill"
  /\ UNCHANGED <<lmode, lat, ldone, procVars, stopping, swept, lwaiter, early, lres, lcred>>

KillGroup ==
  /\ lstop = "kill" /\ lstop' = "join" /\ Killed
  /\ UNCHANGED <<lmode, lat, ldone, stopping, swept, lwaiter, early, lres, lcred>>

StopJoins ==
  /\ lstop = "join" /\ lwaiter = "done" /\ lstop' = "returned"
  /\ UNCHANGED <<lmode, lat, ldone, procVars, stopping, swept, lwaiter, early, lres, lcred>>

\* Close removes the secrets, whatever is kept of the run.
CloseLocal ==
  /\ lat = "ran" /\ (lmode = "service" => lstop = "returned") /\ lat' = "closed"
  /\ lcred' = IF lcred = "made" THEN "gone" ELSE lcred
  /\ UNCHANGED <<lmode, ldone, procVars, svcVars, lres>>

CancelLocal ==
  /\ ~ldone /\ lat \in {"new", "running"} /\ ldone' = TRUE
  /\ UNCHANGED <<lmode, lat, procVars, svcVars, lres, lcred>>

ServiceStep ==
  ReapLeader \/ sweepUnlessStopping \/ serviceVerdict \/ StopSignals \/ AwaitGroup \/ KillGroup \/ StopJoins

LocalNext ==
  \/ realize \/ LocalPutSecret \/ Start \/ LeaderExits \/ ChildExits \/ ContextKills \/ classifyRunError
  \/ Stop \/ ServiceStep \/ CloseLocal \/ CancelLocal

\* The waits are bounded: by waitDelay, by the grace, by SIGKILL.
LocalFairness == WF_localVars(ServiceStep)
LocalSpec == LocalInit /\ [][LocalNext]_localVars /\ LocalFairness

-----------------------------------------------------------------------------
\* A stopped service is gone, what its wrapper left behind included, and has
\* been reaped and drained (service.go:305); a server its wrapper left
\* shutting down is not killed while the grace runs (service.go:290); and a
\* code is the process's own: one the context killed is never a verdict.
LocalServiceGone ==
  /\ lstop = "returned" => leader \in {"none", "reaped"} /\ child \in {"none", "dead"} /\ lwaiter = "done"
  /\ ~early
  /\ lmode # "service" /\ lres \in {"0", "1", "signal"} => lres = lcode /\ ~slain
  /\ lat = "closed" => lcred # "made"

\* Stop returns.
StopReturns == lstop = "begun" ~> lstop = "returned"
=============================================================================
