---------------------------- MODULE MCLifecycles ----------------------------
(***************************************************************************)
(* The components whose work must come to an end - services, the archiver, *)
(* workspaces, the persistent store, the executors, the exec channel, the  *)
(* launched child, notifications and the webhook dispatcher - side by      *)
(* side.  They share no variable: `subject` names the one that moves in a  *)
(* behaviour, the others stay in an initial state, so what TLC explores is *)
(* the sum of their state graphs and each specification is checked as its  *)
(* own module states it, fairness included.                                *)
(***************************************************************************)
EXTENDS Services, Archive, Workspaces, Persist, K8sExec, SSHExec, LocalExec,
        Launch, Notify, Dispatch

VARIABLE subject

Subjects == {"services", "archive", "workspaces", "store", "k8s", "ssh", "local",
             "exec", "launch", "notify", "dispatch"}

-----------------------------------------------------------------------------
(* The instances: values of the components' constants.                     *)

\* Workspaces: a service that reads the second directory, and two steps that need
\* it: a cached one that writes the first and is retried, and one that mounts
\* both, writes the first and has a session opened on it.
MountsOf   == [s \in WsSteps |-> CASE s = "s1" -> {1, 2} [] s = "s2" -> {1} [] OTHER -> {2}]
WritesOf   == [s \in WsSteps |-> IF s = "s3" THEN {} ELSE {1}]
NeedsOf    == [s \in WsSteps |-> IF s = "s3" THEN {} ELSE {"s3"}]
AttemptsOf == [s \in WsSteps |-> IF s = "s2" THEN 2 ELSE 1]
ShellOf    == [a \in Sessions |-> "s1"]

\* Persist: two runs that lease both of two workspaces, in opposite orders,
\* and of which only the second bounds their size.
PlanOrder == [r \in LeasingRuns |-> IF r = "r1" THEN <<"a", "b">> ELSE <<"b", "a">>]
PlanBound == [r \in LeasingRuns |-> IF r = "r1" THEN 0 ELSE 1]
NameOrder == <<"a", "b">>

-----------------------------------------------------------------------------
LifecycleInit ==
  /\ subject \in Subjects
  /\ ServicesInit /\ ArchiveInit /\ WorkspacesInit /\ PersistInit
  /\ K8sInit      /\ (subject # "k8s" => kmode = "step" /\ kclaimed = {})
  /\ SshInit
  /\ LocalInit    /\ (subject # "local" => lmode = "step")
  /\ ExecInit     /\ (subject # "exec" => ~withStdin)
  /\ LaunchInit   /\ (subject # "launch" => verb = "run" /\ ~listens)
  /\ NotifyInit   /\ (subject # "notify" => \A d \in Dests : flavour[d] = "hook")
  /\ DispatchInit /\ (subject # "dispatch" => ~cancel)

\* Everything but the component c stays as it is.
Only(c) ==
  /\ subject = c /\ UNCHANGED subject
  /\ c # "services"   => UNCHANGED serviceVars
  /\ c # "archive"    => UNCHANGED archiveVars
  /\ c # "workspaces" => UNCHANGED wsVars
  /\ c # "store"      => UNCHANGED persistVars
  /\ c # "k8s"        => UNCHANGED k8sVars
  /\ c # "ssh"        => UNCHANGED sshVars
  /\ c # "local"      => UNCHANGED localVars
  /\ c # "exec"       => UNCHANGED execVars
  /\ c # "launch"     => UNCHANGED launchVars
  /\ c # "notify"     => UNCHANGED notifyVars
  /\ c # "dispatch"   => UNCHANGED dispatchVars

LifecycleNext ==
  \/ Only("services")   /\ ServicesNext
  \/ Only("archive")    /\ ArchiveNext
  \/ Only("workspaces") /\ WorkspacesNext
  \/ Only("store")      /\ PersistNext
  \/ Only("k8s")        /\ K8sNext
  \/ Only("ssh")        /\ SshNext
  \/ Only("local")      /\ LocalNext
  \/ Only("exec")       /\ ExecNext
  \/ Only("launch")     /\ LaunchNext
  \/ Only("notify")     /\ NotifyNext
  \/ Only("dispatch")   /\ DispatchNext

\* The fairness each component states for itself, of the component that moves:
\* one that stands still owes nothing.
LifecycleFairness ==
  /\ WF_serviceVars(subject = "services" /\ ServiceLoop)
  /\ WF_serviceVars(subject = "services" /\ ServiceGoroutine)
  /\ \A c \in Consumers : WF_serviceVars(subject = "services" /\ ConsumerGoroutine(c))
  /\ \A w \in ArchiveWorkers : /\ WF_archiveVars(subject = "archive" /\ takeJob(w))
                               /\ WF_archiveVars(subject = "archive" /\ cancelledUp /\ failUpload(w))
  /\ WF_archiveVars(subject = "archive" /\ ArchiveLedger)
  /\ WF_archiveVars(subject = "archive" /\ CloseArchiver)
  /\ WF_archiveVars(subject = "archive" /\ graceExpires)
  /\ WF_archiveVars(subject = "archive" /\ closeReturns)
  /\ \A f \in Streams : WF_archiveVars(subject = "archive" /\ archiveAttempt(f))
  /\ \A a \in Actors : WF_wsVars(subject = "workspaces" /\ phase = "run" /\ (TakeShared(a) \/ TakeExclusive(a)))
  /\ \A s \in WsSteps : WF_wsVars(subject = "workspaces" /\ StepMoves(s))
  /\ \A a \in Sessions : WF_wsVars(subject = "workspaces" /\ (readCovered(a) \/ checkCovered(a) \/ readLocked(a)))
  /\ WF_wsVars(subject = "workspaces" /\ endRun)
  /\ \A r \in LeasingRuns : WF_persistVars(subject = "store" /\ Step(r))
  /\ WF_k8sVars(subject = "k8s" /\ SandboxStep)
  /\ WF_sshVars(subject = "ssh" /\ Reap) /\ WF_sshVars(subject = "ssh" /\ AttemptStep)
  /\ WF_localVars(subject = "local" /\ ServiceStep)
  /\ WF_execVars(subject = "exec" /\ Exec) /\ WF_execVars(subject = "exec" /\ closeOnCancel)
  /\ WF_execVars(subject = "exec" /\ pumpWrites) /\ WF_execVars(subject = "exec" /\ pumpCloses)
  /\ WF_execVars(subject = "exec" /\ readMessage) /\ WF_execVars(subject = "exec" /\ closeConn)
  /\ WF_execVars(subject = "exec" /\ awaitPump) /\ WF_execVars(subject = "exec" /\ return)
  /\ WF_execVars(subject = "exec" /\ eof /\ commandExits)
  /\ WF_launchVars(subject = "launch" /\ CliStep)
  /\ WF_notifyVars(subject = "notify" /\ FlushStep) /\ WF_notifyVars(subject = "notify" /\ record)
  /\ WF_notifyVars(subject = "notify" /\ settle)
  /\ \A d \in Deliveries : /\ WF_dispatchVars(subject = "dispatch" /\ Stage(d))
                           /\ WF_dispatchVars(subject = "dispatch" /\ timeout(d))
                           /\ WF_dispatchVars(subject = "dispatch" /\ ended[d] /\ pipelineEnds(d))

LifecycleSpec ==
  LifecycleInit /\ [][LifecycleNext]_<<subject, serviceVars, archiveVars, wsVars, persistVars, k8sVars,
     sshVars, localVars, execVars, launchVars, notifyVars, dispatchVars>> /\ LifecycleFairness

-----------------------------------------------------------------------------
(* Properties across components.                                           *)

\* Whatever runs a step - a pod, a remote host, an exec session - an exit code
\* it reports is the step's own, and a step that was cut off, cancelled or
\* never given its workspaces is never given one (k8sexec/classify.go:42,
\* sshexec/classify.go:33, kubeapi/exec.go:119).
VerdictsAreTheSteps == VerdictIsTheSteps /\ SshVerdict /\ ExecVerdict

\* A closed sandbox leaves no pod, Secret, process or credential behind that it
\* knows of (k8sexec.go:1035, local/service.go:305).
NothingIsLeft == CloseLeavesNothing /\ LocalServiceGone

\* What must come to an end has begun, and what its end is, component by
\* component: the two sides of the liveness property its module states
\* (ServicesDrain, CloseReturns, StepsSettle, EveryRunEnds, K8sEnds,
\* NothingStays, StopReturns, SessionEnds, InterruptEnds, FlushReturns,
\* GroupIsFreed).  Deliveries are few and each comes once, so the group is free
\* again whenever it is taken.
Owed ==
  \/ subject = "services"   /\ ~paused
  \/ subject = "archive"
  \/ subject = "workspaces" /\ phase = "run"
  \/ subject = "store"      /\ \E r \in LeasingRuns : runAt[r] = "lock"
  \/ subject = "k8s"        /\ kat = "new"
  \/ subject = "ssh"        /\ (credAt = "present" \/ dirAt = "made")
  \/ subject = "local"      /\ lstop = "begun"
  \/ subject = "exec"       /\ call = "read" /\ (ctxOver \/ conn = "broken" \/ pump = "close")
  \/ subject = "launch"     /\ asked /\ cli \in {"build", "poll", "connect", "watch"}
  \/ subject = "notify"     /\ flush = "closing"
  \/ subject = "dispatch"   /\ holder # NoHolder

Paid ==
  CASE subject = "services"   -> \/ loopAt = "done" /\ busy = {}
                                \/ paused \/ nodeState[Svc] = "skipped_manual"
    [] subject = "archive"    -> closing = "returned" \/ panicked
    [] subject = "workspaces" -> phase = "ended"
    [] subject = "store"      -> \A r \in LeasingRuns : runAt[r] \in {"idle", "over", "dead"}
    [] subject = "k8s"        -> kat = "closed"
    [] subject = "ssh"        -> credAt # "present" /\ dirAt # "made"
    [] subject = "local"      -> lstop = "returned"
    [] subject = "exec"       -> call = "returned"
    [] subject = "launch"     -> cli = "exited"
    [] subject = "notify"     -> flush = "returned"
    [] subject = "dispatch"   -> holder = NoHolder

\* Every lifecycle comes to its end: a run's services drain and its steps
\* settle, the archiver's Close, a stop, an exec session, an interrupted CLI and
\* Flush return, a sandbox is closed, nothing
\* stays on a remote host, and the dispatcher's group is freed.
EverythingEnds == Owed ~> Paid
=============================================================================
