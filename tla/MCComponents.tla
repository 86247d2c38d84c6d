---------------------------- MODULE MCComponents ----------------------------
(***************************************************************************)
(* The components checked for what they may never do - the plan, the       *)
(* caches and stores, analysis, the hosts and containers steps run on,     *)
(* remote functions, the image lock, the attach server, the clients that   *)
(* show a run, triggers and the browser's server - side by side.  They     *)
(* share no variable: `subject` names the one that moves in a behaviour    *)
(* and the others stay in an initial state, so what TLC explores is the    *)
(* sum of their state graphs.                                              *)
(***************************************************************************)
EXTENDS Generate, Build, PlanCheck, StepCache, RemoteTier, Scratch,
        Analyze, SSHHost, ContainerExec, FuncRemote, ImageLock, AttachServer,
        LogPane, Render, Trigger, WebUI, KubeLock, Verify, Registry

VARIABLE subject

Subjects == {"generate", "build", "plancheck", "stepcache", "remotetier", "scratch",
             "analyze", "sshhost", "container", "func", "imagelock", "attach", "pane",
             "render", "trigger", "webui", "cluster", "verify", "page", "registry"}

-----------------------------------------------------------------------------
(* The instances: values of the components' constants.                     *)

\* Generate: a generator, a step behind it and one whose name a fragment may
\* collide with; a fragment with a boundary, one that generates again, one
\* that collides and one with a cycle.
Planned(i, ns, g) == [id |-> i, needs |-> ns, gen |-> g]
TheFragments ==
  {[nodes |-> <<Planned("x", {}, FALSE), Planned("y", {"x"}, FALSE)>>, boundary |-> {"y"}],
   [nodes |-> <<Planned("y", {}, FALSE), Planned("x", {"y"}, TRUE)>>, boundary |-> {"x"}],
   [nodes |-> <<Planned("z", {}, TRUE)>>, boundary |-> {"z"}],
   [nodes |-> <<Planned("x", {"y"}, FALSE), Planned("y", {"x"}, FALSE)>>, boundary |-> {}]}
TheBasePlan == (<<"g">> :> [needs |-> {}, gen |-> TRUE])
            @@ (<<"d">> :> [needs |-> {<<"g">>}, gen |-> FALSE])
            @@ (<<"g", "z">> :> [needs |-> {}, gen |-> FALSE])
ThePureSteps == {<<"g">>}

\* Build: three units, of which v depends on u, and changes of one file, of
\* another, and of one that belongs to no unit.
ThreeUnits   == <<"u", "v", "w">>
OwnedBy      == ("fu" :> {"u"}) @@ ("fw" :> {"w"}) @@ ("top" :> {})
Dependencies == ("u" :> {}) @@ ("v" :> {"u"}) @@ ("w" :> {})
Lasting      == ("u" :> 2) @@ ("v" :> 0) @@ ("w" :> 1)
TwoWorkflows == <<"A", "B">>
ThreeSteps   == <<"a", "b", "c">>
TwoExpansions == <<"build", "test">>
SomeChanges  == {[all |-> TRUE, files |-> {}], [all |-> FALSE, files |-> {"fu"}],
                 [all |-> FALSE, files |-> {"fw", "top"}]}
ThreeShards  == <<"shard 0", "shard 1", "shard 2">>
SomeNeeds    == SUBSET {<<"a", "">>, <<"b", "">>}
SomeHandlers == {{}, {"b"}}
SomeEach     == {{}, {"build"}}

\* PlanCheck: a run's workspace, a step's own, and a path inside another.
TheScopes == ("src" :> "run") @@ ("tmp" :> "step")
Nested    == {<<"/src", "/src/out">>}

\* StepCache: two settings with different keys, the first stored already.
Setting(i, e, m) == [input |-> i, env |-> e, mode |-> m]
TwoSettings   == {Setting(0, 0, ""), Setting(1, 0, "rw")}
StoredSetting == {Setting(0, 0, "")}
GeneratorStep == {Setting(1, 0, "rw")}

\* RemoteTier: two clients, on one host or each on a host of its own.
TheHostings == {[c \in Clients |-> "h1"], ("k1" :> "h1") @@ ("k2" :> "h2")}

\* Scratch: two steps on the coordinator, two elsewhere, in a chain.
ScratchChain == [s \in ScSteps |->
  CASE s = "e1" -> {"l1"} [] s = "e2" -> {"l1", "e1"} [] s = "l2" -> {"l1", "e1", "e2"} [] OTHER -> {}]

\* AttachServer: a caller that may ask for either, one that only controls.
OneMayOpenAShell == [c \in Callers |-> IF c = "q1" THEN {"control", "shell"} ELSE {"control"}]

\* FuncRemote: two functions of a foreign platform and one of the coordinator's.
FuncPlatforms == [c \in Calls |-> IF c = "f3" THEN "amd64" ELSE "arm64"]

\* Trigger: versions whose order is not that of their text, and pipelines that
\* declare one, two or three triggers.
Version(a, b, c, pre) == <<a, b, c, pre>>
SomeVersions ==
  {"latest", Version(1, 0, 0, <<>>), Version(1, 0, 0, <<<<1, 1>>>>), Version(1, 0, 0, <<<<1, 1>>, <<0, 2>>>>),
   Version(1, 0, 0, <<<<1, 1>>, <<0, 10>>>>), Version(0, 9, 1, <<>>), Version(1, 2, 0, <<<<0, 5>>>>)}
SomePipelines ==
  {<<newTrigger("push", <<<<"branches", {}>>, <<"paths", {"f"}>>>>)>>,
   <<newTrigger("push", <<<<"paths", {"f"}>>>>),
     newTrigger("tag", <<<<"semver", ">=", Version(1, 0, 0, <<<<1, 1>>, <<0, 2>>>>)>>>>),
     newTrigger("pull_request", <<<<"actions", {"opened"}>>>>)>>,
   <<newTrigger("push", <<>>), newTrigger("pull_request", <<<<"paths", {"f"}>>>>),
     newTrigger("tag", <<<<"semver", "<", Version(1, 0, 0, <<>>)>>>>)>>,
   <<newTrigger("push", <<>>), newTrigger("push", <<<<"actions", {"opened"}>>>>)>>,
   <<newTrigger("tag", <<<<"semver", "=", Version(1, 0, 0, <<>>)>>>>), newTrigger("tag", <<<<"paths", {"g"}>>>>)>>}

\* Verify: a plan in which a sibling writes beside a step and another reads
\* what it made, and the plan edited so that the two are ordered and a step
\* this command cannot run follows.
Checked(i, ns, ms, rs, does) ==
  [id |-> i, needs |-> ns, mounts |-> ms, reads |-> rs, does |-> does,
   refused |-> i = "d", noSnapshot |-> i = "d", outputs |-> i \in {"a", "c"}]
OnWorkspace(mode) == "w" :> mode
TheEditedPlan ==
  {<<Checked("a", {}, OnWorkspace("rw"), {}, "pure"), Checked("b", {}, OnWorkspace("rw"), {}, "hidden"),
     Checked("c", {"a"}, OnWorkspace("rw"), {"a"}, "pure")>>,
   <<Checked("a", {}, OnWorkspace("rw"), {}, "pure"), Checked("b", {"a"}, OnWorkspace("rw"), {"a"}, "random"),
     Checked("d", {"b"}, << >>, {}, "pure")>>}

-----------------------------------------------------------------------------
ComponentInit ==
  /\ subject \in Subjects
  /\ GenerateInit  /\ (subject # "generate" => stored = << >>)
  /\ BuildInit /\ PlanCheckInit /\ AnalyzeInit /\ HostInit /\ RenderInit /\ UiInit /\ Init
  /\ StepCacheInit /\ (subject # "stepcache" => \A r \in CacheRuns : crun[r].step \in Earlier)
  /\ TierInit      /\ (subject # "remotetier" => backend = "s3" /\ \A c \in Clients : hostOf[c] = "h1")
  /\ ScratchInit   /\ (subject # "scratch" => elsewhere = {})
  /\ CtrInit       /\ (subject # "container" => cmode = "step" /\ image)
  /\ FuncInit      /\ (subject # "func" => built = {})
  /\ LockInit      /\ (subject # "imagelock" => /\ \A s, t \in Tags : registry[s] = registry[t] /\ registry[t] = "d1"
                                               /\ images = {} /\ fileIs = "none")
  /\ AttachInit    /\ (subject # "attach" => ~ro)
  /\ PaneInit      /\ (subject # "pane" => foldAt = 0)
  /\ VerifyInit    /\ (subject # "verify" => vplan[3].id = "c")
  /\ PageInit
  /\ RegistryInit  /\ (subject # "registry" => shelf = "registry")
  /\ IF subject = "trigger" THEN TriggerInit
     ELSE happened = <<>> /\ delivery = <<>> /\ intake = "request" /\ event = <<>> /\ outcome = "none"

\* Everything but the component c stays as it is.
Only(c) ==
  /\ subject = c /\ UNCHANGED subject
  /\ c # "generate"   => UNCHANGED generateVars
  /\ c # "build"      => UNCHANGED buildVars
  /\ c # "plancheck"  => UNCHANGED planVars
  /\ c # "stepcache"  => UNCHANGED cacheVars
  /\ c # "remotetier" => UNCHANGED tierVars
  /\ c # "scratch"    => UNCHANGED scratchVars
  /\ c # "analyze"    => UNCHANGED analyzeVars
  /\ c # "sshhost"    => UNCHANGED hostSharedVars
  /\ c # "container"  => UNCHANGED ctrVars
  /\ c # "func"       => UNCHANGED funcVars
  /\ c # "imagelock"  => UNCHANGED imageLockVars
  /\ c # "attach"     => UNCHANGED attachVars
  /\ c # "pane"       => UNCHANGED paneVars
  /\ c # "render"     => UNCHANGED renderVars
  /\ c # "trigger"    => UNCHANGED triggerVars
  /\ c # "webui"      => UNCHANGED uiVars
  /\ c # "cluster"    => UNCHANGED vars
  /\ c # "verify"     => UNCHANGED verifyVars
  /\ c # "page"       => UNCHANGED pageVars
  /\ c # "registry"   => UNCHANGED registryVars

ComponentNext ==
  \/ Only("generate")   /\ GenerateNext
  \/ Only("build")      /\ BuildNext
  \/ Only("plancheck")  /\ PlanCheckNext
  \/ Only("stepcache")  /\ StepCacheNext
  \/ Only("remotetier") /\ TierNext
  \/ Only("scratch")    /\ ScratchNext
  \/ Only("analyze")    /\ AnalyzeNext
  \/ Only("sshhost")    /\ HostNext
  \/ Only("container")  /\ CtrNext
  \/ Only("func")       /\ FuncNext
  \/ Only("imagelock")  /\ LockNext
  \/ Only("attach")     /\ AttachNext
  \/ Only("pane")       /\ PaneNext
  \/ Only("render")     /\ RenderNext
  \/ Only("trigger")    /\ TriggerNext
  \/ Only("webui")      /\ UiNext
  \/ Only("cluster")    /\ Next
  \/ Only("verify")     /\ VerifyNext
  \/ Only("page")       /\ PageNext
  \/ Only("registry")   /\ RegistryNext

-----------------------------------------------------------------------------
(* Properties across components.  Each part speaks of the component that   *)
(* moves; it says nothing new of the others.                               *)

\* A plan that was accepted or spliced can be run as it was meant: the live
\* graph stays finishable, a boundary and a workflow barrier hold, every unit
\* is covered and ordered, and a declared drift check compares something
\* (generate.go:83, senro.go:1258, senro.go:960, validate.go:1034).
PlanIsSound ==
  /\ subject = "generate" => LiveGraphSound /\ BoundaryIsWaitedFor
  /\ subject = "build" => BarrierHolds /\ EveryUnitOrdered
  /\ subject = "plancheck" => DriftIsCaught

\* What a shared or a kept store hands to a later run is whole: an entry's
\* objects are there, what a push stored can be read back, and a scratch cache
\* holds the work that was done in it (remotecache/tier.go, oci/client.go:345,
\* workspaces.go:104).
StoresAreWhole ==
  /\ subject = "remotetier" => SharedEntriesResolve
  /\ subject = "registry" => PushedIsReadable
  /\ subject = "scratch" => StoredIsUsed

\* A container's code is the command's, a remote function's verdict the
\* function's own, and no slot of a shared connection is lost or used after
\* Close (containerexec.go:492, funcremote.go:339, mux.go:352).
VerdictsAreEarned ==
  /\ subject = "container" => ContainerVerdict
  /\ subject = "func" => FuncVerdict
  /\ subject = "sshhost" => MuxIsAccounted

\* What a client of a run is told happened, over the attach socket and in the
\* browser, and the log it is shown, in the terminal's pane and on the page
\* (attachsrv/server.go:596, webui/control.go:146, tui/model.go:427,
\* webui/client/main.go:416).
AnswersAreHonest ==
  /\ subject = "attach" => AttachIsHonest
  /\ subject = "webui" => UiIsHonest
  /\ subject = "pane" => PaneIsTheLog
  /\ subject = "page" => PageIsTheFile

\* What is reported of a run is the run: its plain log, folded from its
\* events, and the verdicts of `senro verify` on its cached steps
\* (render/plain.go:50, verify.go:600).
ReportsAreTheRun ==
  /\ subject = "render" => RenderIsTheRun
  /\ subject = "verify" => VerdictsAreAboutTheStep
=============================================================================
