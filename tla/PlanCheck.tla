----------------------------- MODULE PlanCheck -----------------------------
(***************************************************************************)
(* What internal/plan/validate.go accepts, and what the engine then does   *)
(* with an accepted step: which tree its inputs are measured from, which   *)
(* mounts are snapshotted and compared, which scratch caches are carried   *)
(* between machines (internal/engine/workspaces.go, checkgenerated.go).    *)
(*                                                                         *)
(* A step is declared by setter calls, as with senro.StepBuilder: flags    *)
(* holds the ones that take no argument the rules tell apart.  A mount     *)
(* names a workspace or a scratch cache, a path and a mode.  The second    *)
(* step is there to share caches with.                                     *)
(***************************************************************************)
EXTENDS Naturals, Sequences, FiniteSets

CONSTANTS
    ScopeOf,        \* workspace -> "run", "step" or "persistent"
    Claimed,        \* workspaces that a k8s target backs with a claim
    Caches,         \* scratch caches
    Paths,          \* mount paths and working directories
    Inside,         \* pairs <<outer, inner>> of nested paths
    MaxCalls        \* bound: setter calls

StepFlags == {"func", "service", "pure", "inputs", "outputs", "cacheEnv", "checkGenerated",
              "noSnapshot", "retry", "junit", "secret", "env", "generate", "handler"}
Targets == {"local", "container", "k8s", "ssh", "container without image", "k8s by tag"}
Both == {"p", "q"}
Unset == "unset"

VARIABLES draft, verdict, calls, attempt

planVars == <<draft, verdict, calls, attempt>>

Blank == [flags |-> {}, on |-> "local", workDir |-> Unset, mounts |-> <<>>, needs |-> FALSE]

PlanCheckInit ==
    /\ draft = [n \in Both |-> Blank]
    /\ verdict = Unset
    /\ calls = MaxCalls
    /\ attempt = [of |-> Unset, wrote |-> {}, failed |-> FALSE]

-----------------------------------------------------------------------------
(* Declarations.                                                           *)

Called == verdict = Unset /\ calls > 0 /\ calls' = calls - 1 /\ UNCHANGED <<verdict, attempt>>

SetFlag(f) ==
    /\ Called /\ f \notin draft["p"].flags
    /\ draft' = [draft EXCEPT !["p"].flags = @ \cup {f}]

On(n, target) ==
    /\ Called /\ draft[n].on = "local" /\ target # "local"
    /\ draft' = [draft EXCEPT ![n].on = target]

WorkDir(path) ==
    /\ Called /\ draft["p"].workDir = Unset
    /\ draft' = [draft EXCEPT !["p"].workDir = path]

MountAt(n, name, path, mode) ==
    /\ Called /\ Len(draft[n].mounts) < 2
    /\ draft' = [draft EXCEPT ![n].mounts = Append(@, [name |-> name, at |-> path, mode |-> mode])]

Needs ==
    /\ Called /\ ~draft["q"].needs
    /\ draft' = [draft EXCEPT !["q"].needs = TRUE]

-----------------------------------------------------------------------------
(* Validation.                                                             *)

Has(n, f) == f \in n.flags
Mounts(n) == {n.mounts[i] : i \in DOMAIN n.mounts}
IsWorkspace(m) == m.name \in DOMAIN ScopeOf
WorkspaceMounts(n) == {i \in DOMAIN n.mounts : IsWorkspace(n.mounts[i])}
IsClaimed(n, m) == n.on = "k8s" /\ m.name \in Claimed

validateFuncSecrets(n) == ~(Has(n, "func") /\ Has(n, "secret") /\ n.on = "k8s")

validateTests(n) == Has(n, "junit") => ~Has(n, "func") /\ n.on = "local"

validateService(n) ==
    Has(n, "service") =>
        /\ n.on \in {"local", "container", "container without image"}
        /\ n.flags \cap {"func", "retry", "pure", "generate", "handler"} = {}

validateCheckGenerated(n) ==
    Has(n, "checkGenerated") =>
        /\ n.flags \cap {"service", "noSnapshot", "retry"} = {}
        /\ \E m \in Mounts(n) : IsWorkspace(m) /\ m.mode = "rw"

validateExecutor(n) == n.on \in {"local", "container", "k8s", "ssh"}

\* A variable that carries a secret's path is set by nothing else.
validateSecrets(n) == Has(n, "secret") => n.flags \cap {"env", "cacheEnv"} = {}

nodeShape(n) ==
    /\ Has(n, "func") => ~Has(n, "env") /\ n.workDir = Unset /\ validateFuncSecrets(n)
    /\ validateTests(n) /\ validateService(n) /\ validateCheckGenerated(n)
    /\ validateExecutor(n) /\ validateSecrets(n)

\* Mutant: a read-write mount that is never snapshotted is enough.
AnyWritableMount(n) ==
    Has(n, "checkGenerated") => \E m \in Mounts(n) : IsWorkspace(m) /\ m.mode = "rw"

validateCheckGeneratedStorage(n) ==
    Has(n, "checkGenerated") =>
        \E m \in Mounts(n) : /\ IsWorkspace(m) /\ m.mode = "rw"
                             /\ ScopeOf[m.name] # "step" /\ ~IsClaimed(n, m)

isAncestorOrSelf(root, path) == root = path \/ <<root, path>> \in Inside

mountsAtWorkDir(n) ==
    LET at == {n.mounts[i].at : i \in WorkspaceMounts(n)}
    IN IF n.workDir # Unset THEN n.workDir \in at
       ELSE \E root \in at : \A p \in at : isAncestorOrSelf(root, p)

validateNodeStorage(n) ==
    /\ \A i, j \in DOMAIN n.mounts : i # j => n.mounts[i].at # n.mounts[j].at
    /\ \A m \in Mounts(n) : m.name \in Caches => m.mode = "rw"
    /\ validateCheckGeneratedStorage(n)
    /\ ~Has(n, "pure") => n.flags \cap {"inputs", "outputs", "cacheEnv"} = {}
    /\ Has(n, "pure") =>
         /\ \A m \in Mounts(n) : ~IsClaimed(n, m)
         /\ Has(n, "inputs")
         /\ (n.on # "local" \/ Has(n, "outputs")) => WorkspaceMounts(n) # {}
         /\ Cardinality(WorkspaceMounts(n)) > 1 => mountsAtWorkDir(n)

RemoteMounts(n) == n.on \in {"k8s", "ssh"}

\* The scratch cache a step is filed under: the loop leaves its mounts at the
\* first scratch cache among them.
FiledUnder(n) ==
    {n.mounts[i].name : i \in {j \in DOMAIN n.mounts :
        /\ n.mounts[j].name \in Caches
        /\ \A k \in 1..(j - 1) : n.mounts[k].name \notin Caches}}

\* One cache on both kinds of machine: the graph orders the two.  q is the
\* only step here that can need the other.
validateScratchTargets ==
    \A c \in Caches :
        (c \in FiledUnder(draft["p"]) \cap FiledUnder(draft["q"])
            /\ RemoteMounts(draft["p"]) # RemoteMounts(draft["q"])) => draft["q"].needs

Accepts ==
    /\ \A n \in Both : nodeShape(draft[n])
    /\ \A n \in Both : validateNodeStorage(draft[n])
    /\ validateScratchTargets

Validate ==
    /\ verdict = Unset
    /\ verdict' = IF Accepts THEN "accepted" ELSE "refused"
    /\ UNCHANGED <<draft, calls, attempt>>

-----------------------------------------------------------------------------
(* The engine.                                                             *)

\* plan.Node.InputWorkspace: the tree Inputs and Outputs are relative to.
InputWorkspace(n) ==
    LET ws == {n.mounts[i] : i \in WorkspaceMounts(n)}
        here == {m \in ws : IF n.workDir = Unset THEN m.at \in {".", "/"} ELSE m.at = n.workDir}
    IN IF here # {} THEN (CHOOSE m \in here : TRUE).name
       ELSE IF Cardinality(WorkspaceMounts(n)) = 1 THEN (CHOOSE m \in ws : TRUE).name
       ELSE Unset

\* snapshotMounts: the workspaces measured when an attempt has exited 0.
Snapshotted(n) ==
    IF Has(n, "noSnapshot") THEN {}
    ELSE {m \in Mounts(n) : IsWorkspace(m) /\ ScopeOf[m.name] # "step" /\ ~IsClaimed(n, m)}

\* A read-only mount whose tree changed: snapshotMounts reports a violation.
WroteReadOnly(n, wrote) == \E m \in Snapshotted(n) : m.mode = "ro" /\ m.name \in wrote

\* checkGenerated looks each snapshot's mount up by name: the last one counts.
Drifted(n, wrote) ==
    \E m \in Snapshotted(n) :
        LET last == CHOOSE i \in DOMAIN n.mounts :
                        /\ n.mounts[i].name = m.name
                        /\ \A j \in DOMAIN n.mounts : n.mounts[j].name = m.name => j <= i
        IN n.mounts[last].mode = "rw" /\ m.name \in wrote

\* A successful attempt of p that changes the trees in wrote.
RunAttempt(wrote) ==
    /\ verdict = "accepted" /\ attempt.of = Unset
    /\ wrote \subseteq {m.name : m \in {k \in Mounts(draft["p"]) : k.mode = "rw"}}
    /\ attempt' = [of |-> "p", wrote |-> wrote,
                   failed |-> \/ WroteReadOnly(draft["p"], wrote)
                              \/ Has(draft["p"], "checkGenerated") /\ Drifted(draft["p"], wrote)]
    /\ UNCHANGED <<draft, verdict, calls>>

PlanCheckNext ==
    \/ \E f \in StepFlags : SetFlag(f)
    \/ \E n \in Both, t \in Targets : On(n, t)
    \/ \E path \in Paths : WorkDir(path)
    \/ \E name \in DOMAIN ScopeOf, path \in Paths, mode \in {"ro", "rw"} :
          MountAt("p", name, path, mode)
    \/ \E n \in Both, name \in Caches, path \in Paths : MountAt(n, name, path, "rw")
    \/ Needs \/ Validate
    \/ \E wrote \in SUBSET DOMAIN ScopeOf : RunAttempt(wrote)

PlanCheckSpec == PlanCheckInit /\ [][PlanCheckNext]_planVars

-----------------------------------------------------------------------------
(* Properties.                                                             *)

\* A step that declares CheckGenerated and is accepted has a tree the check
\* compares, and fails when it leaves a snapshotted tree changed: no mount
\* list, scope, claim or repeated workspace makes the check vacuous
\* (validate.go:1034, checkgenerated.go:27).
DriftIsCaught ==
    Has(draft["p"], "checkGenerated") /\ verdict = "accepted" =>
        /\ \E m \in Snapshotted(draft["p"]) : m.mode = "rw"
        /\ (attempt.of = "p" /\ attempt.wrote \cap {m.name : m \in Snapshotted(draft["p"])} # {})
             => attempt.failed

\* A pure step's key is measured from a tree the step really has: a workspace
\* it mounts, or the working directory when it runs there.  workspaces.go:965
\* says the choice mirrors the rule validation accepts by.
InputsAreMeasured ==
    (Has(draft["p"], "pure") /\ verdict = "accepted" /\ WorkspaceMounts(draft["p"]) # {})
        => InputWorkspace(draft["p"]) # Unset

\* validate.go:908: one scratch cache mounted both on the coordinator's file
\* system and on another machine is refused "UNLESS the graph orders the two
\* so they cannot run at the same time".
ScratchIsHandedOver ==
    verdict = "accepted" =>
        \A c \in Caches :
            ((\A n \in Both : \E m \in Mounts(draft[n]) : m.name = c)
                /\ RemoteMounts(draft["p"]) # RemoteMounts(draft["q"])) => draft["q"].needs
=============================================================================
