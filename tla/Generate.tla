------------------------------ MODULE Generate ------------------------------
(***************************************************************************)
(* Generators: steps whose output is a piece of graph that is spliced into *)
(* the run that is already executing (internal/engine/generate.go,         *)
(* internal/plan/fragment.go, and what attempt.go, cache.go and control.go *)
(* do around them).                                                        *)
(*                                                                         *)
(* A step id is a sequence of names: the children of generator g are       *)
(* Append(g, local id), the prefix of the code.  live and byID are the two *)
(* maps of runCore, genParent and genDepth its other two; go[n] is the     *)
(* goroutine of a dispatched step: where it is, how the step will settle,  *)
(* the fragment it carries; stored[n] is the fragment of n's cache entry.  *)
(* boundaryOf[g] is history: the boundary of what g's latest execution     *)
(* spliced.                                                                *)
(***************************************************************************)
EXTENDS Integers, Sequences, FiniteSets

CONSTANTS
    BasePlan,       \* the declared steps: id -> [needs, gen]
    Fragments,      \* what a generator may produce
    PureSteps,      \* steps with a cache entry to look up
    MaxDepth,       \* Options.MaxDepth
    MaxNodes,       \* Options.MaxNodes
    MaxRuns,        \* bound: executions of steps
    GenOps          \* bound: control requests

VARIABLES live, byID, genParent, genDepth, stepState, go, stored,
          boundaryOf, runsLeft, genOps

generateVars == <<live, byID, genParent, genDepth, stepState, go, stored,
                  boundaryOf, runsLeft, genOps>>

NoFragment == [nodes |-> <<>>, boundary |-> {}]

\* A function with one pair added, replaced or taken away.
With(f, k, v) == [i \in DOMAIN f \cup {k} |-> IF i = k THEN v ELSE f[i]]
Without(f, K) == [i \in DOMAIN f \ K |-> f[i]]

-----------------------------------------------------------------------------
(* Fragments.                                                              *)

\* The ids reachable along edges E from S; closed after |ids| rounds.
Reach(ids, E, S) ==
    LET grow[k \in 0..Cardinality(ids)] ==
            IF k = 0 THEN S
            ELSE LET prev == grow[k - 1]
                 IN prev \cup {j \in ids : \E i \in prev : <<i, j>> \in E}
    IN grow[Cardinality(ids)]

Cyclic(ids, E) ==
    \E i \in ids : i \in Reach(ids, E, {j \in ids : <<i, j>> \in E})

LocalIds(f) == {f.nodes[k].id : k \in 1..Len(f.nodes)}

fragmentAcyclic(f) ==
    ~Cyclic(LocalIds(f),
            {e \in LocalIds(f) \X LocalIds(f) : \E k \in 1..Len(f.nodes) :
                 f.nodes[k].id = e[1] /\ e[2] \in f.nodes[k].needs})

\* What prefixFragment refuses before it looks at the run's own graph.
WellFormed(f) ==
    /\ Cardinality(LocalIds(f)) = Len(f.nodes)
    /\ \A k \in 1..Len(f.nodes) : f.nodes[k].needs \subseteq LocalIds(f)
    /\ f.boundary \subseteq LocalIds(f)
    /\ fragmentAcyclic(f)

\* SpliceFragment succeeds: no prefixed id is in use outside g's own nodes.
Spliceable(f, g, existing) ==
    /\ WellFormed(f)
    /\ \A i \in LocalIds(f) : Append(g, i) \notin existing

\* The nodes as they join the graph: ids and needs prefixed, a node without
\* needs anchored to the generator.
PrefixedNodes(f, g) ==
    [i \in {Append(g, l) : l \in LocalIds(f)} |->
        LET k == CHOOSE j \in 1..Len(f.nodes) : Append(g, f.nodes[j].id) = i
        IN [needs |-> IF f.nodes[k].needs = {} THEN {g}
                      ELSE {Append(g, l) : l \in f.nodes[k].needs},
            gen |-> f.nodes[k].gen]]

Boundary(f, g) == {Append(g, l) : l \in f.boundary}

\* What an id is made of.
IdNames == STRING

\* What Validate has established of the declared plan, and the shapes of ids
\* and fragments.
ASSUME GenerateAssumption ==
    /\ MaxDepth \in Nat /\ MaxNodes \in Nat
    /\ IsFiniteSet(DOMAIN BasePlan) /\ DOMAIN BasePlan \subseteq Seq(IdNames)
    /\ \A i \in DOMAIN BasePlan : BasePlan[i] \in [needs : SUBSET DOMAIN BasePlan, gen : BOOLEAN]
    /\ ~Cyclic(DOMAIN BasePlan, {e \in (DOMAIN BasePlan) \X (DOMAIN BasePlan) : e[2] \in BasePlan[e[1]].needs})
    /\ \A f \in Fragments :
         /\ f.nodes \in Seq([id : IdNames, needs : SUBSET IdNames, gen : BOOLEAN])
         /\ f.boundary \in SUBSET IdNames

\* stored: an earlier run's entries, whose plan may have declared less.
GenerateInit ==
    /\ live = BasePlan
    /\ byID = BasePlan
    /\ genParent = << >>
    /\ genDepth = << >>
    /\ stepState = << >>
    /\ go = << >>
    /\ stored \in {<< >>} \cup [PureSteps -> {f \in Fragments : WellFormed(f)}]
    /\ boundaryOf = << >>
    /\ runsLeft = MaxRuns
    /\ genOps = GenOps

-----------------------------------------------------------------------------
(* Splicing, under outcomes.mu.                                            *)

OwnNodes(g) == {i \in DOMAIN genParent : genParent[i] = g}

DepthOf(g) == IF g \in DOMAIN genDepth THEN genDepth[g] ELSE 0

withinLimits(f, g) ==
    /\ DepthOf(g) + 1 <= MaxDepth
    /\ Cardinality(DOMAIN live)
         + Cardinality(DOMAIN PrefixedNodes(f, g) \ DOMAIN byID) <= MaxNodes

\* Every node that needs the generator gains the boundary.
attachBoundary(graph, g, b) ==
    [i \in DOMAIN graph |->
        IF g \in graph[i].needs THEN [graph[i] EXCEPT !.needs = @ \cup b] ELSE graph[i]]

\* Mutant: a node that is spliced again is replaced in the index only.
StaleLive(graph, new) ==
    [i \in DOMAIN graph \cup DOMAIN new |-> IF i \in DOMAIN graph THEN graph[i] ELSE new[i]]

Added(graph, new) ==
    [i \in DOMAIN graph \cup DOMAIN new |-> IF i \in DOMAIN new THEN new[i] ELSE graph[i]]

addLocked(g, f) ==
    LET new == PrefixedNodes(f, g)
    IN /\ live' = Added(attachBoundary(live, g, Boundary(f, g)), new)
       /\ byID' = Added(attachBoundary(byID, g, Boundary(f, g)), new)
       /\ genDepth' = [i \in DOMAIN genDepth \cup DOMAIN new |->
                         IF i \in DOMAIN new THEN DepthOf(g) + 1 ELSE genDepth[i]]
       /\ genParent' = [i \in DOMAIN genParent \cup DOMAIN new |->
                          IF i \in DOMAIN new THEN g ELSE genParent[i]]
       /\ boundaryOf' = With(boundaryOf, g, Boundary(f, g))

SpliceRefused(g, f) ==
    \/ ~Spliceable(f, g, DOMAIN byID \ OwnNodes(g))
    \/ ~withinLimits(f, g)

graphVars == <<live, byID, genParent, genDepth, boundaryOf>>

-----------------------------------------------------------------------------
(* The run around it.                                                      *)

PassedState(st) == st \in {"succeeded", "recovered", "cached"}
Going == DOMAIN go
SettledLive == DOMAIN stepState
Pending(n) == n \in DOMAIN live /\ n \notin SettledLive /\ n \notin Going
At(n, at) == n \in Going /\ go[n].at = at
Moves(n, at, end, frag) == go' = With(go, n, [at |-> at, end |-> end, frag |-> frag])

\* readySet: a pending step runs, or is skipped, once its needs have settled.
DispatchLive(n) ==
    /\ Pending(n) /\ runsLeft > 0
    /\ \A m \in live[n].needs : m \in SettledLive /\ PassedState(stepState[m])
    /\ Moves(n, IF n \in PureSteps \cap DOMAIN stored THEN "lookup" ELSE "run",
             "none", NoFragment)
    /\ runsLeft' = runsLeft - 1
    /\ boundaryOf' = Without(boundaryOf, {n})
    /\ UNCHANGED <<live, byID, genParent, genDepth, stepState, stored, genOps>>

SkipBlocked(n) ==
    /\ Pending(n)
    /\ \E m \in live[n].needs : m \in SettledLive /\ ~PassedState(stepState[m])
    /\ stepState' = With(stepState, n, "skipped")
    /\ UNCHANGED <<graphVars, go, stored, runsLeft, genOps>>

\* cacheRestore of a generator: the recorded fragment is spliced, or the hit
\* is degraded to a miss and the step runs.
SpliceRecorded(n) ==
    /\ At(n, "lookup")
    /\ IF live[n].gen /\ SpliceRefused(n, stored[n])
       THEN Moves(n, "run", "none", NoFragment) /\ UNCHANGED graphVars
       ELSE /\ Moves(n, "settle", "cached", NoFragment)
            /\ IF live[n].gen THEN addLocked(n, stored[n]) ELSE UNCHANGED graphVars
    /\ UNCHANGED <<stepState, stored, runsLeft, genOps>>

\* The attempts end: a step that failed before it passed is recovered.
RunGenerator(n, outcome) ==
    /\ At(n, "run")
    /\ outcome = "recovered" => live[n].gen     \* told apart for generators only
    /\ Moves(n, IF outcome = "succeeded" /\ live[n].gen THEN "produce" ELSE "settle",
             outcome, NoFragment)
    /\ UNCHANGED <<graphVars, stepState, stored, runsLeft, genOps>>

\* fragmentFor and recordFragment, before the lock is taken.
Produce(n) ==
    /\ At(n, "produce")
    /\ \/ \E f \in Fragments : Moves(n, "splice", "succeeded", f)
       \/ Moves(n, "settle", "failed", NoFragment)
    /\ UNCHANGED <<graphVars, stepState, stored, runsLeft, genOps>>

\* The fragment joins the graph, or the step fails; then the entry is saved.
Splice(n) ==
    /\ At(n, "splice")
    /\ LET f == go[n].frag
       IN IF SpliceRefused(n, f)
          THEN /\ Moves(n, "settle", "failed", NoFragment)
               /\ UNCHANGED <<graphVars, stored>>
          ELSE /\ addLocked(n, f)
               /\ Moves(n, "settle", "succeeded", NoFragment)
               /\ stored' = IF n \in PureSteps THEN With(stored, n, f) ELSE stored
    /\ UNCHANGED <<stepState, runsLeft, genOps>>

\* The state is written when runStep has returned.
SettleLive(n) ==
    /\ At(n, "settle")
    /\ stepState' = With(stepState, n, go[n].end)
    /\ go' = Without(go, {n})
    /\ UNCHANGED <<graphVars, stored, runsLeft, genOps>>

-----------------------------------------------------------------------------
(* Control requests.                                                       *)

dependentsClosure(n) ==
    Reach(DOMAIN live,
          {e \in (DOMAIN live) \X (DOMAIN live) : e[1] \in live[e[2]].needs}, {n})

RerunFromLive(n) ==
    /\ genOps > 0 /\ n \in SettledLive
    /\ dependentsClosure(n) \cap Going = {}
    /\ stepState' = Without(stepState, dependentsClosure(n))
    /\ genOps' = genOps - 1
    /\ UNCHANGED <<graphVars, go, stored, runsLeft>>

\* step.retry: one bare attempt, whose success settles recovered.
RetryLive(n) ==
    /\ genOps > 0 /\ n \in SettledLive /\ stepState[n] = "failed"
    /\ stepState' = Without(stepState, {n})
    /\ \E outcome \in {"recovered", "failed"} : Moves(n, "settle", outcome, NoFragment)
    /\ genOps' = genOps - 1
    /\ UNCHANGED <<graphVars, stored, runsLeft>>

GenerateNext ==
    \E n \in DOMAIN live :
        \/ DispatchLive(n) \/ SkipBlocked(n) \/ SpliceRecorded(n)
        \/ \E outcome \in {"succeeded", "recovered", "failed"} : RunGenerator(n, outcome)
        \/ Produce(n) \/ Splice(n) \/ SettleLive(n)
        \/ RerunFromLive(n) \/ RetryLive(n)

GenerateSpec == GenerateInit /\ [][GenerateNext]_generateVars

-----------------------------------------------------------------------------
(* Properties.                                                             *)

\* Whatever is spliced, spliced again or refused while the run goes on, the
\* graph stays one the loop can finish: byID and live hold the same nodes,
\* every need resolves, nothing needs itself, no splice goes over the limits, and a
\* declared step is never replaced (generate.go:83, attachBoundaryLocked).
LiveGraphSound ==
    /\ byID = live
    /\ \A i \in DOMAIN live : live[i].needs \subseteq DOMAIN live
    /\ ~Cyclic(DOMAIN live, {e \in (DOMAIN live) \X (DOMAIN live) : e[2] \in live[e[1]].needs})
    /\ DOMAIN live = DOMAIN BasePlan \/ Cardinality(DOMAIN live) <= MaxNodes
    /\ \A i \in DOMAIN genDepth : genDepth[i] <= MaxDepth
    /\ \A i \in DOMAIN BasePlan : i \in DOMAIN live /\ BasePlan[i].gen = live[i].gen
    /\ DOMAIN BasePlan \cap DOMAIN genParent = {}

\* A step that needs a generator does not run before the boundary of what this
\* execution of the generator spliced has passed: the boundary is attached before the
\* generator settles (generate.go:46, attempt.go:263).
BoundaryIsWaitedFor ==
    \A n \in Going : \A g \in live[n].needs \cap DOMAIN boundaryOf :
        n \notin OwnNodes(g)
            => \A b \in boundaryOf[g] : b \in SettledLive /\ PassedState(stepState[b])

\* A generator that passed has contributed its fragment.  docs/superpowers/
\* specs/2026-08-19-generated-subgraphs-design.md:318 says of step.retry on a
\* failed generator that "a successful attempt splices for the first time".
GeneratedWorkRuns ==
    \A n \in SettledLive : live[n].gen /\ PassedState(stepState[n]) => n \in DOMAIN boundaryOf
=============================================================================
