------------------------------- MODULE Build -------------------------------
(***************************************************************************)
(* Pipeline building: the declarations of senro.go (workflows, steps,      *)
(* handlers, expansions) and Pipeline.Build, which lowers them to a plan,  *)
(* with the unit selection and the partition it calls (internal/unit).     *)
(*                                                                         *)
(* A step id is a pair: a plain step is <<id, "">>, the child of an        *)
(* expansion <<expansion, unit>> or <<expansion, shard>>.  workflows is    *)
(* the sequence of builders; plan is what Build returned.  What a workflow *)
(* resolves to is a family of steps: <<0, i>> is its i-th own step,        *)
(* <<x, label>> the child with that label of its x-th expansion.           *)
(***************************************************************************)
EXTENDS Integers, Sequences, FiniteSets, SequencesExt

CONSTANTS
    WorkflowNames, StepNames, ExpansionNames,   \* sequences of names
    Changes,        \* what a ChangeSource may report: [all, files]
    AllUnits,       \* the units of the repository, in the order of their ids
    Owner,          \* changed file -> ids Owns attributes it to ({}: nobody's)
    DependsOn,      \* unit -> the units it depends on
    DurationOf,     \* unit -> recorded duration (0: none)
    ShardNames,     \* the labels of shards 0, 1, ...
    Buckets,        \* bound: what Partition is asked for (0: no Partition)
    NeedChoices, HandlerChoices, EachChoices,   \* bound: what a declaration names
    MaxDeclared     \* bound: what is declared, a step weighing 2 and an expansion 3

VARIABLES workflows, plan

buildVars == <<workflows, plan>>

Unbuilt == [ok |-> FALSE, done |-> FALSE, nodes |-> {}]

BuildInit == workflows = <<>> /\ plan = Unbuilt

UnitIds == ToSet(AllUnits)

\* A unit has one place, a shard one label, neither of them empty; Partition is
\* not asked for more shards than have labels.
ASSUME BuildAssumption ==
    /\ AllUnits \in Seq(UnitIds) /\ \A i, j \in DOMAIN AllUnits : AllUnits[i] = AllUnits[j] => i = j
    /\ DurationOf \in [UnitIds -> Nat] /\ DependsOn \in [UnitIds -> SUBSET UnitIds]
    /\ ShardNames \in Seq(ToSet(ShardNames)) /\ Buckets \subseteq 0..Len(ShardNames)
    /\ \A i, j \in DOMAIN ShardNames : ShardNames[i] = ShardNames[j] => i = j
    /\ "" \notin UnitIds \cup ToSet(ShardNames)

-----------------------------------------------------------------------------
(* Declarations.                                                           *)

Count(field) == LET sizes == [i \in DOMAIN workflows |-> Len(workflows[i][field])]
                IN FoldLeft(LAMBDA a, b : a + b, 0, sizes)

Room(n) == 2 * Count("steps") + 3 * Count("expansions") + n <= MaxDeclared

Names == {workflows[w].name : w \in DOMAIN workflows}
WorkflowOf(name) == CHOOSE w \in DOMAIN workflows : workflows[w].name = name

\* The ids reachable from S along E, a set of pairs over ids.
Reached(ids, E, S) ==
    LET grow[k \in 0..Cardinality(ids)] ==
            IF k = 0 THEN S
            ELSE LET prev == grow[k - 1] IN prev \cup {e[2] : e \in {d \in E : d[1] \in prev}}
    IN grow[Cardinality(ids)]

Acyclic(ids, E) ==
    \A i \in ids : i \notin Reached(ids, E, {e[2] : e \in {d \in E : d[1] = i}})

checkWorkflowNeeds ==
    /\ \A w \in DOMAIN workflows : workflows[w].needs \subseteq Names \ {workflows[w].name}
    /\ Acyclic(Names, {e \in Names \X Names : e[2] \in workflows[WorkflowOf(e[1])].needs})

\* Bound: steps are declared in pipelines whose workflows Build accepts.
Worthwhile == Cardinality(Names) = Len(workflows) /\ checkWorkflowNeeds

\* A declared name is the next one, or, by mistake, the first one again.
NextName(names, used) == {names[1]} \cup {names[i] : i \in {used + 1} \cap DOMAIN names}

\* Pipeline.Workflow.
Workflow(name, needs) ==
    /\ ~plan.done /\ Len(workflows) < Len(WorkflowNames)
    /\ Count("steps") = 0 /\ Count("expansions") = 0
    /\ workflows' = Append(workflows, [name |-> name, needs |-> needs,
                                       steps |-> <<>>, expansions |-> <<>>])
    /\ UNCHANGED plan

\* WorkflowBuilder.Step and Add with StepBuilder.Needs, OnFailure and Always.
Step(w, id, needs, handlers) ==
    /\ ~plan.done /\ Worthwhile /\ Room(2) /\ Count("expansions") = 0
    /\ Count("steps") < Len(StepNames)
    /\ workflows' = [workflows EXCEPT ![w].steps = Append(@,
                        [id |-> <<id, "">>, needs |-> needs, handlers |-> handlers])]
    /\ UNCHANGED plan

\* WorkflowBuilder.Expand with Affected, Partition, Needs and NeedsEach.
Expand(w, id, change, buckets, needs, each) ==
    /\ ~plan.done /\ Worthwhile /\ Room(3)
    /\ workflows' = [workflows EXCEPT ![w].expansions = Append(@,
                        [id |-> id, change |-> change, buckets |-> buckets,
                         needs |-> needs, each |-> each])]
    /\ UNCHANGED plan

-----------------------------------------------------------------------------
(* Units.                                                                  *)

\* Affected: what owns a changed file and everything that depends on it;
\* every unit when a file is nobody's or is attributed to an unknown unit.
Affected(files) ==
    LET seed == UNION {Owner[f] : f \in files}
    IN IF (\E f \in files : Owner[f] = {}) \/ ~(seed \subseteq UnitIds)
       THEN UnitIds
       ELSE Reached(UnitIds, {e \in UnitIds \X UnitIds : e[1] \in DependsOn[e[2]]}, seed)

units(e) == IF e.change.all THEN UnitIds ELSE Affected(e.change.files)

\* Sorted by d, the larger or the smaller first, and by id where d is equal.
Place(u) == CHOOSE i \in DOMAIN AllUnits : AllUnits[i] = u
Heavier(d, u, v) == d[u] > d[v] \/ (d[u] = d[v] /\ Place(u) < Place(v))
Lighter(d, u, v) == d[u] < d[v] \/ (d[u] = d[v] /\ Place(u) < Place(v))

\* weigh: a unit without a record weighs the median of the known ones.
weigh(us) ==
    LET known == {u \in us : DurationOf[u] > 0}
        median == CHOOSE u \in known : Cardinality({v \in known : Lighter(DurationOf, v, u)})
                                          = Cardinality(known) \div 2
    IN [u \in us |-> IF DurationOf[u] > 0 THEN DurationOf[u]
                     ELSE IF known = {} THEN 1 ELSE DurationOf[median]]

Least(loads) == CHOOSE i \in DOMAIN loads :
                    /\ \A j \in DOMAIN loads : loads[i] <= loads[j]
                    /\ \A j \in 1..(i - 1) : loads[j] > loads[i]

\* One unit, the heaviest left, goes to the least loaded bucket.
Put(w, s) ==
    LET u == CHOOSE v \in s.left : \A x \in s.left \ {v} : Heavier(w, v, x)
        i == Least(s.loads)
    IN [left |-> s.left \ {u},
        buckets |-> [s.buckets EXCEPT ![i] = @ \cup {u}],
        loads |-> [s.loads EXCEPT ![i] = @ + w[u]]]

Partition(us, n) ==
    LET count == IF n < Cardinality(us) THEN n ELSE Cardinality(us)
        fill[k \in 0..Cardinality(us)] ==
            IF k = 0 THEN [left |-> us, buckets |-> [i \in 1..count |-> {}],
                           loads |-> [i \in 1..count |-> 0]]
            ELSE Put(weigh(us), fill[k - 1])
    IN fill[Cardinality(us)].buckets

-----------------------------------------------------------------------------
(* Build.                                                                  *)

\* ExpandBuilder.resolve: one child for each unit, or for each shard.
resolveRef(e) ==
    LET us == units(e)
        shards == Partition(us, e.buckets)
        child(label, group) == [id |-> <<e.id, label>>, needs |-> e.needs,
                                handlers |-> {}, units |-> group, each |-> e.each]
    IN IF e.buckets = 0
       THEN [u \in us |-> child(u, {u})]
       ELSE [l \in {ShardNames[i] : i \in DOMAIN shards} |->
               child(l, shards[CHOOSE i \in DOMAIN shards : ShardNames[i] = l])]

Plain(s) == [id |-> s.id, needs |-> s.needs, handlers |-> s.handlers,
             units |-> {}, each |-> {}]

\* The expansions of the pipeline: <<w, x>> is the x-th of workflow w.
Expansions == UNION {{w} \X DOMAIN workflows[w].expansions : w \in DOMAIN workflows}
Expansion(p) == workflows[p[1]].expansions[p[2]]

\* resolved[w]: a workflow's own steps and the children of its expansions.
\* children: per expansion, what it resolved to.
Resolved(w, children) ==
    [p \in ({0} \X DOMAIN workflows[w].steps)
              \cup UNION {{x} \X DOMAIN children[<<w, x>>] : x \in DOMAIN workflows[w].expansions} |->
        IF p[1] = 0 THEN Plain(workflows[w].steps[p[2]]) ELSE children[<<w, p[1]>>][p[2]]]

\* pairEach: the children for the same units, or all of them when some unit
\* of the child has no counterpart.
pairEach(child, upstream) ==
    LET owners == {k \in DOMAIN upstream : upstream[k].units \cap child.units # {}}
        paired == child.units \subseteq UNION {upstream[k].units : k \in DOMAIN upstream}
    IN {upstream[k].id : k \in IF paired THEN owners ELSE DOMAIN upstream}

Named(name) == CHOOSE p \in Expansions : Expansion(p).id = name

\* lowerNeedsEach, for one child.
WithEach(child, children) ==
    [child EXCEPT !.needs = @ \cup UNION {pairEach(child, children[Named(x)]) : x \in child.each}]

\* What lowerNeedsEach refuses: itself, an unknown expansion, a name twice.
EachRefused ==
    \E p \in Expansions : \E x \in Expansion(p).each :
        \/ x = Expansion(p).id
        \/ Cardinality({q \in Expansions : Expansion(q).id = x}) # 1

IdsOf(steps) == {steps[i].id : i \in DOMAIN steps}

checkWorkflowNames(all) ==
    /\ Cardinality(Names) = Len(workflows)
    /\ \A p, q \in DOMAIN all : all[p].id = all[q].id => p = q

entrySteps(steps) ==
    {steps[i].id : i \in {j \in DOMAIN steps : steps[j].needs \cap IdsOf(steps) = {}}}

exitSteps(steps) ==
    IdsOf(steps) \ UNION {steps[i].needs : i \in DOMAIN steps}

\* lowerWorkflowNeeds: entry steps gain the exit steps of the workflows needed.
\* lowered: per workflow, its steps after lowerNeedsEach.
lowerWorkflowNeeds(w, lowered) ==
    LET steps == lowered[w]
        exits == UNION {exitSteps(lowered[WorkflowOf(x)]) : x \in workflows[w].needs}
    IN {[id |-> steps[i].id, workflow |-> workflows[w].name, units |-> steps[i].units,
         each |-> steps[i].each,
         needs |-> IF steps[i].id \in entrySteps(steps)
                   THEN steps[i].needs \cup exits ELSE steps[i].needs] : i \in DOMAIN steps}

Edges(nodes) == UNION {{<<n.id, m>> : m \in n.needs} : n \in nodes}
Ids(nodes) == {n.id : n \in nodes}

\* Plan.Validate, of the graph: needs resolve and form no cycle; a group is
\* declared once.
Validated(nodes) ==
    /\ \A n \in nodes : n.needs \subseteq Ids(nodes)
    /\ Acyclic(Ids(nodes), Edges(nodes))
    /\ \A p, q \in Expansions : Expansion(p).id = Expansion(q).id => p = q

\* Handlers are nodes of their parent: their ids may not be a step's.
checkHandlerIDs(all) ==
    \A i \in DOMAIN all : {<<h, "">> : h \in all[i].handlers} \cap IdsOf(all) = {}

BuildRefused == [Unbuilt EXCEPT !.done = TRUE]

\* Each stage works on what the one before it made.
Build ==
    /\ ~plan.done /\ workflows # <<>>
    /\ \E children \in {[p \in Expansions |-> resolveRef(Expansion(p))]} :
       \E resolved \in {[w \in DOMAIN workflows |-> Resolved(w, children)]} :
       \E all \in {[p \in UNION {{w} \X DOMAIN resolved[w] : w \in DOMAIN workflows} |->
                      resolved[p[1]][p[2]]]} :
         IF EachRefused \/ ~checkWorkflowNames(all) \/ ~checkWorkflowNeeds \/ ~checkHandlerIDs(all)
         THEN plan' = BuildRefused
         ELSE \E lowered \in {[w \in DOMAIN workflows |->
                                [i \in DOMAIN resolved[w] |-> WithEach(resolved[w][i], children)]]} :
              \E nodes \in {UNION {lowerWorkflowNeeds(w, lowered) : w \in DOMAIN workflows}} :
                plan' = IF Validated(nodes)
                        THEN [ok |-> TRUE, done |-> TRUE, nodes |-> nodes] ELSE BuildRefused
    /\ UNCHANGED workflows

BuildNext ==
    \/ \E name \in NextName(WorkflowNames, Len(workflows)),
          needs \in SUBSET ToSet(WorkflowNames) : Workflow(name, needs)
    \/ \E w \in DOMAIN workflows, id \in NextName(StepNames, Count("steps")),
          needs \in NeedChoices, handlers \in HandlerChoices :
          /\ handlers # {} => needs = {}
          /\ Step(w, id, needs, handlers)
    \/ \E w \in DOMAIN workflows, id \in NextName(ExpansionNames, Count("expansions")),
          change \in Changes, buckets \in Buckets, each \in EachChoices :
          Expand(w, id, change, buckets,
                 IF Count("steps") = 0 THEN {} ELSE {<<StepNames[1], "">>}, each)
    \/ Build

BuildSpec == BuildInit /\ [][BuildNext]_buildVars

-----------------------------------------------------------------------------
(* Properties.                                                             *)

AncestorsOf(id) == Reached(Ids(plan.nodes), Edges(plan.nodes),
                           {e[2] : e \in {d \in Edges(plan.nodes) : d[1] = id}})

\* A workflow that needs another starts none of its steps, expanded ones
\* included, before every step of the other: the edges from entry to exit
\* steps alone give the barrier (senro.go:1258).
BarrierHolds ==
    plan.ok =>
        \A n \in plan.nodes : \A x \in workflows[WorkflowOf(n.workflow)].needs :
            {m.id : m \in {k \in plan.nodes : k.workflow = x}} \subseteq AncestorsOf(n.id)

ChildrenOf(x) == {m \in plan.nodes : m.id[1] = x /\ m.id[2] # ""}

\* A child of an expansion that needs each of another waits, for every unit it
\* covers, for whatever covers that unit there, and for all of it when nothing
\* does; every selected unit is covered exactly once, and no unit that a
\* changed file can reach is left out (senro.go:960, unit/affected.go:74,
\* unit/partition.go:47).
EveryUnitOrdered ==
    plan.ok =>
        /\ \A n \in plan.nodes : \A x \in n.each : \A u \in n.units :
             LET there == ChildrenOf(x)
                 cover == {m \in there : u \in m.units}
             IN {m.id : m \in IF cover = {} THEN there ELSE cover} \subseteq n.needs
        /\ \A p \in Expansions :
             LET mine == ChildrenOf(Expansion(p).id)
                 change == Expansion(p).change
             IN /\ \A n, m \in mine : n # m => n.units \cap m.units = {}
                /\ \A n \in mine : n.units # {}
                /\ \A u \in UnitIds : (\A n \in mine : u \notin n.units) =>
                     /\ ~change.all
                     /\ \A f \in change.files : Owner[f] # {} /\ u \notin Owner[f]
                     /\ \A n \in mine : DependsOn[u] \cap n.units = {}
=============================================================================
