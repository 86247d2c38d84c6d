------------------------------- MODULE Verify -------------------------------
(***************************************************************************)
(* `senro verify --recheck-pure` (internal/verify): the cached Pure steps  *)
(* of a run are executed again, each alone in front of the workspaces its  *)
(* own key records, and compared with the entry the run was served or      *)
(* saved.  The runs that left the entries are here too, because what an    *)
(* entry recorded of a shared workspace depends on who wrote beside it.    *)
(*                                                                         *)
(* A workspace's content is the set of what steps wrote into it.  A step   *)
(* does what its node says: its product follows from its declared reads    *)
(* ("pure"), from something outside its key as well ("hidden"), or from    *)
(* nothing at all ("random").                                              *)
(***************************************************************************)
EXTENDS Naturals, Sequences, FiniteSets, SequencesExt

CONSTANTS
  VerifyPlans,   \* plans of the pipeline, as it was and as it is
  MaxLaunches,   \* bound on runs
  MaxSweepsSeen  \* bound on what sweeps of the store take away

VARIABLES
  vplan,     \* the plan of the run: a sequence of nodes
  launches,
  vstep,     \* a step of the run: "wait", "keyed", "mounted", "wrote", "captured", "done"
  content,   \* what the run's workspaces hold
  recorded,  \* the last digest the run has of each
  made,      \* what each made of it, and what its snapshot took
  vkey,      \* the workspaces each step's key records; the run's cache records
  acEntries,   \* the action cache
  bodies,    \* the workspace bodies the store holds
  world,     \* what no key covers
  sweepsLeft,
  wanted,      \* Options.Execute and Options.Classify
  todo,      \* records still to check
  first,     \* the first round of the step being checked
  report

runVars    == <<vplan, launches, vstep, content, recorded, made, vkey>>
storeVars  == <<acEntries, bodies, world, sweepsLeft>>
passVars   == <<wanted, todo, first, report>>
verifyVars == <<runVars, storeVars, passVars>>

Unread == <<>>
StepIds(p) == {p[i].id : i \in 1..Len(p)}
NodeOf(p, s) == CHOOSE n \in {p[i] : i \in 1..Len(p)} : n.id = s
Mounted(n) == DOMAIN n.mounts
AllSpaces == UNION {Mounted(n) : n \in UNION {{p[i] : i \in 1..Len(p)} : p \in VerifyPlans}}

Fresh(p) ==
  /\ vplan' = p /\ vstep' = [s \in StepIds(p) |-> "wait"] /\ vkey' = [s \in StepIds(p) |-> Unread]
  /\ made' = [s \in StepIds(p) |-> Unread]
  /\ content' = [w \in AllSpaces |-> {}] /\ recorded' = [w \in AllSpaces |-> {}]

VerifyInit ==
  /\ vplan \in VerifyPlans /\ launches = 1
  /\ vstep = [s \in StepIds(vplan) |-> "wait"] /\ vkey = [s \in StepIds(vplan) |-> Unread]
  /\ made = [s \in StepIds(vplan) |-> Unread]
  /\ content = [w \in AllSpaces |-> {}] /\ recorded = [w \in AllSpaces |-> {}]
  /\ acEntries = <<>> /\ bodies = {} /\ world = 0 /\ sweepsLeft = MaxSweepsSeen
  /\ wanted = {} /\ todo = <<>> /\ first = Unread /\ report = <<>>

\* What an execution of n leaves of the workspaces it was given: the product,
\* what they hold then and the exit code.
Extras(n) == CASE n.does = "pure" -> {0} [] n.does = "hidden" -> {world} [] OTHER -> {0, 1}
Product(n, given, extra) ==
  <<{t \in UNION {given[w] : w \in Mounted(n)} : t[1] \in n.reads}, extra>>
AfterStep(n, given, product) ==
  [w \in Mounted(n) |-> IF n.mounts[w] = "rw"
                        THEN {t \in given[w] : t[1] # n.id} \cup {<<n.id, product>>} ELSE given[w]]
\* What is observed of it: the declared outputs, found by name, in the
\* workspaces, what a snapshot takes, and the exit code.
Outputs(n, spaces) == IF n.outputs THEN {t \in UNION {spaces[w] : w \in Mounted(n)} : t[1] = n.id} ELSE {}
SnapshotOf(n, spaces) == IF n.noSnapshot THEN <<>> ELSE [w \in Mounted(n) |-> spaces[w]]
Observation(n, outputs, taken, product) ==
  [outputs |-> outputs, workspaces |-> taken, exit |-> IF n.does = "random" THEN product[2] ELSE 0]

-----------------------------------------------------------------------------
(* A run, as far as its cache entries show it.                             *)

running == wanted = {} /\ report = <<>>

\* cacheLookup: the key holds the digests the run has last recorded.
lookupStep(s) ==
  /\ running /\ vstep[s] = "wait" /\ \A u \in NodeOf(vplan, s).needs : vstep[u] = "done"
  /\ vkey' = [vkey EXCEPT ![s] = [w \in Mounted(NodeOf(vplan, s)) |-> recorded[w]]]
  /\ vstep' = [vstep EXCEPT ![s] = "keyed"]
  /\ UNCHANGED <<vplan, launches, content, recorded, made, storeVars, passVars>>

\* The step, its command and the workspaces it begins from.
KeyOf(s) == <<s, NodeOf(vplan, s).does, NodeOf(vplan, s).reads, vkey[s]>>
Held(w) == {s \in StepIds(vplan) : vstep[s] \in {"mounted", "wrote"} /\ w \in Mounted(NodeOf(vplan, s))}

\* serveFromCache: under lockRestore the entry's workspaces replace what the
\* run's hold, and the declared outputs are put back over them. lockMounts is
\* held by who executes.
serveHit(s) ==
  LET n == NodeOf(vplan, s)  entry == acEntries[KeyOf(s)].saw  ws == entry.workspaces
      placed(c) == IF entry.outputs = {} THEN c ELSE {t \in c : t[1] # s} \cup entry.outputs IN
  /\ running /\ vstep[s] = "keyed" /\ KeyOf(s) \in DOMAIN acEntries
  /\ \A w \in Mounted(n) : Held(w) = {}
  /\ content' = [w \in AllSpaces |-> IF w \notin Mounted(n) THEN content[w]
                                     ELSE placed(IF w \in DOMAIN ws THEN ws[w] ELSE content[w])]
  /\ recorded' = [w \in AllSpaces |-> IF w \in DOMAIN ws THEN ws[w] ELSE recorded[w]]
  /\ vstep' = [vstep EXCEPT ![s] = "done"]
  /\ UNCHANGED <<vplan, launches, made, vkey, storeVars, passVars>>

mountStep(s) ==
  /\ running /\ vstep[s] = "keyed" /\ KeyOf(s) \notin DOMAIN acEntries
  /\ vstep' = [vstep EXCEPT ![s] = "mounted"]
  /\ UNCHANGED <<vplan, launches, content, recorded, made, vkey, storeVars, passVars>>

\* The command writes into what is there, a sibling's files among it.
writeStep(s, extra) ==
  LET n == NodeOf(vplan, s)  product == Product(n, content, extra)  ws == AfterStep(n, content, product) IN
  /\ running /\ vstep[s] = "mounted" /\ extra \in Extras(n)
  /\ content' = [w \in AllSpaces |-> IF w \in Mounted(n) THEN ws[w] ELSE content[w]]
  /\ vstep' = [vstep EXCEPT ![s] = "wrote"] /\ made' = [made EXCEPT ![s] = <<product, Unread>>]
  /\ UNCHANGED <<vplan, launches, recorded, vkey, storeVars, passVars>>

\* snapshotMounts, at the end of the attempt and of its hold.
snapshotMounts(s) ==
  LET taken == SnapshotOf(NodeOf(vplan, s), content) IN
  /\ running /\ vstep[s] = "wrote"
  /\ recorded' = [w \in AllSpaces |-> IF w \in DOMAIN taken THEN content[w] ELSE recorded[w]]
  /\ bodies' = bodies \cup {taken[w] : w \in DOMAIN taken}
  /\ made' = [made EXCEPT ![s][2] = taken] /\ vstep' = [vstep EXCEPT ![s] = "captured"]
  /\ UNCHANGED <<vplan, launches, content, vkey, acEntries, world, sweepsLeft, passVars>>

\* cacheSave, under a hold of its own: the snapshot that was taken and the
\* outputs that are there now, under the key of before; a failure is not saved,
\* nor a step whose outputs are gone.
saveStep(s) ==
  LET n == NodeOf(vplan, s)  product == made[s][1]
      saw == Observation(n, Outputs(n, content), made[s][2], product) IN
  /\ running /\ vstep[s] = "captured"
  /\ acEntries' = IF saw.exit # 0 \/ (n.outputs /\ saw.outputs = {}) THEN acEntries
                ELSE [k \in DOMAIN acEntries \cup {KeyOf(s)} |->
                        IF k = KeyOf(s) THEN [saw |-> saw, of |-> vplan, product |-> product] ELSE acEntries[k]]
  /\ vstep' = [vstep EXCEPT ![s] = "done"]
  /\ UNCHANGED <<vplan, launches, content, recorded, made, vkey, bodies, world, sweepsLeft, passVars>>

\* The pipeline is run again, edited or not, in workspaces of its own.
Relaunch(p) ==
  /\ running /\ launches < MaxLaunches /\ \A s \in StepIds(vplan) : vstep[s] = "done"
  /\ launches' = launches + 1 /\ Fresh(p)
  /\ UNCHANGED <<storeVars, passVars>>

-----------------------------------------------------------------------------
(* What goes on beside the pass, and matters to it only then.              *)

\* The record at the head of what is to be checked.
EntryKey == KeyOf(Head(todo).id)

\* A sweep collects the entry that is being checked, or a body it began from.
Sweep ==
  /\ todo # <<>> /\ sweepsLeft > 0 /\ sweepsLeft' = sweepsLeft - 1
  /\ \/ /\ EntryKey \in DOMAIN acEntries /\ UNCHANGED bodies
        /\ acEntries' = [k \in DOMAIN acEntries \ {EntryKey} |-> acEntries[k]]
     \/ \E b \in bodies \cap Range(vkey[Head(todo).id]) : bodies' = bodies \ {b} /\ UNCHANGED acEntries
  /\ UNCHANGED <<runVars, world, passVars>>

WorldMoves == todo # <<>> /\ world = 0 /\ world' = 1 /\ UNCHANGED <<runVars, acEntries, bodies, sweepsLeft, passVars>>

-----------------------------------------------------------------------------
(* The pass.                                                               *)

\* selectRecords: plan order, not the records' own, cut to the limit.
selectRecords(only, limit) ==
  LET has(n) == vkey[n.id] # Unread /\ (only = {} \/ n.id \in only)
      eligible == SelectSeq(vplan, has)
  IN IF limit > 0 /\ Len(eligible) > limit THEN SubSeq(eligible, 1, limit) ELSE eligible

check(options, only, limit) ==
  /\ running /\ \A s \in StepIds(vplan) : vstep[s] \in {"wait", "done"}
  /\ selectRecords(only, limit) # <<>>
  /\ wanted' = options /\ todo' = selectRecords(only, limit)
  /\ UNCHANGED <<runVars, storeVars, first, report>>

\* What the plan orders: a depends on b.
newReachability(p) ==
  LET direct == {e \in StepIds(p) \X StepIds(p) : e[2] \in NodeOf(p, e[1]).needs}
      relax(reach, n) == reach \cup {e \in StepIds(p) \X StepIds(p) :
                                       \E via \in StepIds(p) : <<e[1], via>> \in reach /\ <<via, e[2]>> \in reach}
  IN FoldLeft(relax, direct, p)

\* Mutant: a sibling that starts after this step is the only one that counts.
AnyLaterWriter(p, n, w) ==
  \E o \in StepIds(p) \ {n.id} :
    /\ w \in Mounted(NodeOf(p, o)) /\ NodeOf(p, o).mounts[w] = "rw"
    /\ <<o, n.id>> \in newReachability(p)

concurrentWriter(p, n, w) ==
  \E o \in StepIds(p) \ {n.id} :
    /\ w \in Mounted(NodeOf(p, o)) /\ NodeOf(p, o).mounts[w] = "rw"
    /\ <<n.id, o>> \notin newReachability(p) /\ <<o, n.id>> \notin newReachability(p)

\* compareToEntry: outputs, the workspaces that are this step's alone, and the
\* exit code.
compareToEntry(n, cached, again) ==
  LET alone == {w \in Mounted(n) : ~n.noSnapshot /\ ~concurrentWriter(vplan, n, w)} IN
  (IF cached.outputs # again.outputs THEN {<<"output", "">>} ELSE {})
  \cup {<<"workspace", w>> : w \in {v \in alone : cached.workspaces[v] # again.workspaces[v]}}
  \cup (IF cached.exit # again.exit THEN {<<"exit_code", "">>} ELSE {})

\* classify: the two rounds disagree about something that differed.
Disagree(d, a, b) ==
  CASE d[1] = "output" -> a.outputs # b.outputs
    [] d[1] = "workspace" -> a.workspaces[d[2]] # b.workspaces[d[2]]
    [] OTHER -> a.exit # b.exit
classify(diffs, a, b) == IF \E d \in diffs : Disagree(d, a, b) THEN "nondeterministic" ELSE "mismatch"

Concludes(verdict, diffs, found) ==
  /\ report' = Append(report, [step |-> Head(todo).id, verdict |-> verdict, diffs |-> diffs, of |-> found])
  /\ todo' = Tail(todo) /\ first' = Unread

missingBodies(pre) == \E w \in DOMAIN pre : pre[w] # {} /\ pre[w] \notin bodies

\* checkOne, before anything is executed: what cannot be checked, and what
\* nobody asked to execute.
checkOne ==
  LET n == Head(todo)  pre == vkey[n.id] IN
  /\ todo # <<>> /\ first = Unread
  /\ IF n.refused \/ EntryKey \notin DOMAIN acEntries \/ DOMAIN pre = {} \/ missingBodies(pre)
     THEN Concludes("skipped", {}, Unread)
     ELSE IF "execute" \notin wanted THEN Concludes("planned", {}, Unread)
     ELSE first' = [round |-> 1, entry |-> acEntries[EntryKey], saw |-> Unread, product |-> Unread, diffs |-> {}]
          /\ UNCHANGED <<report, todo>>
  /\ UNCHANGED <<runVars, storeVars, wanted>>

\* rerun: the bodies are restored into directories of its own and the command
\* is run on them; a body collected since, or a sandbox that fails, is an error.
rerun(n, extra) ==
  LET pre == vkey[n.id]  product == Product(n, pre, extra)  left == AfterStep(n, pre, product)
  IN Observation(n, Outputs(n, left), SnapshotOf(n, left), product)

firstRound(extra) ==
  LET n == Head(todo)  saw == rerun(n, extra)  diffs == compareToEntry(n, first.entry.saw, saw) IN
  /\ first # Unread /\ first.round = 1 /\ extra \in Extras(n) /\ ~missingBodies(vkey[n.id])
  /\ IF diffs = {} THEN Concludes("verified", {}, [first EXCEPT !.product = Product(n, vkey[n.id], extra)])
     ELSE IF "classify" \notin wanted THEN Concludes("mismatch", diffs, first)
     ELSE first' = [first EXCEPT !.round = 2, !.saw = saw, !.diffs = diffs] /\ UNCHANGED <<report, todo>>
  /\ UNCHANGED <<runVars, storeVars, wanted>>

secondRound(extra) ==
  LET n == Head(todo) IN
  /\ first # Unread /\ first.round = 2 /\ extra \in Extras(n) /\ ~missingBodies(vkey[n.id])
  /\ Concludes(classify(first.diffs, first.saw, rerun(n, extra)), first.diffs, first)
  /\ UNCHANGED <<runVars, storeVars, wanted>>

\* The first round's error is the step's; the second's leaves the difference
\* unclassified.
roundFails ==
  /\ first # Unread
  /\ IF first.round = 1 THEN Concludes("error", {}, Unread) ELSE Concludes("mismatch", first.diffs, first)
  /\ UNCHANGED <<runVars, storeVars, wanted>>

-----------------------------------------------------------------------------
VerifyNext ==
  \/ \E s \in StepIds(vplan) : lookupStep(s) \/ serveHit(s) \/ mountStep(s) \/ snapshotMounts(s) \/ saveStep(s)
  \/ \E s \in StepIds(vplan), extra \in {0, 1} : writeStep(s, extra)
  \/ \E p \in VerifyPlans : Relaunch(p)
  \/ Sweep \/ WorldMoves
  \/ check({"plan"}, {}, 0) \/ check({"execute"}, {}, 0) \/ check({"execute", "classify"}, {}, 2)
  \/ checkOne \/ roundFails
  \/ \E extra \in {0, 1} : firstRound(extra) \/ secondRound(extra)

-----------------------------------------------------------------------------
Finding(r) == r.verdict \in {"mismatch", "nondeterministic"}
\* Every writer of n's workspaces has them snapshotted after it.
AllSnapshotted(n) == \A o \in StepIds(vplan) : LET m == NodeOf(vplan, o) IN
  m.noSnapshot => \A w \in Mounted(m) \cap Mounted(n) : m.mounts[w] = "ro"

\* verify.go:10: "A mismatch means the step depended on something outside its
\* key".
MismatchMeansImpure ==
  \A i \in 1..Len(report) : report[i].verdict = "mismatch" => NodeOf(vplan, report[i].step).does # "pure"

(* What the pass says of a step of the verified plan's own run is about    *)
(* the step: a step that is what it claims never differs in a workspace,   *)
(* whoever wrote beside it and whatever a hit put there, and is no finding *)
(* at all when the plan orders it with every writer; and a step that made  *)
(* something else this time is verified only when nothing of its product   *)
(* could be compared (verify.go:600, verify.go:651).  The one exception is *)
(* a workspace some step leaves unsnapshotted: no key can record it.       *)
VerdictsAreAboutTheStep ==
  \A i \in 1..Len(report) :
    LET r == report[i]  n == NodeOf(vplan, r.step) IN
    /\ (Finding(r) /\ n.does = "pure" /\ r.of.entry.of = vplan /\ AllSnapshotted(n)) =>
         /\ \A d \in r.diffs : d[1] # "workspace"
         /\ \E w \in Mounted(n) : concurrentWriter(vplan, n, w)
    /\ (r.verdict = "verified" /\ r.of.product # r.of.entry.product) =>
         ~n.outputs /\ (n.noSnapshot \/ \A w \in Mounted(n) : n.mounts[w] = "rw" => concurrentWriter(vplan, n, w))
=============================================================================
