------------------------------ MODULE StepCache ------------------------------
(***************************************************************************)
(* The step cache of one machine: the content store (internal/cas), the    *)
(* action cache and its collector (internal/cache), the scratch cache      *)
(* (internal/scratch), and the runs that look a pure step up, serve it,    *)
(* save it and pin what a failed run leaves (internal/engine/cache.go).    *)
(*                                                                         *)
(* Runs are processes that share the disk.  A sweep is one more process.   *)
(* Each reads and writes one file at a time, and nothing locks the store.  *)
(*                                                                         *)
(* A step is its settings: what its command reads (input, env), what the   *)
(* author wrote of its mount's mode, and a variable the cache was not told *)
(* of.  An object is its content, so its address is itself.                *)
(***************************************************************************)
EXTENDS Naturals, Sequences, FiniteSets, SequencesExt

CONSTANTS
    CacheRuns,      \* runs against this cache root
    Settings,       \* the settings a step may have
    Earlier,        \* settings of which one is cached by an earlier run
    Generators,     \* the settings of which the step is a generator
    Budgets,        \* GCOptions.MaxSize, in objects; 0 is no budget
    MaxSweeps,      \* how often `senro cache gc` is run
    MaxDeaths       \* how many runs die

\* The earlier run's step is one of those the runs may have.
ASSUME EarlierKnown == Earlier \subseteq Settings

VARIABLES
    objects,        \* cas.Dir
    entries,        \* key -> the result saved under it, or NoResult
    used,           \* keys with an entry, most recently accessed first
    pins,           \* pin files
    markers,        \* inflight/: run -> "none", "fresh" or "old"
    scratchFile,    \* the scratch entry: "none", "empty", "stale" or "digest"
    crun,           \* a run and the step it is at
    sweep           \* the collector

cacheVars == <<objects, entries, used, pins, markers, scratchFile, crun, sweep>>

-----------------------------------------------------------------------------
(* Keys and results.                                                       *)

\* A declared variable is in the key by value, any other not at all.
EnvComponent(s) == {<<"declared", s.env>>}

InputsComponent(s) == {<<"input", s.input>>}

CanonicalMode(mode) == IF mode = "" THEN "rw" ELSE mode

MountShapeComponent(s) == {<<"ws", CanonicalMode(s.mode)>>}

StepShapeComponent(s) == {<<"check_generated", FALSE>>}

\* Key.Components.
Components(s) ==
    [env |-> EnvComponent(s), inputs |-> InputsComponent(s),
     mounts |-> MountShapeComponent(s), shape |-> StepShapeComponent(s)]

\* Mutant: what a step reads is not in its key.
KeyWithoutInputs(s) == [Components(s) EXCEPT !.inputs = {}]

\* Key.Digest: equal exactly when the components are.
Key(s) == Components(s)

Keys == {Key(s) : s \in Settings}

\* What the command leaves behind: a workspace and a log, and for a
\* generator the plan fragment.
Body(s) == <<"body", s.input>>
Log(s) == <<"log", s.env>>
FragmentsOf(s) == IF s \in Generators THEN {<<"fragment", s.input>>} ELSE {}
Outcome(s) == {Body(s), Log(s)} \cup FragmentsOf(s)

\* In the order they are stored and restored: a fragment when it is spliced.
StoreOrder(s) == SetToSeq(FragmentsOf(s)) \o <<Body(s), Log(s)>>
RestoreOrder(s, res) == SetToSeq(res.refs) \o (IF s \in Generators THEN SetToSeq(res.fragment) ELSE <<>>)

Result(s) == [refs |-> {Body(s), Log(s)}, fragment |-> FragmentsOf(s)]
NoResult == [refs |-> {}, fragment |-> {}]

\* Mutant: a log is not counted among what an entry needs.
ReferencesWithoutLogs(res) == {o \in res.refs : o[1] # "log"}

\* references: what the collector keeps for an entry.
references(res) == res.refs

ScratchBody == <<"scratch", 0>>

-----------------------------------------------------------------------------
NoSweep == [at |-> "idle", budget |-> 0, protected |-> {}, inFlight |-> FALSE,
         sizes |-> {}, listed |-> <<>>, live |-> {}, kept |-> {}, left |-> MaxSweeps]

StepCacheInit ==
    /\ \E s \in Earlier :
          /\ objects = Outcome(s)
          /\ entries = [k \in Keys |-> IF k = Key(s) THEN Result(s) ELSE NoResult]
          /\ used = <<Key(s)>>
    /\ pins = {}
    /\ markers = [r \in CacheRuns |-> "none"]
    /\ scratchFile = "none"
    /\ crun \in [CacheRuns ->
          [at : {"new"}, step : Settings, todo : {<<>>}, put : {{}}, restored : {{}},
           late : {FALSE}, ok : {TRUE}, result : {NoResult}]]
    /\ sweep = NoSweep

\* What a run that has ended leaves of its own memory: nothing.
Ended(r, at) == [crun[r] EXCEPT !.at = at, !.todo = <<>>, !.put = {}, !.restored = {},
                                !.result = NoResult, !.ok = TRUE, !.late = FALSE]

RunAt(r, at) == crun[r].at = at
Go(r, at) == crun' = [crun EXCEPT ![r].at = at]

\* A run that marks itself after a sweep has looked is not seen by it.
Looked == sweep.at \in {"measure", "entries", "keep"}

\* MarkRunInFlight.
MarkRunInFlight(r) ==
    /\ RunAt(r, "new")
    /\ markers' = [markers EXCEPT ![r] = "fresh"]
    /\ crun' = [crun EXCEPT ![r].at = "lookup", ![r].late = Looked]
    /\ UNCHANGED <<objects, entries, used, pins, scratchFile, sweep>>

Touched(k) == <<k>> \o RemoveFirst(used, k)

\* cacheLookup: the key and ActionCache.Lookup, which marks the entry used.
cacheLookup(r) ==
    LET k == Key(crun[r].step)
        hit == entries[k] # NoResult IN
    /\ RunAt(r, "lookup")
    /\ used' = IF hit THEN Touched(k) ELSE used
    /\ crun' = [crun EXCEPT
          ![r].at = IF hit THEN "verify" ELSE "execute",
          ![r].result = entries[k]]
    /\ UNCHANGED <<objects, entries, pins, markers, scratchFile, sweep>>

\* forcedRegen: a generator's hit is refused under --regenerate.
forcedRegen(r) ==
    /\ RunAt(r, "verify") /\ crun[r].step \in Generators
    /\ crun' = [crun EXCEPT ![r].at = "execute", ![r].todo = <<>>, ![r].result = NoResult]
    /\ UNCHANGED <<objects, entries, used, pins, markers, scratchFile, sweep>>

\* degradeToMiss: the entry is forgotten and the step runs.
degradeToMiss(r) ==
    /\ entries' = [entries EXCEPT ![Key(crun[r].step)] = NoResult]
    /\ used' = RemoveFirst(used, Key(crun[r].step))
    /\ crun' = [crun EXCEPT ![r].at = "execute", ![r].todo = <<>>, ![r].result = NoResult]

\* Mutant: only the workspaces of the entry are looked for.
BodiesArePresent(r) == {o \in crun[r].result.refs : o[1] = "body"} \subseteq objects

\* hitIsReproducible: every object of the entry, before anything is touched.
hitIsReproducible(r) ==
    LET res == crun[r].result IN
    /\ crun[r].step \in Generators => res.fragment # {}
    /\ res.refs \cup res.fragment \subseteq objects

\* serveFromCache, up to the cache.hit event.
serveFromCache(r) ==
    /\ RunAt(r, "verify")
    /\ IF hitIsReproducible(r)
          THEN /\ crun' = [crun EXCEPT ![r].at = "restore", ![r].result = NoResult,
                                       ![r].todo = RestoreOrder(crun[r].step, crun[r].result)]
               /\ UNCHANGED <<entries, used>>
          ELSE degradeToMiss(r)
    /\ UNCHANGED <<objects, pins, markers, scratchFile, sweep>>

\* restore, restoreOutput, replayLog and spliceRecorded, one object each.
restoreObject(r) ==
    /\ RunAt(r, "restore")
    /\ LET o == Head(crun[r].todo) IN
          IF o \in objects
             THEN /\ crun' = [crun EXCEPT ![r].todo = Tail(@), ![r].restored = @ \cup {o},
                                 ![r].at = IF Len(crun[r].todo) = 1 THEN "cached" ELSE "restore"]
                  /\ UNCHANGED <<entries, used>>
             ELSE degradeToMiss(r)
    /\ UNCHANGED <<objects, pins, markers, scratchFile, sweep>>

\* The attempt.  A failed one leaves its workspace's snapshot too.
Execute(r) ==
    /\ RunAt(r, "execute")
    /\ \E ok \in BOOLEAN :
          crun' = [crun EXCEPT ![r].at = "put", ![r].ok = ok,
                      ![r].todo = IF ok THEN StoreOrder(crun[r].step) ELSE <<Body(crun[r].step)>>]
    /\ UNCHANGED <<objects, entries, used, pins, markers, scratchFile, sweep>>

\* cas.Dir.Put: a rename into place, or nothing when the object is there.
PutObject(r) ==
    /\ RunAt(r, "put")
    /\ LET o == Head(crun[r].todo) IN
          /\ objects' = objects \cup {o}
          /\ crun' = [crun EXCEPT ![r].todo = Tail(@), ![r].put = @ \cup {o},
                         ![r].at = IF Len(crun[r].todo) > 1 THEN "put"
                                   ELSE IF crun[r].ok THEN "save" ELSE "finish"]
    /\ UNCHANGED <<entries, used, pins, markers, scratchFile, sweep>>

\* cacheSave: the entry, atomically.  A save that fails is a slower next run.
cacheSave(r) ==
    /\ RunAt(r, "save")
    /\ \/ /\ entries' = [entries EXCEPT ![Key(crun[r].step)] = Result(crun[r].step)]
          /\ used' = Touched(Key(crun[r].step))
       \/ UNCHANGED <<entries, used>>
    /\ Go(r, "finish")
    /\ UNCHANGED <<objects, pins, markers, scratchFile, sweep>>

-----------------------------------------------------------------------------
(* The end of a run: saveScratch, WritePin, ClearRunInFlight.              *)

\* scratch.Dir.claim: O_EXCL, or the takeover of an old empty file.
claimBody(r) ==
    /\ crun[r].at \in {"finish", "cached"} /\ crun[r].ok
    /\ IF scratchFile \in {"none", "stale"}
          THEN scratchFile' = "empty" /\ Go(r, "scratch")
          ELSE UNCHANGED scratchFile /\ Go(r, "unmark")
    /\ UNCHANGED <<objects, entries, used, pins, markers, sweep>>

\* scratch.Dir.Save: the content, then the digest into the claimed file.
putScratch(r) ==
    /\ RunAt(r, "scratch")
    /\ objects' = objects \cup {ScratchBody}
    /\ crun' = [crun EXCEPT ![r].at = "adopt", ![r].put = @ \cup {ScratchBody}]
    /\ UNCHANGED <<entries, used, pins, markers, scratchFile, sweep>>

writeScratch(r) ==
    /\ RunAt(r, "adopt")
    /\ scratchFile' = "digest"
    /\ Go(r, "unmark")
    /\ UNCHANGED <<objects, entries, used, pins, markers, sweep>>

\* WritePin, for a run that did not succeed.
WritePin(r) ==
    /\ RunAt(r, "finish") /\ ~crun[r].ok
    /\ pins' = pins \cup {[run |-> r, digests |-> crun[r].put, expired |-> FALSE]}
    /\ Go(r, "unmark")
    /\ UNCHANGED <<objects, entries, used, markers, scratchFile, sweep>>

ClearRunInFlight(r) ==
    /\ RunAt(r, "unmark")
    /\ markers' = [markers EXCEPT ![r] = "none"]
    /\ crun' = [crun EXCEPT ![r] = Ended(r, "done")]
    /\ UNCHANGED <<objects, entries, used, pins, scratchFile, sweep>>

\* The process dies: its marker and its scratch claim stay.
CrashCacheRun(r) ==
    /\ crun[r].at \notin {"new", "done", "crashed"}
    /\ Cardinality({q \in CacheRuns : crun[q].at = "crashed"}) < MaxDeaths
    /\ crun' = [crun EXCEPT ![r] = Ended(r, "crashed")]
    /\ UNCHANGED <<objects, entries, used, pins, markers, scratchFile, sweep>>

\* RunInFlightStaleAge and staleClaimAge pass, for a run that crashed.
Age(r) ==
    /\ RunAt(r, "crashed")
    /\ \/ /\ markers[r] = "fresh"
          /\ markers' = [markers EXCEPT ![r] = "old"]
          /\ UNCHANGED scratchFile
       \/ /\ scratchFile = "empty"
          /\ \A q \in CacheRuns : crun[q].at \notin {"scratch", "adopt"}
          /\ scratchFile' = "stale"
          /\ UNCHANGED markers
    /\ UNCHANGED <<objects, entries, used, pins, crun, sweep>>

\* KeepFailed passes.
ExpirePin ==
    /\ \E p \in pins : /\ ~p.expired
                       /\ pins' = (pins \ {p}) \cup {[p EXCEPT !.expired = TRUE]}
    /\ UNCHANGED <<objects, entries, used, markers, scratchFile, crun, sweep>>

-----------------------------------------------------------------------------
(* `senro cache gc`: one file read or removed at a time.                   *)

\* ReadPins: an expired pin is removed, any other protects its digests.
readPins ==
    /\ sweep.at = "idle" /\ sweep.left > 0
    /\ \E b \in Budgets :
          sweep' = [NoSweep EXCEPT !.at = "scratch", !.budget = b, !.left = sweep.left - 1,
                       !.protected = UNION {p.digests : p \in {q \in pins : ~q.expired}}]
    /\ pins' = {p \in pins : ~p.expired}
    /\ UNCHANGED <<objects, entries, used, markers, scratchFile, crun>>

\* scratch.Dir.Digests.
readScratchDigests ==
    /\ sweep.at = "scratch"
    /\ sweep' = [sweep EXCEPT !.at = "saves",
                    !.protected = @ \cup IF scratchFile = "digest" THEN {ScratchBody} ELSE {}]
    /\ UNCHANGED <<objects, entries, used, pins, markers, scratchFile, crun>>

\* scratch.Dir.InFlight.
savesInFlight ==
    /\ sweep.at = "saves"
    /\ sweep' = [sweep EXCEPT !.at = "runs", !.inFlight = (scratchFile = "empty")]
    /\ UNCHANGED <<objects, entries, used, pins, markers, scratchFile, crun>>

\* Mutant: every marker counts as left behind by a crash.
NoRunInFlight == FALSE

\* AnyRunInFlight: a marker older than RunInFlightStaleAge does not count.
AnyRunInFlight == \E r \in CacheRuns : markers[r] = "fresh"

runsInFlight ==
    /\ sweep.at = "runs"
    /\ sweep' = [sweep EXCEPT !.at = "measure", !.inFlight = @ \/ AnyRunInFlight]
    /\ UNCHANGED <<objects, entries, used, pins, markers, scratchFile, crun>>

\* cas.Dir.Walk.
measure ==
    /\ sweep.at = "measure"
    /\ sweep' = [sweep EXCEPT !.at = "entries", !.sizes = objects]
    /\ UNCHANGED <<objects, entries, used, pins, markers, scratchFile, crun>>

\* ActionCache.Walk, and the sort: the entries, newest first.
walkEntries ==
    /\ sweep.at = "entries"
    /\ sweep' = [sweep EXCEPT !.at = "keep", !.live = sweep.protected,
                    !.listed = [i \in DOMAIN used |-> [key |-> used[i], refs |-> references(entries[used[i]])]]]
    /\ UNCHANGED <<objects, entries, used, pins, markers, scratchFile, crun>>

\* What an entry adds fits the budget.
Fits(refs) == sweep.budget = 0 \/ Cardinality((sweep.live \cup refs) \cap sweep.sizes) <= sweep.budget

\* One entry of the list: kept, or its file removed, whatever was saved there
\* since it was read.
evict ==
    /\ sweep.at = "keep" /\ sweep.listed # <<>>
    /\ LET e == Head(sweep.listed) IN
          IF Fits(e.refs)
          THEN /\ sweep' = [sweep EXCEPT !.listed = Tail(@), !.live = @ \cup e.refs, !.kept = @ \cup {e.key}]
               /\ UNCHANGED <<entries, used>>
          ELSE /\ sweep' = [sweep EXCEPT !.listed = Tail(@)]
               /\ entries' = [entries EXCEPT ![e.key] = NoResult]
               /\ used' = RemoveFirst(used, e.key)
    /\ UNCHANGED <<objects, pins, markers, scratchFile, crun>>

\* The orphans of what was measured, unless something was in flight.
Orphans == IF sweep.inFlight THEN {} ELSE (sweep.sizes \ sweep.live) \cap objects

collect ==
    /\ sweep.at = "keep" /\ sweep.listed = <<>> /\ Orphans # {}
    /\ \E o \in Orphans : objects' = objects \ {o}
    /\ UNCHANGED <<entries, used, pins, markers, scratchFile, crun, sweep>>

sweepDone ==
    /\ sweep.at = "keep" /\ sweep.listed = <<>> /\ Orphans = {}
    /\ sweep' = [NoSweep EXCEPT !.left = sweep.left, !.kept = sweep.kept, !.sizes = sweep.sizes]
    /\ UNCHANGED <<objects, entries, used, pins, markers, scratchFile, crun>>

GC == \/ readPins \/ readScratchDigests \/ savesInFlight \/ runsInFlight
      \/ measure \/ walkEntries \/ evict \/ collect \/ sweepDone

-----------------------------------------------------------------------------
CacheRun(r) ==
    \/ MarkRunInFlight(r) \/ cacheLookup(r) \/ forcedRegen(r) \/ serveFromCache(r)
    \/ restoreObject(r) \/ Execute(r) \/ PutObject(r) \/ cacheSave(r)
    \/ claimBody(r) \/ putScratch(r) \/ writeScratch(r) \/ WritePin(r) \/ ClearRunInFlight(r)
    \/ CrashCacheRun(r) \/ Age(r)

CacheQuiet == \A r \in CacheRuns : crun[r].at \in {"done", "crashed"}

\* Nothing is left to do, or what remains is up to an operator.
CacheDone == CacheQuiet /\ sweep.at = "idle" /\ UNCHANGED cacheVars

StepCacheNext == (\E r \in CacheRuns : CacheRun(r)) \/ ExpirePin \/ GC \/ CacheDone

StepCacheSpec == StepCacheInit /\ [][StepCacheNext]_cacheVars

-----------------------------------------------------------------------------
InExecution(r) == crun[r].at \notin {"new", "done", "crashed"}

(* A step served from the cache has exactly what running it would have     *)
(* left: the key tells apart every setting the outcome depends on, and an  *)
(* entry another run saved, evicted or forgot meanwhile is never served in *)
(* part (engine/cache.go serveFromCache).                                  *)
CachedIsWhatRunningGives ==
    \A r \in CacheRuns :
        RunAt(r, "cached") => crun[r].restored = Outcome(crun[r].step)

(* A sweep takes nothing from a run it could see: what such a run has put  *)
(* is there until it ends, and a hit it announced is restored whole, never *)
(* degraded half-way to a step that runs on top of cached content.         *)
SweepSparesRuns ==
    \A r \in CacheRuns : InExecution(r) /\ ~crun[r].late =>
        /\ crun[r].put \subseteq objects
        /\ crun[r].at = "execute" => crun[r].restored = {}

(* A sweep evicts whole entries: what it measured of an entry it kept is   *)
(* still there when it ends (gc.go, "deleting half an entry saves nothing  *)
(* and leaves a broken hit").                                              *)
KeptEntriesAreWhole ==
    sweep.at = "idle" =>
        \A k \in sweep.kept : entries[k].refs \cap sweep.sizes \subseteq objects

(* The cache's three promises together (engine/cache.go, cache/gc.go).     *)
CacheHolds == CachedIsWhatRunningGives /\ SweepSparesRuns /\ KeptEntriesAreWhole

(* cmd_cache.go says that a failed run's workspaces are kept for           *)
(* --keep-failed: what an unexpired pin names is in the store.             *)
PinnedIsKept ==
    \A p \in pins : ~p.expired => p.digests \subseteq objects

(* gc.go's references says that it enumerates every content address a      *)
(* result holds: an entry a sweep kept can still be served.                *)
KeptEntriesCanBeServed ==
    sweep.at = "idle" =>
        \A k \in sweep.kept :
            (entries[k].refs \cup entries[k].fragment) \cap sweep.sizes \subseteq objects
=============================================================================
