------------------------------- MODULE Persist -------------------------------
(***************************************************************************)
(* Persistent workspaces across runs: the store and its leases             *)
(* (internal/persist/persist.go, filelock.go) as one run of the engine     *)
(* uses them (internal/engine/workspaces.go: newWSManager, openPersistent, *)
(* releasePersistent, abandonPersistent).  Several runs, each a process of *)
(* its own, lease, measure, write, bound and give back directories that    *)
(* outlive them; any of them may be killed between two steps.              *)
(*                                                                         *)
(* A workspace's content is its size.  The advisory file lock is external: *)
(* the kernel grants it to one open file and drops it when the process     *)
(* dies.                                                                   *)
(***************************************************************************)
EXTENDS Naturals, Sequences, FiniteSets

CONSTANTS
    LeasingRuns,  \* runs; each runs once
    Workspaces,   \* names of persistent workspaces
    Order,        \* Order[r]: the workspaces r's plan declares, in plan order
    ByName,       \* all workspaces in the order of their names
    NoRun,        \* no run
    MaxAge,       \* Spec.MaxAge, in ticks
    MaxSize,      \* MaxSize[r]: Spec.MaxSize as r's plan has it, 0 for none
    MaxBytes,     \* bound: the largest size a workspace grows to
    MaxTime,      \* bound: clock ticks
    MaxFailures   \* bound: filesystem errors

ASSUME PersistAssumption ==
    /\ NoRun \notin LeasingRuns
    /\ Order \in [LeasingRuns -> Seq(Workspaces)]
    /\ \A r \in LeasingRuns : Order[r] # <<>>
    /\ ByName \in Seq(Workspaces)
    /\ \A w \in Workspaces : \E i \in 1 .. Len(ByName) : ByName[i] = w
    /\ MaxAge \in Nat /\ MaxSize \in [LeasingRuns -> Nat]
    /\ MaxBytes \in Nat /\ MaxTime \in Nat /\ MaxFailures \in Nat

VARIABLES
    runAt,     \* where each run is
    at,        \* the position in Order[r] it is working on
    lock,      \* who holds each workspace's lock
    leases,    \* wsManager.leases of each run
    bytes,     \* size of each workspace's tree
    meta,      \* the meta.json record: [has, used, bytes]
    believed,  \* what the run that measured a workspace takes its size to be
    size,      \* Release's bytes: what each run takes for the size it releases
    blind,     \* workspaces last released without a measurement
    settled,   \* the run whose completed Release left the tree as it is, or None
    now,       \* the clock
    failures   \* filesystem errors so far

persistVars == <<runAt, at, lock, leases, bytes, meta, believed, size, blind, settled, now, failures>>

NoMeta == [has |-> FALSE, used |-> 0, bytes |-> 0]

PersistInit ==
    /\ runAt = [r \in LeasingRuns |-> "idle"]
    /\ at = [r \in LeasingRuns |-> 1]
    /\ lock = [w \in Workspaces |-> NoRun]
    /\ leases = [r \in LeasingRuns |-> {}]
    /\ bytes = [w \in Workspaces |-> 0]
    /\ meta = [w \in Workspaces |-> NoMeta]
    /\ believed = [r \in LeasingRuns |-> [w \in Workspaces |-> 0]]
    /\ size = [r \in LeasingRuns |-> 0]
    /\ blind = {} /\ settled = [w \in Workspaces |-> NoRun]
    /\ now = 0 /\ failures = 0

\* The workspace run r is working on: newWSManager goes through the plan,
\* releasePersistent through the leases it has, sorted by name.
Cur(r) ==
    IF runAt[r] \in {"release", "shrink", "record"}
    THEN ByName[CHOOSE i \in 1 .. Len(ByName) :
                   /\ ByName[i] \in leases[r]
                   /\ \A j \in 1 .. i - 1 : ByName[j] \notin leases[r]]
    ELSE Order[r][at[r]]

GoOn(r, p) == runAt' = [runAt EXCEPT ![r] = p]

\* Locks after run r gives up every workspace of the set W.
Unlock(r, W) ==
    lock' = [w \in Workspaces |-> IF w \in W /\ lock[w] = r THEN NoRun ELSE lock[w]]

\* The tree of w, or its measurement, is no longer the last Release's.
Disturb(w) == settled' = [settled EXCEPT ![w] = NoRun]

Fail == failures < MaxFailures /\ failures' = failures + 1

-----------------------------------------------------------------------------
(* newWSManager: one lease per declared workspace. *)

\* The workspace of step "lock" is leased: the next one, or on with the run.
Leased(r) ==
    /\ leases' = [leases EXCEPT ![r] = @ \cup {Cur(r)}]
    /\ IF at[r] < Len(Order[r])
       THEN at' = [at EXCEPT ![r] = @ + 1] /\ GoOn(r, "lock")
       ELSE UNCHANGED at /\ GoOn(r, "prepare")

\* abandonPersistent (and the lease in hand): everything is given back and
\* nothing recorded.
AbandonAll(r) ==
    /\ Unlock(r, leases[r] \cup {Cur(r)})
    /\ leases' = [leases EXCEPT ![r] = {}]

Begin(r) ==
    /\ runAt[r] = "idle"
    /\ GoOn(r, "lock")
    /\ UNCHANGED <<at, lock, leases, bytes, meta, believed, size, blind, settled, now, failures>>

\* Mutants: the lock is taken over; a held lock is waited for.
TakeOver(r) ==
    /\ runAt[r] = "lock"
    /\ lock' = [lock EXCEPT ![Cur(r)] = r]
    /\ GoOn(r, "check")
    /\ UNCHANGED <<at, leases, bytes, meta, believed, size, blind, settled, now, failures>>
WaitForIt(r) ==
    /\ runAt[r] = "lock" /\ lock[Cur(r)] = NoRun
    /\ lock' = [lock EXCEPT ![Cur(r)] = r]
    /\ GoOn(r, "check")
    /\ UNCHANGED <<at, leases, bytes, meta, believed, size, blind, settled, now, failures>>

\* TryAcquire: the exclusion comes first and never waits.  A refused run
\* gives back what it has.
TryAcquire(r) ==
    /\ runAt[r] = "lock"
    /\ IF lock[Cur(r)] = NoRun
       THEN /\ lock' = [lock EXCEPT ![Cur(r)] = r]
            /\ GoOn(r, "check")
            /\ UNCHANGED leases
       ELSE /\ AbandonAll(r)
            /\ GoOn(r, "over")
    /\ UNCHANGED <<at, bytes, meta, believed, size, blind, settled, now, failures>>

\* Acquire's two bounds, against the record the last release left.
TooOld(w) == meta[w].has /\ MaxAge > 0 /\ now - meta[w].used > MaxAge
TooBig(r, w) == meta[w].has /\ MaxSize[r] > 0 /\ meta[w].bytes > MaxSize[r]

\* The rest of Acquire: with the lock held, prepare the directory and the
\* holder record, read the record, decide.  evict starts removing the tree.
CheckBounds(r) ==
    /\ runAt[r] = "check"
    /\ IF TooOld(Cur(r)) \/ TooBig(r, Cur(r))
       THEN /\ Disturb(Cur(r))
            /\ GoOn(r, "evict")
            /\ UNCHANGED <<at, leases>>
       ELSE Leased(r) /\ UNCHANGED settled
    /\ UNCHANGED <<lock, bytes, meta, believed, size, blind, now, failures>>

\* RemoveAll takes the tree away piece by piece; a kill or an error between
\* two pieces leaves the rest.
RemovePiece(r) ==
    /\ runAt[r] \in {"evict", "shrink"}
    /\ bytes[Cur(r)] > 0
    /\ bytes' = [bytes EXCEPT ![Cur(r)] = @ - 1]
    /\ UNCHANGED <<runAt, at, lock, leases, meta, believed, size, blind, settled, now, failures>>

\* evict completes: nothing is left, an empty directory is made.
EvictDone(r) ==
    /\ runAt[r] = "evict" /\ bytes[Cur(r)] = 0
    /\ Leased(r)
    /\ UNCHANGED <<lock, bytes, meta, believed, size, blind, settled, now, failures>>

\* An error anywhere in Acquire: Abandon, if the lock was taken, then
\* newWSManager gives back the earlier leases.
AcquireFails(r) ==
    /\ runAt[r] \in {"lock", "check", "evict"}
    /\ Fail
    /\ AbandonAll(r)
    /\ GoOn(r, "over")
    /\ UNCHANGED <<at, bytes, meta, believed, size, blind, settled, now>>

\* newWSManager's other errors: a run-scoped directory that cannot be made,
\* a scratch key that does not expand.  It returns without abandoning, and
\* Run's deferred abandon is not yet in place.
PrepareFails(r) ==
    /\ runAt[r] \in {"lock", "prepare"}
    /\ Fail
    /\ GoOn(r, "over")
    /\ UNCHANGED <<at, lock, leases, bytes, meta, believed, size, blind, settled, now>>

Prepared(r) ==
    /\ runAt[r] = "prepare"
    /\ GoOn(r, "measure")
    /\ UNCHANGED <<at, lock, leases, bytes, meta, believed, size, blind, settled, now, failures>>

-----------------------------------------------------------------------------
(* Run, once its deferred abandon is in place. *)

\* openPersistent: what every cache key will say of the workspace.
OpenPersistent(r) ==
    /\ runAt[r] = "measure"
    /\ believed' = [believed EXCEPT ![r] = bytes]
    /\ GoOn(r, "running")
    /\ UNCHANGED <<at, lock, leases, bytes, meta, size, blind, settled, now, failures>>

\* A pre-step failure: the deferred abandonPersistent gives all back.
RunAborts(r) ==
    /\ runAt[r] = "measure"
    /\ Fail
    /\ AbandonAll(r)
    /\ GoOn(r, "over")
    /\ UNCHANGED <<at, bytes, meta, believed, size, blind, settled, now>>

\* A step of the run writes into a workspace it mounts.
Write(r, w) ==
    /\ runAt[r] = "running" /\ w \in leases[r]
    /\ bytes[w] < MaxBytes
    /\ bytes' = [bytes EXCEPT ![w] = @ + 1]
    /\ believed' = [believed EXCEPT ![r][w] = @ + 1]
    /\ Disturb(w)
    /\ UNCHANGED <<runAt, at, lock, leases, meta, size, blind, now, failures>>

StepsEnd(r) ==
    /\ runAt[r] = "running"
    /\ GoOn(r, "release")
    /\ UNCHANGED <<at, lock, leases, bytes, meta, believed, size, blind, settled, now, failures>>

\* Release of one workspace begins: measure (an unmeasurable one counts as
\* 0), and start evicting the tree that is over MaxSize.
MeasureForRelease(r, measured) ==
    /\ runAt[r] = "release"
    /\ IF measured THEN UNCHANGED failures ELSE Fail
    /\ size' = [size EXCEPT ![r] = IF measured THEN bytes[Cur(r)] ELSE 0]
    /\ blind' = IF measured THEN blind \ {Cur(r)} ELSE blind \cup {Cur(r)}
    /\ IF MaxSize[r] > 0 /\ size'[r] > MaxSize[r]
       THEN GoOn(r, "shrink")
       ELSE GoOn(r, "record")
    /\ Disturb(Cur(r))
    /\ UNCHANGED <<at, lock, leases, bytes, meta, believed, now>>

\* A mutant: the size from before the eviction is the one recorded.
ShrinkForgets(r) ==
    /\ runAt[r] = "shrink" /\ bytes[Cur(r)] = 0
    /\ GoOn(r, "record")
    /\ UNCHANGED <<at, lock, leases, bytes, meta, believed, size, blind, settled, now, failures>>

\* The eviction is over, and what will be recorded is an empty tree.
ShrinkDone(r) ==
    /\ runAt[r] = "shrink" /\ bytes[Cur(r)] = 0
    /\ size' = [size EXCEPT ![r] = 0]
    /\ GoOn(r, "record")
    /\ UNCHANGED <<at, lock, leases, bytes, meta, believed, blind, settled, now, failures>>

\* The lease is given up whatever happened; then the next one, if any.
GiveUp(r) ==
    /\ Unlock(r, {Cur(r)})
    /\ leases' = [leases EXCEPT ![r] = @ \ {Cur(r)}]
    /\ GoOn(r, IF leases'[r] = {} THEN "over" ELSE "release")

\* A mutant: the directory itself is counted in.
CountTheRoot(r) ==
    /\ runAt[r] = "record"
    /\ meta' = [meta EXCEPT ![Cur(r)] = [has |-> TRUE, used |-> now, bytes |-> size[r] + 1]]
    /\ settled' = [settled EXCEPT ![Cur(r)] = r]
    /\ GiveUp(r)
    /\ UNCHANGED <<at, bytes, believed, size, blind, now, failures>>

WriteMeta(r) ==
    /\ runAt[r] = "record"
    /\ meta' = [meta EXCEPT ![Cur(r)] = [has |-> TRUE, used |-> now, bytes |-> size[r]]]
    /\ settled' = [settled EXCEPT ![Cur(r)] = r]
    /\ GiveUp(r)
    /\ UNCHANGED <<at, bytes, believed, size, blind, now, failures>>

\* The eviction or the record fails: nothing is recorded, the lease goes.
ReleaseFails(r) ==
    /\ runAt[r] \in {"shrink", "record"}
    /\ Fail
    /\ GiveUp(r)
    /\ UNCHANGED <<at, bytes, meta, believed, size, blind, settled, now>>

-----------------------------------------------------------------------------
(* The environment. *)

\* SIGKILL, or a finished run's process exiting: the kernel drops the locks.
RunDies(r) ==
    /\ runAt[r] \notin {"idle", "dead"}
    /\ GoOn(r, "dead")
    /\ Unlock(r, Workspaces)
    /\ leases' = [leases EXCEPT ![r] = {}]
    /\ UNCHANGED <<at, bytes, meta, believed, size, blind, settled, now, failures>>

\* A leaked lease's file may be closed when the collector finds it.
Collected(r) ==
    /\ runAt[r] = "over" /\ leases[r] # {}
    /\ AbandonAll(r)
    /\ UNCHANGED <<runAt, at, bytes, meta, believed, size, blind, settled, now, failures>>

ClockTicks ==
    /\ now < MaxTime
    /\ now' = now + 1
    /\ UNCHANGED <<runAt, at, lock, leases, bytes, meta, believed, size, blind, settled, failures>>

-----------------------------------------------------------------------------
Step(r) ==
    \/ Begin(r) \/ TryAcquire(r) \/ CheckBounds(r)
    \/ RemovePiece(r) \/ EvictDone(r)
    \/ AcquireFails(r) \/ PrepareFails(r) \/ Prepared(r)
    \/ OpenPersistent(r) \/ RunAborts(r) \/ StepsEnd(r)
    \/ \E measured \in BOOLEAN : MeasureForRelease(r, measured)
    \/ ShrinkDone(r) \/ WriteMeta(r) \/ ReleaseFails(r)

PersistNext ==
    \/ \E r \in LeasingRuns : Step(r) \/ RunDies(r) \/ Collected(r) \/ \E w \in Workspaces : Write(r, w)
    \/ ClockTicks

PersistSpec == PersistInit /\ [][PersistNext]_persistVars

\* A run's process is scheduled and its steps come to an end.
PersistFairSpec == PersistSpec /\ \A r \in LeasingRuns : WF_persistVars(Step(r))

-----------------------------------------------------------------------------
(* Properties. *)

\* Types of the store's and the runs' state.
PersistTypeOK ==
    /\ runAt \in [LeasingRuns -> {"idle", "lock", "check", "evict", "prepare", "measure", "running",
                                  "release", "shrink", "record", "over", "dead"}]
    /\ at \in [LeasingRuns -> Nat \ {0}]
    /\ lock \in [Workspaces -> LeasingRuns \cup {NoRun}]
    /\ leases \in [LeasingRuns -> SUBSET Workspaces]
    /\ bytes \in [Workspaces -> 0 .. MaxBytes]
    /\ blind \subseteq Workspaces
    /\ settled \in [Workspaces -> LeasingRuns \cup {NoRun}]
    /\ size \in [LeasingRuns -> 0 .. MaxBytes]
    /\ meta \in [Workspaces -> [has : BOOLEAN, used : 0 .. MaxTime, bytes : 0 .. MaxBytes]]
    /\ believed \in [LeasingRuns -> [Workspaces -> 0 .. MaxBytes]]
    /\ now \in 0 .. MaxTime /\ failures \in 0 .. MaxFailures

\* "only sound while the tree cannot change under the run that measured it;
\* the lease makes that true": from the opening measurement until the run
\* starts to give the workspace back, the tree is what the run measured plus
\* what it wrote itself.
MeasurementHolds ==
    \A r \in LeasingRuns : runAt[r] = "running" =>
        \A w \in leases[r] : bytes[w] = believed[r][w]

\* A tree that is as a completed Release left it is within the bound of
\* the run that released it and the record says what is there, so no record
\* makes the next acquisition evict an already emptied tree; only a release that
\* could not measure leaves the bound to a later run.
BoundKept ==
    \A w \in Workspaces :
        settled[w] # NoRun =>
            /\ meta[w].has
            /\ w \notin blind =>
                  /\ meta[w].bytes = bytes[w]
                  /\ (MaxSize[settled[w]] > 0) => (bytes[w] <= MaxSize[settled[w]])

\* The lease keeps what a run measured true, and a release keeps the bound.
PersistHolds == MeasurementHolds /\ BoundKept

\* Runs that want the same workspaces in different orders do not hold each
\* other up: every run that starts comes to its end, one way or the other.
EveryRunEnds ==
    \A r \in LeasingRuns : (runAt[r] = "lock") ~> (runAt[r] \in {"over", "dead"})
=============================================================================
