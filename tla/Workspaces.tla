----------------------------- MODULE Workspaces -----------------------------
(***************************************************************************)
(* The workspaces of one run: wsManager leases or creates one directory    *)
(* per workspace, steps, handlers, services, forced snapshots and shell    *)
(* sessions read and write them under a shared hold, and a cache hit       *)
(* replaces them under an exclusive one.  A directory is one value: the    *)
(* last write that went into it.  A digest is the value it was taken of.   *)
(***************************************************************************)
EXTENDS Naturals

CONSTANTS
  Dirs,         \* the run's workspaces; their numbers are their sorted order
  Persistent,   \* the ones kept between runs, leased at the start
  WsSteps,      \* the steps, all ready to be dispatched unless WsNeeds orders them
  WsNeeds,      \* step -> the steps that must be done, or serving, first
  Mounted,      \* step -> the workspaces it mounts
  Writable,     \* step -> the ones it mounts read-write
  WsService,    \* the steps that are services
  WsCached,     \* the pure steps whose key has a stored result
  Sessions,     \* shell sessions an operator may open
  ShellOn,      \* session -> the step it is opened on
  WsAttempts    \* bound: step -> its attempts

Actors == WsSteps \cup Sessions
Nobody == "nobody"

ASSUME WorkspacesAssumption ==
  /\ Dirs \subseteq Nat /\ Persistent \subseteq Dirs
  /\ WsSteps \cap Sessions = {} /\ Nobody \notin Actors
  /\ Mounted \in [WsSteps -> SUBSET Dirs] /\ WsAttempts \in [WsSteps -> Nat]
  /\ ShellOn \in [Sessions -> WsSteps]

VARIABLES
  phase,     \* of the run: "lease", "open", "run", "ended", "refused"
  left,      \* workspaces newWSManager still has to prepare
  wsLeases,    \* persistent workspaces whose lease this run holds
  tree,      \* workspace -> what its directory holds, or "gone"
  digestOf,  \* workspace -> the digest recorded last (wsManager.state)
  shared, exclusive, queued,   \* one RWMutex per workspace
  want,      \* actor -> the holds it still has to take
  wsAt,        \* actor -> where it is
  tries,     \* step -> attempts begun
  seen,      \* step -> the digests its mounts were realised with
  snaps,     \* step -> workspace -> the snapshots its attempt has taken
  todo,      \* step -> workspaces a hit still has to restore
  heldAt,    \* step -> the attempt --break-on-failure holds, 0 for none
  shell,     \* session -> [token, reads, torn]
  raced      \* history: workspaces written while another attempt was taking its
             \* snapshots, or whose writer took none that was recorded

runVars  == <<phase, left, wsLeases>>
lockVars == <<shared, exclusive, queued, want>>
wsVars   == <<runVars, tree, digestOf, lockVars, wsAt, tries, seen, snaps, todo,
              heldAt, shell, raced>>

NoDigest == <<>>
NoDigests == [w \in {} |-> NoDigest]
Gone     == <<"gone">>
NoShell  == [token |-> 0, reads |-> 0, torn |-> {}]

\* workspaceMountNames: deduplicated and sorted, so every actor takes its
\* holds in one order, the least first.
workspaceMountNames(s) == Mounted[s]
NextHold(a) == {w \in want[a] : \A v \in want[a] : w <= v}
Node(a) == IF a \in WsSteps THEN a ELSE ShellOn[a]

WorkspacesInit ==
  /\ phase = "lease" /\ left = Dirs /\ wsLeases = {}
  /\ tree = [w \in Dirs |-> IF w \in Persistent THEN <<"kept">> ELSE Gone]
  /\ digestOf = [w \in Dirs |-> NoDigest]
  /\ shared = [w \in Dirs |-> {}] /\ exclusive = [w \in Dirs |-> Nobody]
  /\ queued = [w \in Dirs |-> {}] /\ want = [a \in Actors |-> {}]
  /\ wsAt = [a \in Actors |-> "new"] /\ tries = [s \in WsSteps |-> 0]
  /\ seen = [s \in WsSteps |-> NoDigests] /\ snaps = [s \in WsSteps |-> NoDigests]
  /\ todo = [s \in WsSteps |-> {}] /\ heldAt = [s \in WsSteps |-> 0]
  /\ shell = [a \in Sessions |-> NoShell] /\ raced = {}

-----------------------------------------------------------------------------
(* newWSManager: each workspace in declaration order is leased or created.  *)

\* A refused lease gives back the ones already taken.
abandonPersistent == wsLeases' = {}

lease(w) ==
  /\ phase = "lease" /\ w \in left \cap Persistent
  /\ left' = left \ {w}
  /\ \/ wsLeases' = wsLeases \cup {w} /\ phase' = phase
     \/ abandonPersistent /\ phase' = "refused"
  /\ UNCHANGED <<tree, digestOf, lockVars, wsAt, tries, seen, snaps, todo, heldAt, shell, raced>>

\* A directory that cannot be created ends Run before its deferred abandon.
makeDir(w) ==
  /\ phase = "lease" /\ w \in left \ Persistent
  /\ left' = left \ {w}
  /\ \/ tree' = [tree EXCEPT ![w] = <<"empty">>] /\ phase' = phase
     \/ tree' = tree /\ phase' = "refused"
  /\ UNCHANGED <<wsLeases, digestOf, lockVars, wsAt, tries, seen, snaps, todo, heldAt, shell, raced>>

\* openPersistent: every leased directory is measured before a step can start;
\* a measurement that fails ends the run, and the deferred abandon releases.
openPersistent ==
  /\ phase = "lease" /\ left = {}
  /\ \/ /\ digestOf' = [w \in Dirs |-> IF w \in wsLeases THEN tree[w] ELSE NoDigest]
        /\ phase' = "run" /\ wsLeases' = wsLeases
     \/ phase' = "refused" /\ abandonPersistent /\ digestOf' = digestOf
  /\ UNCHANGED <<left, tree, lockVars, wsAt, tries, seen, snaps, todo, heldAt, shell, raced>>

-----------------------------------------------------------------------------
(* Go's RWMutex, one per workspace: a waiting writer stops new readers.     *)

\* lockMounts, one workspace at a time.
TakeShared(a) ==
  /\ wsAt[a] # "restore"
  /\ \E w \in NextHold(a) :
       /\ exclusive[w] = Nobody /\ queued[w] = {}
       /\ shared' = [shared EXCEPT ![w] = @ \cup {a}]
       /\ want' = [want EXCEPT ![a] = @ \ {w}]
  /\ UNCHANGED <<runVars, tree, digestOf, exclusive, queued, wsAt, tries, seen, snaps, todo,
                 heldAt, shell, raced>>

NoOtherHit(w) == exclusive[w] = Nobody
drained(w)    == shared[w] = {} /\ exclusive[w] = Nobody

\* lockRestore: queue first, then wait for the readers to leave.
TakeExclusive(a) ==
  /\ wsAt[a] = "restore"
  /\ \E w \in NextHold(a) :
       IF a \in queued[w]
         THEN /\ drained(w)
              /\ exclusive' = [exclusive EXCEPT ![w] = a]
              /\ queued' = [queued EXCEPT ![w] = @ \ {a}]
              /\ want' = [want EXCEPT ![a] = @ \ {w}]
         ELSE queued' = [queued EXCEPT ![w] = @ \cup {a}] /\ UNCHANGED <<exclusive, want>>
  /\ UNCHANGED <<runVars, tree, digestOf, shared, wsAt, tries, seen, snaps, todo, heldAt,
                 shell, raced>>

unlock(a) == /\ shared' = [w \in Dirs |-> shared[w] \ {a}]
             /\ exclusive' = [w \in Dirs |-> IF exclusive[w] = a THEN Nobody ELSE exclusive[w]]
             /\ queued' = queued

goTo(a, p)   == wsAt' = [wsAt EXCEPT ![a] = p] /\ want' = want
goLocked(a, p) == /\ wsAt' = [wsAt EXCEPT ![a] = p]
                  /\ want' = [want EXCEPT ![a] = workspaceMountNames(Node(a))]
Ready(a, p)  == phase = "run" /\ wsAt[a] = p /\ want[a] = {}

-----------------------------------------------------------------------------
(* A step, from dispatch to settlement.                                     *)

Dispatch(s) ==
  /\ Ready(s, "new") \/ Ready(s, "captured")
  /\ \A d \in WsNeeds[s] : wsAt[d] \in {"serve", "done"}
  /\ goLocked(s, IF s \in WsCached THEN "hash" ELSE "mount")
  /\ UNCHANGED <<runVars, tree, digestOf, shared, exclusive, queued, tries, seen, snaps, todo,
                 heldAt, shell, raced>>

\* cacheLookup: the key reads the recorded digests under a shared hold.  A hit
\* is restored; a miss, or a hit that cannot be reproduced, is run; a key that
\* cannot be built settles the step.
hashInputs(s) ==
  /\ Ready(s, "hash") /\ unlock(s)
  /\ \/ goLocked(s, "restore") /\ todo' = [todo EXCEPT ![s] = Mounted[s]]
     \/ (goLocked(s, "mount") \/ goTo(s, "done")) /\ todo' = todo
  /\ UNCHANGED <<runVars, tree, digestOf, tries, seen, snaps, heldAt, shell, raced>>

\* serveFromCache: each workspace is staged, removed and renamed into place
\* under one exclusive hold; a staging that fails degrades to a miss.
restoreClear(s, w) ==
  /\ Ready(s, "restore") /\ w \in todo[s] /\ \A v \in Dirs : tree[v] # Gone \/ v \notin Mounted[s]
  /\ tree' = [tree EXCEPT ![w] = Gone]
  /\ UNCHANGED <<runVars, digestOf, lockVars, wsAt, tries, seen, snaps, todo, heldAt, shell, raced>>

restorePlace(s, w) ==
  /\ Ready(s, "restore") /\ w \in todo[s] /\ tree[w] = Gone
  /\ tree' = [tree EXCEPT ![w] = <<s, 0>>]
  /\ digestOf' = [digestOf EXCEPT ![w] = <<s, 0>>]
  /\ todo' = [todo EXCEPT ![s] = @ \ {w}]
  /\ UNCHANGED <<runVars, lockVars, wsAt, tries, seen, snaps, heldAt, shell, raced>>

serveFromCache(s) ==
  /\ Ready(s, "restore") /\ \A w \in Mounted[s] : tree[w] # Gone
  /\ unlock(s)
  /\ IF todo[s] = {} THEN goTo(s, "done") ELSE goLocked(s, "mount")
  /\ todo' = [todo EXCEPT ![s] = {}]
  /\ UNCHANGED <<runVars, tree, digestOf, tries, seen, snaps, heldAt, shell, raced>>

\* prepareAttempt: holds, then mounts(n), which carry the recorded digests.  A
\* service is given a copy and lets go (serviceMounts); without a sandbox the
\* attempt has failed.
mounts(s) == [w \in Mounted[s] |-> digestOf[w]]

retryOrSettle(s, n) ==
  goLocked(s, "always") \/ (n < WsAttempts[s] /\ goLocked(s, "mount"))

prepareAttempt(s) ==
  /\ Ready(s, "mount")
  /\ tries' = [tries EXCEPT ![s] = @ + 1]
  /\ \/ s \in WsService /\ unlock(s) /\ goTo(s, "serve") /\ seen' = seen
     \/ /\ s \notin WsService /\ goTo(s, "run")
        /\ seen' = [seen EXCEPT ![s] = mounts(s)] /\ UNCHANGED <<shared, exclusive, queued>>
     \/ unlock(s) /\ retryOrSettle(s, tries[s] + 1) /\ seen' = seen
  /\ UNCHANGED <<runVars, tree, digestOf, snaps, todo, heldAt, shell, raced>>

\* The service was stopped; its copy is removed, the workspace untouched.
StopService(s) ==
  /\ Ready(s, "serve") /\ goTo(s, "done")
  /\ UNCHANGED <<runVars, tree, digestOf, shared, exclusive, queued, tries, seen, snaps, todo,
                 heldAt, shell, raced>>

\* The attempts whose command has ended and whose snapshots are not recorded.
Snapping(w) == {s \in WsSteps : wsAt[s] = "snap" /\ w \in Mounted[s]}
Own(s)      == <<s, tries[s]>>

\* The command: it writes what it may, and on an executor that cannot enforce
\* a read-only mount, what it may not.
invoke(s) ==
  /\ Ready(s, "run")
  /\ \E ws \in SUBSET Mounted[s] :
       /\ tree' = [w \in Dirs |-> IF w \in ws THEN Own(s) ELSE tree[w]]
       /\ raced' = raced \cup {w \in ws : Snapping(w) # {}}
  /\ snaps' = [snaps EXCEPT ![s] = NoDigests]
  /\ goTo(s, "snap")
  /\ UNCHANGED <<runVars, digestOf, shared, exclusive, queued, tries, seen, todo, heldAt, shell>>

\* snapshotMounts: each tree as it is when its turn comes, read-only ones too.
snapshotMount(s, w) ==
  /\ Ready(s, "snap") /\ w \in Mounted[s] \ DOMAIN snaps[s]
  /\ snaps' = [snaps EXCEPT ![s] = [v \in DOMAIN snaps[s] \cup {w} |->
                                      IF v = w THEN tree[w] ELSE snaps[s][v]]]
  /\ UNCHANGED <<runVars, tree, digestOf, lockVars, wsAt, tries, seen, todo, heldAt, shell, raced>>

\* A read-only mount whose digest moved is an error, and so is a snapshot that
\* could not be taken, which ends them.
breached(s) == \E w \in DOMAIN snaps[s] \ Writable[s] :
                 seen[s][w] # NoDigest /\ seen[s][w] # snaps[s][w]
snapErr(s)  == breached(s) \/ DOMAIN snaps[s] # Mounted[s]

\* Where an attempt goes that ended with ok: cacheSave, a hold, a retry, the
\* on-failure handlers.  The hold of its mounts lasts until runAttempt returns.
letGo(s, ok) ==
  \/ ok /\ unlock(s) /\ UNCHANGED heldAt
        /\ goLocked(s, IF s \in WsCached /\ tries[s] = 1 THEN "save" ELSE "always")
  \/ ~ok /\ heldAt' = [heldAt EXCEPT ![s] = tries[s]] /\ goTo(s, "held")
         /\ UNCHANGED <<shared, exclusive, queued>>
  \/ ~ok /\ unlock(s) /\ UNCHANGED heldAt /\ retryOrSettle(s, tries[s])

\* runAttempt's locals go with it.  What the attempt wrote and leaves
\* unrecorded, the recorded digest no longer describes.
ForgetAttempt(s, recorded) ==
  /\ seen' = [seen EXCEPT ![s] = NoDigests] /\ snaps' = [snaps EXCEPT ![s] = NoDigests]
  /\ raced' = raced \cup {w \in Mounted[s] \ recorded : tree[w] = Own(s)}

\* record: the snapshots become the workspaces' digests.  A failed command is
\* recorded whatever its snapshots raised, as far as they were taken.
wsRecord(s) ==
  /\ Ready(s, "snap")
  /\ digestOf' = [w \in Dirs |-> IF w \in DOMAIN snaps[s] THEN snaps[s][w] ELSE digestOf[w]]
  /\ \E ok \in BOOLEAN : (ok => ~snapErr(s)) /\ letGo(s, ok)
  /\ ForgetAttempt(s, DOMAIN snaps[s])
  /\ UNCHANGED <<runVars, tree, tries, todo, shell>>

\* An error turns a passing command into a failed attempt that records nothing
\* and that --break-on-failure does not hold.
refuseSnapshots(s) ==
  /\ Ready(s, "snap") /\ snapErr(s)
  /\ unlock(s) /\ retryOrSettle(s, tries[s]) /\ ForgetAttempt(s, {})
  /\ UNCHANGED <<runVars, tree, digestOf, tries, todo, heldAt, shell>>

\* breakpoint.clear, or the run's cancellation, lets a held step go.
Release(s) ==
  /\ Ready(s, "held")
  /\ heldAt' = [heldAt EXCEPT ![s] = 0] /\ unlock(s) /\ retryOrSettle(s, tries[s])
  /\ UNCHANGED <<runVars, tree, digestOf, tries, seen, snaps, todo, shell, raced>>

\* cacheSave reads the outputs, and execHandler runs its command on read-only
\* mounts, each under a shared hold of its own.
cacheSaveHold(s) ==
  /\ Ready(s, "save") /\ unlock(s) /\ goLocked(s, "always")
  /\ UNCHANGED <<runVars, tree, digestOf, tries, seen, snaps, todo, heldAt, shell, raced>>

execHandler(s) ==
  /\ Ready(s, "always") /\ unlock(s) /\ goTo(s, "done")
  /\ UNCHANGED <<runVars, tree, digestOf, tries, seen, snaps, todo, heldAt, shell, raced>>

\* ws.snapshot on a step not yet dispatched: it is marked running, captured
\* under a shared hold and given back; nothing is recorded.  One per step.
handleSnapshot(s) ==
  /\ Ready(s, "new") /\ goLocked(s, "capture")
  /\ UNCHANGED <<runVars, tree, digestOf, shared, exclusive, queued, tries, seen, snaps, todo,
                 heldAt, shell, raced>>

forceSnapshot(s) ==
  /\ Ready(s, "capture") /\ unlock(s) /\ goTo(s, "captured")
  /\ UNCHANGED <<runVars, tree, digestOf, tries, seen, snaps, todo, heldAt, shell, raced>>

-----------------------------------------------------------------------------
(* Shell sessions.                                                          *)

\* The directories that are not there.
Torn(s) == {w \in Mounted[s] : tree[w] = Gone}

\* dispatchShell and the token of the step's hold, asked for up to twice.
AskToken(a, n) ==
  LET held == heldAt[ShellOn[a]] IN
  IF held # 0 /\ n < 2
    THEN /\ shell' = [shell EXCEPT ![a] = [token |-> held, reads |-> n + 1, torn |-> {}]]
         /\ goTo(a, "covered")
    ELSE shell' = [shell EXCEPT ![a] = NoShell] /\ goLocked(a, "reading")

dispatchShell(a) ==
  /\ Ready(a, "new") /\ AskToken(a, 0)
  /\ UNCHANGED <<runVars, tree, digestOf, shared, exclusive, queued, tries, seen, snaps, todo,
                 heldAt, raced>>

\* handlerMounts without a hold of its own ...
readCovered(a) ==
  /\ Ready(a, "covered")
  /\ shell' = [shell EXCEPT ![a].torn = Torn(ShellOn[a])]
  /\ goTo(a, "check")
  /\ UNCHANGED <<runVars, tree, digestOf, shared, exclusive, queued, tries, seen, snaps, todo,
                 heldAt, raced>>

\* ... is taken only when the same hold was there before and after it.
stillHeld(a) == heldAt[ShellOn[a]] = shell[a].token

checkCovered(a) ==
  /\ Ready(a, "check")
  /\ IF stillHeld(a)
       THEN goTo(a, "realise") /\ shell' = [shell EXCEPT ![a] = [NoShell EXCEPT !.torn = shell[a].torn]]
       ELSE AskToken(a, shell[a].reads)
  /\ UNCHANGED <<runVars, tree, digestOf, shared, exclusive, queued, tries, seen, snaps, todo,
                 heldAt, raced>>

readLocked(a) ==
  /\ Ready(a, "reading")
  /\ shell' = [shell EXCEPT ![a].torn = Torn(ShellOn[a])]
  /\ unlock(a) /\ goTo(a, "realise")
  /\ UNCHANGED <<runVars, tree, digestOf, tries, seen, snaps, todo, heldAt, raced>>

\* The sandbox realises the mounts: an executor with a file system of its own
\* copies the directories now, and this is outside every hold.
realise(a) ==
  /\ Ready(a, "realise")
  /\ \/ goTo(a, "open") /\ shell' = [shell EXCEPT ![a] = [NoShell EXCEPT !.torn = Torn(ShellOn[a])]]
     \/ goTo(a, "done") /\ shell' = [shell EXCEPT ![a] = NoShell]   \* sandbox_failed, executor_no_shell
  /\ UNCHANGED <<runVars, tree, digestOf, shared, exclusive, queued, tries, seen, snaps, todo,
                 heldAt, raced>>

\* The command ended, the client went away, or the run ended the session.
closeShell(a) ==
  /\ Ready(a, "open") /\ goTo(a, "done")
  /\ shell' = [shell EXCEPT ![a] = NoShell]
  /\ UNCHANGED <<runVars, tree, digestOf, shared, exclusive, queued, tries, seen, snaps, todo,
                 heldAt, raced>>

\* closeShells, then releasePersistent: the run ends once its steps are done
\* and its sessions have closed or used up their grace.
endRun ==
  /\ phase = "run" /\ \A s \in WsSteps : wsAt[s] = "done"
  /\ phase' = "ended" /\ wsLeases' = {}
  /\ UNCHANGED <<left, tree, digestOf, lockVars, wsAt, tries, seen, snaps, todo, heldAt, shell, raced>>

RunOver == phase \in {"ended", "refused"} /\ UNCHANGED wsVars

StepMoves(s) ==
  \/ Dispatch(s) \/ hashInputs(s) \/ serveFromCache(s) \/ prepareAttempt(s) \/ StopService(s)
  \/ \E w \in Dirs : restoreClear(s, w) \/ restorePlace(s, w) \/ snapshotMount(s, w)
  \/ invoke(s) \/ wsRecord(s) \/ refuseSnapshots(s) \/ Release(s)
  \/ cacheSaveHold(s) \/ execHandler(s) \/ forceSnapshot(s)

ShellMoves(a) ==
  readCovered(a) \/ checkCovered(a) \/ readLocked(a) \/ realise(a) \/ closeShell(a)

WorkspacesNext ==
  \/ \E w \in Dirs : lease(w) \/ makeDir(w)
  \/ openPersistent
  \/ phase = "run" /\ \E a \in Actors : TakeShared(a) \/ TakeExclusive(a)
  \/ \E s \in WsSteps : StepMoves(s) \/ handleSnapshot(s)
  \/ \E a \in Sessions : ShellMoves(a) \/ dispatchShell(a)
  \/ endRun \/ RunOver

\* Goroutines run, commands end and holds are released; RWMutex lets a waiter
\* in.  A session may stay open for ever.
WorkspacesFairness ==
  /\ \A a \in Actors : WF_wsVars(phase = "run" /\ (TakeShared(a) \/ TakeExclusive(a)))
  /\ \A s \in WsSteps : WF_wsVars(StepMoves(s))
  /\ \A a \in Sessions : WF_wsVars(readCovered(a) \/ checkCovered(a) \/ readLocked(a))
  /\ WF_wsVars(endRun)

WorkspacesSpec == WorkspacesInit /\ [][WorkspacesNext]_wsVars /\ WorkspacesFairness

-----------------------------------------------------------------------------
(* Properties.                                                              *)

Using(s) == wsAt[s] \in {"hash", "mount", "run", "snap", "held", "save", "always", "capture"}
            /\ want[s] = {}

\* Nobody works in a directory while a cache hit has removed it and not yet
\* put its restored tree in place, and a session never takes the mounts it
\* read without a hold unless one hold covered the whole read (shell.go:272,
\* workspaces.go:870).
TreesAreWhole ==
  /\ \A s \in WsSteps : Using(s) /\ phase = "run" => \A w \in Mounted[s] : tree[w] # Gone
  /\ \A a \in Sessions : wsAt[a] = "realise" => shell[a].torn = {}

WsQuiet(w) == exclusive[w] = Nobody /\ Snapping(w) = {}

\* When no attempt is between its command and its record, what the next key and
\* the next read-only check compare with is what the directory holds, unless
\* it was written while another attempt's snapshots were being taken (the last
\* writer wins) or its writer recorded nothing.
DigestDescribesTree ==
  \A w \in Dirs : phase = "run" /\ WsQuiet(w) /\ w \notin raced /\ digestOf[w] # NoDigest
                    => digestOf[w] = tree[w]

\* A step works in whole directories, and what is recorded of a directory
\* nobody works in is what it holds (workspaces.go:40, :870).
WorkspacesHold == TreesAreWhole /\ DigestDescribesTree

\* The same with no exception: "wsManager owns a run's
\* workspace directories and their current digests" (workspaces.go:40), the
\* last writer winning.
RecordedIsCurrent ==
  \A w \in Dirs : phase = "ended" /\ digestOf[w] # NoDigest
                    => digestOf[w] = tree[w]

\* engine.go:343: "Leased persistent workspaces are given back on every path
\* out of Run, including pre-step failures."
LeasesGivenBack == phase \in {"ended", "refused"} => wsLeases = {}

\* shell.go:49: a session "holds a workspace lock only across reading and
\* realizing the mounts", so what it realises is a whole tree.
SessionsSeeWholeTrees == \A a \in Sessions : wsAt[a] = "open" => shell[a].torn = {}

\* Every step settles, whatever restores, holds and sessions wait for the same
\* workspaces.
StepsSettle == (phase = "run") ~> (phase = "ended")
=============================================================================
