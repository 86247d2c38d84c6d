------------------------------- MODULE Scratch -------------------------------
(***************************************************************************)
(* One scratch cache in one run: restored once for its first user, mounted *)
(* by steps on the coordinator and on other machines, read back from the   *)
(* ones that ran elsewhere, and stored at the end of a run that succeeded. *)
(* A tree is the set of steps whose work is in it.                         *)
(***************************************************************************)
EXTENDS Naturals, FiniteSets

CONSTANTS
  ScSteps,    \* the steps mounting the cache
  Placements, \* the sets of steps that may have their mounts on another machine
  ScNeeds     \* step -> the steps that end before it starts (ancestors)

ASSUME ScratchSetting ==
  /\ {"warm", "missing", "no tree"} \cap ScSteps = {}
  /\ Placements \subseteq SUBSET ScSteps /\ ScNeeds \in [ScSteps -> SUBSET ScSteps]

\* A step elsewhere and any other user of a cache that is handed over are in
\* an order.  validateScratchTargets demands it of a step elsewhere and one
\* on the coordinator, and not of two steps elsewhere.
RemoteUsersOrdered ==
  \A P \in Placements : P # {} /\ ScSteps \ P # {} =>
    \A r \in P, s \in ScSteps : r = s \/ r \in ScNeeds[s] \/ s \in ScNeeds[r]

VARIABLES
  elsewhere, \* the steps whose mounts are (plan.Node.RemoteMounts)
  sdir,      \* the coordinator's directory
  scratchDone, scratchExact,   \* restored already; from the exact key
  scratchRemote,               \* a remote step has mounted it
  scratchSwapped, scratchRead, \* read back in place; read back aside
  away,      \* step -> the tree on its machine
  staged,    \* step -> the tree it has read back and not yet swapped in
  spc,       \* step -> where it is
  passed,    \* the steps whose attempt succeeded
  saved, unread                \* what saveScratch stored, or recorded as unread

scratchVars == <<elsewhere, sdir, scratchDone, scratchExact, scratchRemote, scratchSwapped, scratchRead,
                 away, staged, spc, passed, saved, unread>>

NoTree == {"no tree"}
Missing == {"missing"}

\* The caches some step here and some step elsewhere mounts.
handoffScratch == elsewhere # {} /\ ScSteps \ elsewhere # {}

ScratchInit ==
  /\ elsewhere \in Placements
  /\ sdir = Missing /\ scratchDone = FALSE /\ scratchExact = FALSE
  /\ scratchRemote = FALSE /\ scratchSwapped = FALSE /\ scratchRead = NoTree
  /\ away = [s \in ScSteps |-> NoTree] /\ staged = [s \in ScSteps |-> NoTree]
  /\ spc = [s \in ScSteps |-> "new"] /\ passed = {} /\ saved = NoTree /\ unread = FALSE

ScGo(s, p) == spc' = [spc EXCEPT ![s] = p]

\* ensureScratch: under the manager's mutex, so the second step waits for the
\* first one's restore; a restore that misses or fails leaves it empty.
ensureScratch ==
  IF scratchDone THEN UNCHANGED <<elsewhere, scratchDone, sdir, scratchExact>>
  ELSE /\ scratchDone' = TRUE
       /\ \/ sdir' = {} /\ scratchExact' = FALSE
          \/ sdir' = {"warm"} /\ scratchExact' \in BOOLEAN

\* scratchMounts, and the executor's staging for a step that runs elsewhere.
scratchMounts(s) ==
  /\ spc[s] = "new" /\ saved = NoTree /\ ~unread
  /\ handoffScratch => \A d \in ScNeeds[s] : spc[d] = "ended"
  /\ ensureScratch
  /\ scratchRemote' = (scratchRemote \/ s \in elsewhere)
  /\ away' = [away EXCEPT ![s] = IF s \in elsewhere THEN sdir' ELSE @]
  /\ ScGo(s, "run")
  /\ UNCHANGED <<elsewhere, scratchSwapped, scratchRead, staged, passed, saved, unread>>

\* The command fills the tree it was given; only a success is read back.
runCommand(s) ==
  /\ spc[s] = "run"
  /\ IF s \in elsewhere THEN away' = [away EXCEPT ![s] = @ \cup {s}] /\ sdir' = sdir
     ELSE sdir' = sdir \cup {s} /\ away' = away
  /\ \/ passed' = passed \cup {s} /\ ScGo(s, IF s \in elsewhere THEN "read" ELSE "ended")
     \/ passed' = passed /\ ScGo(s, "ended")
  /\ UNCHANGED <<elsewhere, scratchDone, scratchExact, scratchRemote, scratchSwapped, scratchRead, staged,
                 saved, unread>>

\* readScratch: a sandbox that cannot read, no staging directory or a failed
\* read leave everything as it was; an unshared cache is kept aside, newest
\* first.
readScratch(s) ==
  /\ spc[s] = "read"
  /\ \/ ScGo(s, "ended") /\ UNCHANGED <<elsewhere, staged, scratchRead>>
     \/ /\ ~handoffScratch
        /\ scratchRead' = away[s] /\ staged' = staged /\ ScGo(s, "ended")
     \/ /\ handoffScratch
        /\ staged' = [staged EXCEPT ![s] = away[s]] /\ scratchRead' = scratchRead
        /\ ScGo(s, "swap")
  /\ UNCHANGED <<elsewhere, sdir, scratchDone, scratchExact, scratchRemote, scratchSwapped, away, passed,
                 saved, unread>>

\* swapScratch: the old tree is moved away, then the new one moved in; a
\* rename that fails puts the old one back.
swapOut(s) ==
  /\ spc[s] = "swap"
  /\ \/ away' = [away EXCEPT ![s] = sdir] /\ sdir' = Missing /\ ScGo(s, "place")
     \/ UNCHANGED <<away, sdir>> /\ ScGo(s, "ended")
  /\ UNCHANGED <<elsewhere, scratchDone, scratchExact, scratchRemote, scratchSwapped, scratchRead, staged,
                 passed, saved, unread>>

swapIn(s) ==
  /\ spc[s] = "place"
  /\ \/ sdir' = staged[s] /\ scratchSwapped' = TRUE
     \/ sdir' = away[s] /\ scratchSwapped' = scratchSwapped
  /\ ScGo(s, "ended")
  /\ UNCHANGED <<elsewhere, scratchDone, scratchExact, scratchRemote, scratchRead, away, staged, passed,
                 saved, unread>>

\* What may be stored: the shared directory once a remote step's tree is in
\* it, what was read aside, or the directory no remote step has used.
AnyTree == sdir
saveSource ==
  CASE handoffScratch -> IF scratchSwapped THEN sdir ELSE NoTree
    [] scratchRemote /\ ~handoffScratch -> scratchRead
    [] OTHER -> sdir

\* saveScratch, once, after the outcome is known.  Every step of a run that
\* succeeded has ended.
saveScratch ==
  /\ scratchDone /\ saved = NoTree /\ ~unread /\ \A s \in ScSteps : spc[s] = "ended"
  /\ passed = ScSteps /\ ~scratchExact
  /\ IF saveSource = NoTree THEN unread' = TRUE /\ saved' = saved
     ELSE saved' = saveSource /\ unread' = unread
  /\ scratchRead' = NoTree
  /\ UNCHANGED <<elsewhere, sdir, scratchDone, scratchExact, scratchRemote, scratchSwapped, away, staged,
                 spc, passed>>

ScratchDone == (\A s \in ScSteps : spc[s] = "ended") /\ UNCHANGED scratchVars

ScratchNext ==
  \/ \E s \in ScSteps : scratchMounts(s) \/ runCommand(s) \/ readScratch(s) \/ swapOut(s) \/ swapIn(s)
  \/ saveScratch \/ ScratchDone

ScratchSpec == ScratchInit /\ [][ScratchNext]_scratchVars

\* What a later run is given is never the tree that was only sent out: it
\* holds the work of every step on the coordinator and, once a remote step
\* mounted the cache, of a remote step that was read back (workspaces.go:104,
\* 117).  No step is ever given a directory a swap has moved away.
StoredIsUsed ==
  /\ saved # NoTree =>
       /\ saved # Missing /\ ScSteps \ elsewhere \subseteq saved
       /\ scratchRemote => saved \cap elsewhere # {}
  /\ \A s \in ScSteps : spc[s] = "run" => sdir # Missing /\ away[s] # Missing
=============================================================================
