------------------------------ MODULE ImageLock ------------------------------
(***************************************************************************)
(* senro.lock: the file that pins every image a plan names by tag to the   *)
(* digest its tag pointed at. Writing and checking it ask the registry     *)
(* about one image after another while tags move and the plan is edited;   *)
(* a run under it uses the pins and asks nobody.                           *)
(***************************************************************************)
EXTENDS Naturals, FiniteSets

CONSTANTS
  Tags,     \* images a pipeline can name by tag
  Digests,  \* what a tag can point at
  Pinned,   \* images a pipeline names by digest
  Edits     \* times a tag moves or the plan is edited (bound)

VARIABLES
  registry, \* tag -> the digest it points at
  images,   \* the images the plan's container steps name
  fileIs,   \* the file: "none", "other" (a version this build does not read), "read"
  lockFile, \* what it records: tag -> digest
  lockMode, \* the command under way: "none", "write", "check"
  toResolve,  \* images it has yet to resolve
  resolved, \* tag -> digest, as resolved so far
  lockVerdict,  \* what the last command returned: "none", "written", "same", "drift", "error", "pinned", "refused"
  ran,      \* image -> what the last run's executors were built with
  moved,    \* a tag moved or the plan was edited while the command ran
  edits

imageLockVars == <<registry, images, fileIs, lockFile, lockMode, toResolve, resolved, lockVerdict, ran, moved, edits>>

Empty == [t \in {} |-> 0]

LockInit ==
  /\ registry \in [Tags -> Digests] /\ images \in SUBSET (Tags \cup Pinned)
  /\ fileIs \in {"none", "other"} /\ lockFile = Empty /\ lockMode = "none" /\ toResolve = {} /\ resolved = Empty
  /\ lockVerdict = "none" /\ ran = Empty /\ moved = FALSE /\ edits = 0

\* lockable: an image named by digest needs no pin.
lockable(i) == i \in Tags

\* lockImages: what the plan names by tag, once each.
lockImages == {i \in images : lockable(i)}

\* lock.Read: a file, of the version this build reads.
Readable == fileIs = "read"

\* File.Pinned: an image named by digest is its own pin.
PinnedAt(i, f) == IF lockable(i) THEN f[i] ELSE i

\* SENRO_LOCK_WRITE, SENRO_LOCK_CHECK: the check reads the file first.
BeginLock(mode) ==
  /\ lockMode = "none" /\ (mode = "check" => Readable)
  /\ lockMode' = mode /\ toResolve' = lockImages /\ resolved' = Empty /\ moved' = FALSE /\ lockVerdict' = "none"
  /\ UNCHANGED <<registry, images, fileIs, lockFile, ran, edits>>
CheckNothing ==
  /\ lockMode = "none" /\ ~Readable /\ lockVerdict' = "error"
  /\ UNCHANGED <<registry, images, fileIs, lockFile, lockMode, toResolve, resolved, ran, moved, edits>>

\* resolveLock: ResolveTag of each image in turn.
ResolveTag(i) ==
  /\ lockMode # "none" /\ i \in toResolve /\ toResolve' = toResolve \ {i}
  /\ resolved' = [j \in DOMAIN resolved \cup {i} |-> IF j = i THEN registry[i] ELSE resolved[j]]
  /\ UNCHANGED <<registry, images, fileIs, lockFile, lockMode, lockVerdict, ran, moved, edits>>

\* An image that cannot be resolved, or a credential that is not there, ends
\* the command with the file as it was; so does an interrupt, and a crash
\* between the temporary file and the rename.
LockFails ==
  /\ lockMode # "none" /\ lockMode' = "none" /\ lockVerdict' = "error" /\ toResolve' = {}
  /\ UNCHANGED <<registry, images, fileIs, lockFile, resolved, ran, moved, edits>>

\* writeLockMode: the whole file, by rename.
WriteMerged ==
  /\ lockMode = "write" /\ toResolve = {} /\ lockMode' = "none" /\ lockVerdict' = "written"
  /\ fileIs' = "read" /\ lockFile' = [t \in DOMAIN resolved \cup (IF Readable THEN DOMAIN lockFile ELSE {}) |->
                    IF Readable /\ t \in DOMAIN lockFile THEN lockFile[t] ELSE resolved[t]]
  /\ UNCHANGED <<registry, images, toResolve, resolved, ran, moved, edits>>

writeLockMode ==
  /\ lockMode = "write" /\ toResolve = {} /\ lockMode' = "none" /\ lockVerdict' = "written"
  /\ fileIs' = "read" /\ lockFile' = resolved
  /\ UNCHANGED <<registry, images, toResolve, resolved, ran, moved, edits>>

\* checkLockMode: an entry the plan no longer names, and an image the file does
\* not have, are differences too.
CheckNamed ==
  /\ lockMode = "check" /\ toResolve = {} /\ lockMode' = "none"
  /\ lockVerdict' = IF \A t \in DOMAIN resolved : t \in DOMAIN lockFile /\ lockFile[t] = resolved[t] THEN "same" ELSE "drift"
  /\ UNCHANGED <<registry, images, fileIs, lockFile, toResolve, resolved, ran, moved, edits>>

checkLockMode ==
  /\ lockMode = "check" /\ toResolve = {} /\ lockMode' = "none"
  /\ lockVerdict' = IF lockFile = resolved THEN "same" ELSE "drift"
  /\ UNCHANGED <<registry, images, fileIs, lockFile, toResolve, resolved, ran, moved, edits>>

\* applyLock and buildExecutors: every image has a pin, or nothing runs.
ApplyKnown ==
  /\ lockMode = "none" /\ Readable /\ lockVerdict' = "pinned" /\ UNCHANGED moved
  /\ ran' = [i \in images |-> IF i \in DOMAIN lockFile THEN lockFile[i] ELSE IF lockable(i) THEN registry[i] ELSE i]
  /\ UNCHANGED <<registry, images, fileIs, lockFile, lockMode, toResolve, resolved, edits>>

applyLock ==
  /\ lockMode = "none"
  /\ IF Readable /\ lockImages \subseteq DOMAIN lockFile
     THEN ran' = [i \in images |-> PinnedAt(i, lockFile)] /\ lockVerdict' = "pinned"
     ELSE ran' = ran /\ lockVerdict' = "refused"
  /\ UNCHANGED <<registry, images, fileIs, lockFile, lockMode, toResolve, resolved, moved, edits>>

\* The world: a tag moves, the pipeline is edited.
MoveTag(t, d) ==
  /\ edits < Edits /\ edits' = edits + 1 /\ registry[t] # d
  /\ registry' = [registry EXCEPT ![t] = d] /\ moved' = TRUE
  /\ UNCHANGED <<images, fileIs, lockFile, lockMode, toResolve, resolved, lockVerdict, ran>>
EditPlan(i) ==
  /\ edits < Edits /\ edits' = edits + 1 /\ lockMode = "none"
  /\ images' = (IF i \in images THEN images \ {i} ELSE images \cup {i}) /\ moved' = TRUE
  /\ UNCHANGED <<registry, fileIs, lockFile, lockMode, toResolve, resolved, lockVerdict, ran>>

LockNext ==
  \/ \E mode \in {"write", "check"} : BeginLock(mode)
  \/ CheckNothing \/ LockFails \/ writeLockMode \/ checkLockMode \/ applyLock
  \/ \E i \in Tags : ResolveTag(i) \/ \E d \in Digests : MoveTag(i, d)
  \/ \E i \in Tags \cup Pinned : EditPlan(i)

LockSpec == LockInit /\ [][LockNext]_imageLockVars

-----------------------------------------------------------------------------
\* A run under a lock uses exactly what the file records, wherever the tags
\* point by now, and is refused rather than run on an image the file does not
\* have; and when nothing moved meanwhile, what was written is what the
\* registry says and a check tells whether writing again would change the file
\* (run.go:1053, 1169).
LockHolds ==
  /\ lockVerdict = "pinned" => \A i \in DOMAIN ran : IF lockable(i) THEN i \in DOMAIN lockFile /\ ran[i] = lockFile[i] ELSE ran[i] = i
  /\ lockVerdict = "written" /\ ~moved => lockFile = [t \in lockImages |-> registry[t]]
  /\ lockVerdict \in {"same", "drift"} /\ ~moved =>
       (lockVerdict = "same" <=> lockFile = [t \in lockImages |-> registry[t]])
=============================================================================
