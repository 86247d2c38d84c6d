----------------------------- MODULE FuncRemote -----------------------------
(***************************************************************************)
(* Go functions run off the coordinator: the binary is provisioned once    *)
(* per platform, staged, and re-entered over there as a step child that    *)
(* greets, forwards its function's output and reports one result, all as   *)
(* frames on a connection that can be cut at any of them.                  *)
(***************************************************************************)
EXTENDS Naturals, Sequences, SequencesExt

CONSTANTS
  Calls,      \* attempts of func steps on other executors
  Generated,  \* the ones whose step a generator attached: no check at the start saw them
  Followed,   \* the ones modelled past their staging and with a deadline, to bound the state space
  PlatformOf, \* what each one's target is
  Self        \* the coordinator's own platform

ASSUME FuncAssumption == Generated \subseteq Calls /\ Followed \subseteq Calls /\ PlatformOf \in [Calls -> STRING]

VARIABLES
  fat,      \* per call: where invokeRemote, or the check at the start, is
  fctx,     \* the attempt's context is done
  bins,     \* Provisioner.done: "none", "ok", "error" per platform
  lockedBy, \* who holds Provisioner.mu: {} or one call
  built,    \* cross-built binaries in the cache directory, by platform
  compiled, \* how often this coordinator compiled for a platform
  onHost,   \* the file at the digest's path on each call's target: "none", "ours", "other"
  childImage,    \* what the child was started from
  childAt,  \* "none", "started", "greeted", "called", "returned", "gone"
  childAnswered, \* what the function came to: "none", "ok", "failed", "panicked", "infra", "huge"
  wire,     \* frames under way
  heard,    \* childOutcome: what pump took off the wire
  exitErr,  \* RunInteractive came back: "no", "exit" (an exit code), "error"
  fverdict  \* what invokeRemote returned: "none" or a verdict

funcVars == <<fat, fctx, bins, lockedBy, built, compiled, onHost, childImage, childAt, childAnswered, wire, heard, exitErr, fverdict>>
provVars  == <<bins, lockedBy, built, compiled>>
childVars == <<childImage, childAt, childAnswered, wire>>

Platforms == {PlatformOf[c] : c \in Calls}

FuncInit ==
  /\ fat = [c \in Calls |-> IF c \in Generated THEN "later" ELSE "check"]
  /\ fctx = [c \in Calls |-> FALSE]
  /\ bins = [p \in Platforms |-> "none"] /\ lockedBy = {}
  /\ built \in SUBSET (Platforms \ {Self}) /\ compiled = [p \in Platforms |-> 0]
  /\ onHost = [c \in Calls |-> "none"] /\ childImage = [c \in Calls |-> "none"]
  /\ childAt = [c \in Calls |-> "none"] /\ childAnswered = [c \in Calls |-> "none"]
  /\ wire = [c \in Calls |-> <<>>]
  /\ heard = [c \in Calls |-> {}] /\ exitErr = [c \in Calls |-> "no"]
  /\ fverdict = [c \in Calls |-> "none"]

\* The executor may not stage binaries, or not know its platform.
Refuse(c) ==
  /\ fat[c] \in {"check", "provision"} /\ c \notin lockedBy
  /\ fat' = [fat EXCEPT ![c] = "settled"] /\ fverdict' = [fverdict EXCEPT ![c] = "refused"]
  /\ UNCHANGED <<fctx, provVars, onHost, childVars, heard, exitErr>>

-----------------------------------------------------------------------------
(* Provisioner.For, under its mutex.                                       *)

\* What a finished For leads to: the check moves on, invokeRemote stages.
Provisioned(c, ok) ==
  /\ fat' = [fat EXCEPT ![c] = CASE ~ok -> "settled" [] ok /\ fat[c] = "check" -> "later" [] OTHER -> "stage"]
  /\ fverdict' = [fverdict EXCEPT ![c] = IF ok THEN @ ELSE "refused"]

\* Mutant: For looks at the memo before it takes the lock.
ForUnlocked(c) ==
  /\ fat[c] \in {"check", "provision"} /\ c \notin lockedBy
  /\ LET p == PlatformOf[c] IN
     IF bins[p] # "none" THEN Provisioned(c, bins[p] = "ok") /\ UNCHANGED lockedBy
     ELSE lockedBy' = lockedBy \cup {c} /\ UNCHANGED <<fat, fverdict>>
  /\ UNCHANGED <<fctx, bins, built, compiled, onHost, childVars, heard, exitErr>>

For(c) ==
  /\ fat[c] \in {"check", "provision"} /\ lockedBy = {}
  /\ LET p == PlatformOf[c] IN
     IF bins[p] # "none" THEN Provisioned(c, bins[p] = "ok") /\ UNCHANGED lockedBy
     ELSE lockedBy' = {c} /\ UNCHANGED <<fat, fverdict>>
  /\ UNCHANGED <<fctx, bins, built, compiled, onHost, childVars, heard, exitErr>>

\* provision: this binary as it is; one published before; or checkCgo, a build
\* into a temporary file and a rename. The outcome is kept either way, a build
\* that a done context stopped included.
provision(c) ==
  LET p == PlatformOf[c]
      compiles == p # Self /\ p \notin built
  IN /\ c \in lockedBy /\ lockedBy' = lockedBy \ {c}
     /\ \E ok \in IF compiles /\ fctx[c] THEN {FALSE} ELSE BOOLEAN :
          /\ bins' = [bins EXCEPT ![p] = IF ok THEN "ok" ELSE "error"]
          /\ built' = IF ok /\ compiles THEN built \cup {p} ELSE built
          /\ Provisioned(c, ok)
     /\ compiled' = [compiled EXCEPT ![p] = IF compiles THEN @ + 1 ELSE @]
     /\ UNCHANGED <<fctx, onHost, childVars, heard, exitErr>>

-----------------------------------------------------------------------------
(* invokeRemote.                                                           *)

\* The scheduler dispatches the step, unless a check refused the run.
invokeRemote(c) ==
  /\ fat[c] = "later" /\ \A d \in Calls \ Generated : fat[d] # "check" /\ fverdict[d] # "refused"
  /\ fat' = [fat EXCEPT ![c] = "provision"]
  /\ UNCHANGED <<fctx, provVars, onHost, childVars, heard, exitErr, fverdict>>

\* stage: a file already at the digest's path is reused.
stage(c) ==
  /\ fat[c] = "stage"
  /\ \/ /\ fat' = [fat EXCEPT ![c] = "run"] /\ UNCHANGED fverdict
        /\ onHost' = [onHost EXCEPT ![c] = IF @ = "none" THEN "ours" ELSE @]
     \/ /\ fat' = [fat EXCEPT ![c] = "settled"] /\ fverdict' = [fverdict EXCEPT ![c] = "infra"]
        /\ UNCHANGED onHost
  /\ UNCHANGED <<fctx, provVars, childVars, heard, exitErr>>

\* Something replaces the staged file.
Replace(c) ==
  /\ c \in Followed /\ fat[c] = "run" /\ onHost[c] = "ours" /\ onHost' = [onHost EXCEPT ![c] = "other"]
  /\ UNCHANGED <<fat, fctx, provVars, childVars, heard, exitErr, fverdict>>

\* RunInteractive starts the binary, the state on its stdin.
StartChild(c) ==
  /\ fat[c] = "run" /\ c \in Followed /\ ~fctx[c] /\ fat' = [fat EXCEPT ![c] = "running"]
  /\ childAt' = [childAt EXCEPT ![c] = "started"] /\ childImage' = [childImage EXCEPT ![c] = onHost[c]]
  /\ UNCHANGED <<fctx, provVars, onHost, childAnswered, wire, heard, exitErr, fverdict>>

\* RunInteractive comes back with the child's exit code, or with an error: the
\* context is done, nothing could be started, or the connection is lost with
\* the frames that were still under way.
runReturns(c) ==
  /\ exitErr[c] = "no"
  /\ \/ /\ fat[c] = "running" /\ childAt[c] = "gone"
        /\ exitErr' = [exitErr EXCEPT ![c] = "exit"] /\ UNCHANGED <<fat, wire>>
     \/ /\ fat[c] = "running" \/ (fat[c] = "run" /\ c \in Followed)
        /\ fat' = [fat EXCEPT ![c] = "running"] /\ exitErr' = [exitErr EXCEPT ![c] = "error"]
        /\ \E n \in 0..Len(wire[c]) : wire' = [wire EXCEPT ![c] = SubSeq(@, 1, n)]
  /\ UNCHANGED <<fctx, provVars, onHost, childImage, childAt, childAnswered, heard, fverdict>>

\* pump: one frame off the wire.
pump(c) ==
  /\ fat[c] = "running" /\ wire[c] # <<>>
  /\ heard' = [heard EXCEPT ![c] = @ \cup {Head(wire[c])}] /\ wire' = [wire EXCEPT ![c] = Tail(@)]
  /\ UNCHANGED <<fat, fctx, provVars, onHost, childImage, childAt, childAnswered, exitErr, fverdict>>

\* pumped: the writing end is closed and every frame before that was read.
Pumped(c) == exitErr[c] # "no" /\ wire[c] = <<>>

Reported(c) == CHOOSE r \in {"ok", "failed", "panicked", "infra", "late"} : r \in heard[c]
FuncOutcome(c) ==
  CASE "other" \in heard[c] -> "skew"
    [] /\ "other" \notin heard[c]
       /\ "ours" \notin heard[c] \/ heard[c] \cap {"ok", "failed", "panicked", "infra", "late"} = {} -> "infra"
    [] OTHER -> Reported(c)

\* Mutant: the outcome is read as soon as RunInteractive is back.
SettleUnpumped(c) ==
  /\ fat[c] = "running" /\ exitErr[c] # "no" /\ fat' = [fat EXCEPT ![c] = "settled"]
  /\ fverdict' = [fverdict EXCEPT ![c] = FuncOutcome(c)]
  /\ UNCHANGED <<fctx, provVars, onHost, childVars, heard, exitErr>>

settleChild(c) ==
  /\ fat[c] = "running" /\ Pumped(c) /\ fat' = [fat EXCEPT ![c] = "settled"]
  /\ fverdict' = [fverdict EXCEPT ![c] = FuncOutcome(c)]
  /\ UNCHANGED <<fctx, provVars, onHost, childVars, heard, exitErr>>

\* The step's deadline, or the run's cancellation.
Expire(c) ==
  /\ c \in Followed /\ fat[c] \notin {"check", "later", "settled"} /\ ~fctx[c] /\ fctx' = [fctx EXCEPT ![c] = TRUE]
  /\ UNCHANGED <<fat, provVars, onHost, childVars, heard, exitErr, fverdict>>

-----------------------------------------------------------------------------
(* The step child.                                                         *)

\* A frame reaches the coordinator while the connection holds.
Sends(c, f) == wire' = [wire EXCEPT ![c] = IF exitErr[c] # "no" THEN @ ELSE Append(@, f)]

\* checkArgs, ReadState; a main that parses its own flags never gets here.
Misfit(c) ==
  /\ childAt[c] = "started" /\ childAt' = [childAt EXCEPT ![c] = "gone"]
  /\ UNCHANGED <<fat, fctx, provVars, onHost, childImage, childAnswered, wire, heard, exitErr, fverdict>>

WriteHello(c) ==
  /\ childAt[c] = "started" /\ childAt' = [childAt EXCEPT ![c] = "greeted"] /\ Sends(c, childImage[c])
  /\ UNCHANGED <<fat, fctx, provVars, onHost, childImage, childAnswered, heard, exitErr, fverdict>>

\* invoke: the function runs in a goroutine of its own; its output
\* frames, which change nothing here, are left out.
invoke(c) ==
  /\ childAt[c] = "greeted" /\ childAt' = [childAt EXCEPT ![c] = "called"]
  /\ UNCHANGED <<fat, fctx, provVars, onHost, childImage, childAnswered, wire, heard, exitErr, fverdict>>

\* funcs.Invoke: no such name is a failure, a panic is recovered; "huge" is a
\* failure whose text does not fit a frame.
Invoke(c) ==
  /\ childAt[c] = "called" /\ childAt' = [childAt EXCEPT ![c] = "returned"]
  /\ \E o \in {"ok", "failed", "panicked", "infra", "huge"} : childAnswered' = [childAnswered EXCEPT ![c] = o]
  /\ UNCHANGED <<fat, fctx, provVars, onHost, childImage, wire, heard, exitErr, fverdict>>

\* Mutant: whatever the function returned is reported as success.
ReportOk(c) ==
  /\ childAt[c] = "returned" /\ childAt' = [childAt EXCEPT ![c] = "gone"]
  /\ Sends(c, "ok")
  /\ UNCHANGED <<fat, fctx, provVars, onHost, childImage, childAnswered, heard, exitErr, fverdict>>

\* write: the result frame, which WriteFrame refuses past MaxPayload.
write(c) ==
  /\ childAt[c] = "returned" /\ childAt' = [childAt EXCEPT ![c] = "gone"]
  /\ IF childAnswered[c] = "huge" THEN UNCHANGED wire ELSE Sends(c, childAnswered[c])
  /\ UNCHANGED <<fat, fctx, provVars, onHost, childImage, childAnswered, heard, exitErr, fverdict>>

\* The child's own deadline; halt ends the process whatever the function does,
\* and a function that returns at that moment is not looked at.
selfTimeout(c) ==
  /\ childAt[c] \in {"called", "returned"} /\ childAt' = [childAt EXCEPT ![c] = "gone"]
  /\ Sends(c, "late")
  /\ UNCHANGED <<fat, fctx, provVars, onHost, childImage, childAnswered, heard, exitErr, fverdict>>

\* The process is killed, by the executor or by the machine it is on.
ChildDies(c) ==
  /\ childAt[c] \in {"started", "greeted", "called", "returned"} /\ childAt' = [childAt EXCEPT ![c] = "gone"]
  /\ UNCHANGED <<fat, fctx, provVars, onHost, childImage, childAnswered, wire, heard, exitErr, fverdict>>

FuncStep(c) ==
  \/ Refuse(c) \/ For(c) \/ provision(c) \/ invokeRemote(c) \/ stage(c) \/ Replace(c) \/ StartChild(c)
  \/ runReturns(c) \/ pump(c) \/ settleChild(c) \/ Expire(c)
  \/ Misfit(c) \/ WriteHello(c) \/ invoke(c) \/ Invoke(c) \/ write(c) \/ selfTimeout(c) \/ ChildDies(c)
FuncNext == \E c \in Calls : FuncStep(c)
FuncSpec == FuncInit /\ [][FuncNext]_funcVars

-----------------------------------------------------------------------------
(* What must hold.                                                         *)

\* The verdict the engine settles the step with is the function's own whenever
\* one arrived: success only from a function that returned nil in the binary
\* this coordinator staged; a retryable error only when the function asked for
\* it or no result was left to read; a replaced binary that greeted is never a
\* retryable error; and no platform is compiled for twice.
FuncVerdict ==
  /\ \A c \in Calls : fat[c] = "settled" =>
       /\ fverdict[c] \in {"ok", "panicked", "failed"} => childAnswered[c] = fverdict[c] /\ childImage[c] = "ours"
       /\ fverdict[c] = "infra" => childAnswered[c] = "infra" \/ (\A f \in ToSet(wire[c]) : f \in {"ours", "other"})
       /\ "other" \in heard[c] => fverdict[c] = "skew"
  /\ \A p \in Platforms : compiled[p] <= 1

\* "senro refuses to run a step on a binary it cannot identify": a child of
\* another digest does not run the function.
UnidentifiedNeverRuns == \A c \in Calls : childImage[c] = "other" => childAt[c] \notin {"called", "returned"}
=============================================================================
