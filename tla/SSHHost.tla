------------------------------- MODULE SSHHost -------------------------------
(***************************************************************************)
(* What the ssh executor shares between the attempts on one host: the      *)
(* control master its sessions ride, opened by whoever needs it first and  *)
(* closed with the run, and the step binary staged on the host, which      *)
(* other coordinators stage at the same path.                              *)
(***************************************************************************)
EXTENDS Naturals, FiniteSets

CONSTANTS
  Invokers,     \* goroutines that run ssh commands
  MuxSessions,  \* maxMuxSessions
  Coordinators, \* runs, of this or another machine, that stage one digest
  Opens,        \* times a master is opened (bound)
  Pushes        \* times a binary is pushed (bound)

ASSUME HostAssumption == IsFiniteSet(Invokers) /\ MuxSessions \in Nat

VARIABLES
  inv,       \* invoker -> "idle", "slot", "riding", "direct"
  slots,     \* tokens in m.sessions
  muxUp, muxOff, muxPath, \* m.up, m.off, m.path # ""
  master,    \* "none", "listening", "mute" (no socket), "dead" (exited)
  muxStop,   \* stop: "no", "ok", "failed"
  opened,
  stager,    \* coordinator -> "idle", "push", "staged"
  binary,    \* the file at the digest's path: "none", "part", "whole"
  pushed

muxVars   == <<inv, slots, muxUp, muxOff, muxPath, master, muxStop, opened>>
stageVars == <<stager, binary, pushed>>
hostSharedVars == <<inv, slots, muxUp, muxOff, muxPath, master, muxStop, opened, stager, binary, pushed>>

HostInit ==
  /\ inv = [i \in Invokers |-> "idle"] /\ slots = 0
  /\ muxUp = FALSE /\ muxOff = FALSE /\ muxPath = FALSE
  /\ master = "none" /\ muxStop = "no" /\ opened = 0
  /\ stager = [c \in Coordinators |-> "idle"] /\ binary = "none" /\ pushed = 0

\* acquire: a slot, or a connection of the invocation's own.
acquire(i) ==
  /\ inv[i] = "idle"
  /\ IF slots < MuxSessions THEN slots' = slots + 1 /\ inv' = [inv EXCEPT ![i] = "slot"]
     ELSE slots' = slots /\ inv' = [inv EXCEPT ![i] = "direct"]
  /\ UNCHANGED <<muxUp, muxOff, muxPath, master, muxStop, opened, stageVars>>

\* disable: multiplexing is off for the rest of the run; the slot goes back.
GoDirect(i) == inv' = [inv EXCEPT ![i] = "direct"] /\ slots' = slots - 1

\* resolvePath fails: the operator has a master of their own, or no socket path
\* fits.
resolvePath(i) ==
  /\ ~muxPath /\ muxOff' = TRUE /\ GoDirect(i)
  /\ UNCHANGED <<muxUp, muxPath, master, opened>>

\* open: a new master in the dead one's place, waited for until it listens; one
\* that exits or never listens turns multiplexing off.
open(i) ==
  /\ opened < Opens /\ opened' = opened + 1 /\ muxPath' = TRUE
  /\ \/ master' = "listening" /\ muxUp' = TRUE /\ inv' = [inv EXCEPT ![i] = "riding"] /\ UNCHANGED <<slots, muxOff>>
     \/ master' \in {"dead", "mute"} /\ muxUp' = FALSE /\ muxOff' = TRUE /\ GoDirect(i)

\* ensure, under m.mu: a control path unless the operator has one, the master
\* that answers, or a new one in its place. A master that is alive may yet not
\* answer the dial in time.
ensure(i) ==
  /\ inv[i] = "slot"
  /\ \/ muxOff /\ GoDirect(i) /\ UNCHANGED <<muxUp, muxOff, muxPath, master, opened>>
     \/ ~muxOff /\ resolvePath(i)
     \/ /\ ~muxOff /\ muxUp /\ master = "listening"
        /\ inv' = [inv EXCEPT ![i] = "riding"] /\ UNCHANGED <<slots, muxUp, muxOff, muxPath, master, opened>>
     \/ ~muxOff /\ open(i)
  /\ UNCHANGED <<muxStop, stageVars>>

\* The command ends, or the master under it does; either way the slot is given
\* back.
finish(i) ==
  /\ inv[i] \in {"riding", "direct"}
  /\ inv' = [inv EXCEPT ![i] = "idle"] /\ slots' = IF inv[i] = "riding" THEN slots - 1 ELSE slots
  /\ UNCHANGED <<muxUp, muxOff, muxPath, master, muxStop, opened, stageVars>>

MasterExits ==
  /\ master \in {"listening", "mute"} /\ master' = "dead"
  /\ UNCHANGED <<inv, slots, muxUp, muxOff, muxPath, muxStop, opened, stageVars>>

\* stop, at the run's end: cleanups may still be running ssh commands.
StopForgetting ==
  /\ muxStop = "no"
  /\ muxPath' = FALSE /\ muxUp' = FALSE /\ UNCHANGED muxOff
  /\ IF muxPath /\ muxUp THEN \/ master' = "dead" /\ muxStop' = "ok"
                              \/ master' = master /\ muxStop' = "failed"
     ELSE master' = master /\ muxStop' = "ok"
  /\ UNCHANGED <<inv, slots, opened, stageVars>>

stop ==
  /\ muxStop = "no"
  /\ muxPath' = FALSE /\ muxUp' = FALSE /\ muxOff' = TRUE
  /\ IF muxPath /\ muxUp THEN \/ master' = "dead" /\ muxStop' = "ok"
                              \/ master' = master /\ muxStop' = "failed"
     ELSE master' = master /\ muxStop' = "ok"
  /\ UNCHANGED <<inv, slots, opened, stageVars>>

-----------------------------------------------------------------------------
(* StageBinary: one push at a time within a coordinator, none between them. *)

\* hasStaged: a file of the right size is taken for the binary.
hasStaged(c) ==
  /\ stager[c] = "idle"
  /\ stager' = [stager EXCEPT ![c] = IF binary = "whole" THEN "staged" ELSE "push"]
  /\ UNCHANGED <<muxVars, binary, pushed>>

\* stagePushScript: stdin into a file of its own, then renamed into place. A
\* session that is cut ends the script's stdin, which cat takes for the end of
\* the file; the coordinator sees the failure.
pushBinary(c) ==
  /\ stager[c] = "push" /\ pushed < Pushes /\ pushed' = pushed + 1
  /\ \/ binary' = "whole" /\ stager' = [stager EXCEPT ![c] = "staged"]
     \/ binary' \in {binary, "part", "whole"} /\ stager' = [stager EXCEPT ![c] = "idle"]
  /\ UNCHANGED muxVars

MuxNext == \/ \E i \in Invokers : acquire(i) \/ ensure(i) \/ finish(i)
           \/ MasterExits \/ stop
HostNext == MuxNext \/ \E c \in Coordinators : hasStaged(c) \/ pushBinary(c)
HostSpec == HostInit /\ [][HostNext]_hostSharedVars

-----------------------------------------------------------------------------
\* However commands, the master's exits and Close interleave, a slot is held
\* by exactly the invocations that ride or are about to, and a Close that
\* succeeded leaves no master listening for the rest of the run, the cleanups
\* that still run included (mux.go:352).
MuxIsAccounted ==
  /\ slots = Cardinality({i \in Invokers : inv[i] \in {"slot", "riding"}}) /\ slots <= MuxSessions
  /\ muxStop = "ok" => master # "listening"

\* staging.go:171: "a coordinator that dies mid-push leaves a .senro-staging-
\* file nothing looks for, never a half-written binary at the path a later run
\* will execute".
NeverHalfWritten == binary # "part"
=============================================================================
