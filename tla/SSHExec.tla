------------------------------- MODULE SSHExec -------------------------------
(***************************************************************************)
(* One attempt on a remote host, over ssh sessions any of which can be cut *)
(* while its script runs on: the attempt's directories and the reaper that *)
(* outlives the coordinator, the wrapper that records the command's        *)
(* status, and the verdict a cut session leaves to be read back.           *)
(***************************************************************************)
EXTENDS Naturals, FiniteSets

CONSTANT SshMounts  \* the workspaces the step mounts

VARIABLES
  sat,       \* where the sandbox is
  sdone,     \* the attempt's context is done
  removed,   \* s.removed
  armed,     \* the reaper sleeps on the host
  dirAt,     \* the attempt directory: "none", "made", "gone"
  credAt,    \* a credential on the host: "none", "present", "gone"
  sent,      \* mounts extracted on the host
  proc,      \* the step's command: "none", "running", "done"
  scode,     \* its exit code, 255 included
  statusAt,  \* the status file: "none" or a code
  ssh,       \* the local ssh running the wrapper: "none", "up", "cut", or the code it exited with
  sres,      \* what Run returned: "none", a code, "infra", "notrun"
  sgot       \* mounts read back

sshVars == <<sat, sdone, removed, armed, dirAt, credAt, sent, proc, scode, statusAt, ssh, sres, sgot>>
hostVars == <<armed, dirAt, credAt, sent, proc, scode, statusAt>>

SshCodes == {"0", "1", "255"}

SshInit ==
  /\ sat = "setup" /\ sdone = FALSE /\ removed = FALSE
  /\ armed = FALSE /\ dirAt = "none" /\ credAt = "none" /\ sent = {}
  /\ proc = "none" /\ scode = "none" /\ statusAt = "none" /\ ssh = "none"
  /\ sres = "none" /\ sgot = {}

\* setupScript arms the reaper before it makes anything; a session that fails
\* has got however far it got, and there is then no sandbox to close.
ArmedLast ==
  /\ sat = "setup"
  /\ \/ ~sdone /\ armed' = TRUE /\ dirAt' = "made" /\ sat' = "copy"
     \/ sat' = "failed" /\ \E far \in 0..2 : armed' = (far > 1) /\ dirAt' = IF far > 0 THEN "made" ELSE "none"
  /\ UNCHANGED <<sdone, removed, credAt, sent, proc, scode, statusAt, ssh, sres, sgot>>

setup ==
  /\ sat = "setup"
  /\ \/ ~sdone /\ armed' = TRUE /\ dirAt' = "made" /\ sat' = "copy"
     \/ sat' = "failed" /\ \E far \in 0..2 : armed' = (far > 0) /\ dirAt' = IF far > 1 THEN "made" ELSE "none"
  /\ UNCHANGED <<sdone, removed, credAt, sent, proc, scode, statusAt, ssh, sres, sgot>>

\* copyIn: one tar into each mount's directory; a failure removes the attempt.
SshCopyIn(m) ==
  /\ sat = "copy" /\ m \in SshMounts \ sent
  /\ \/ ~sdone /\ dirAt = "made" /\ sent' = sent \cup {m} /\ UNCHANGED <<sat, sres>>
     \/ sat' = "ran" /\ sres' = "infra" /\ UNCHANGED sent
  /\ UNCHANGED <<sdone, removed, armed, dirAt, credAt, proc, scode, statusAt, ssh, sgot>>

\* PutSecret: the value crosses as stdin into a file of its own directory.
SshPutSecret ==
  /\ sat = "copy" /\ sent = SshMounts /\ credAt = "none"
  /\ \/ ~sdone /\ credAt' = "present" /\ UNCHANGED <<sat, sres>>
     \/ credAt' \in {"none", "present"} /\ sat' = "ran" /\ sres' = "infra"
  /\ UNCHANGED <<sdone, removed, armed, dirAt, sent, proc, scode, statusAt, ssh, sgot>>

\* runScript: the wrapper enters the working directory and starts the command;
\* a wrapper or an ssh that cannot exits 255.
StartCommand ==
  /\ sat = "copy" /\ sent = SshMounts
  /\ \/ ~sdone /\ dirAt = "made" /\ sat' = "running" /\ proc' = "running" /\ ssh' = "up" /\ UNCHANGED sres
     \/ ~sdone /\ sat' = "running" /\ ssh' = "255" /\ UNCHANGED <<proc, sres>>
     \/ sdone /\ sat' = "ran" /\ sres' = "infra" /\ UNCHANGED <<proc, ssh>>
  /\ UNCHANGED <<sdone, removed, armed, dirAt, credAt, sent, scode, statusAt, sgot>>

\* The command ends: the wrapper records the status and then exits with it,
\* which the local ssh does too when the session is still up.
CommandEnds ==
  /\ proc = "running"
  /\ proc' = "done" /\ scode' \in SshCodes
  /\ statusAt' = IF dirAt = "made" THEN scode' ELSE statusAt
  /\ ssh' = IF ssh = "up" THEN scode' ELSE ssh
  /\ UNCHANGED <<sat, sdone, removed, armed, dirAt, credAt, sent, sres, sgot>>

\* The connection drops, or the local ssh is killed: the far command runs on.
CutSession ==
  /\ sat = "running" /\ ssh = "up" /\ ssh' = "cut"
  /\ UNCHANGED <<sat, sdone, removed, hostVars, sres, sgot>>

\* classify: a cancelled context is the verdict; any other code is the
\* command's; 255 or a killed ssh is resolved by readStatus, in a session of
\* its own that can fail too.
classifyTrusting ==
  /\ sat = "running" /\ ssh \in SshCodes \cup {"cut"}
  /\ sat' = "ran"
  /\ sres' \in IF sdone THEN {"infra"} ELSE IF ssh # "cut" THEN {ssh}
               ELSE {"infra", IF statusAt = "none" THEN "255" ELSE statusAt}
  /\ UNCHANGED <<sdone, removed, hostVars, ssh, sgot>>

classify ==
  /\ sat = "running" /\ ssh \in SshCodes \cup {"cut"}
  /\ sat' = "ran"
  /\ sres' \in IF sdone THEN {"infra"} ELSE IF ssh \in SshCodes \ {"255"} THEN {ssh}
               ELSE {"infra", IF statusAt = "none" THEN "notrun" ELSE statusAt}
  /\ UNCHANGED <<sdone, removed, hostVars, ssh, sgot>>

\* Snapshot: mountxfer.Capture of each mount, whatever Run returned.
SshSnapshot(m) ==
  /\ sat = "ran" /\ ssh # "none" /\ dirAt = "made" /\ m \in SshMounts \ sgot
  /\ sgot' = sgot \cup {m}
  /\ UNCHANGED <<sat, sdone, removed, hostVars, ssh, sres>>

\* Close, once: cleanupScript kills the recorded pid and removes both
\* directories, or its session fails and the reaper is left to it.
Close ==
  /\ sat = "ran" /\ ~removed /\ removed' = TRUE /\ sat' = "closed"
  /\ \/ /\ dirAt' = "gone" /\ credAt' = (IF credAt = "none" THEN "none" ELSE "gone")
        /\ proc' = IF proc = "running" THEN "done" ELSE proc
     \/ UNCHANGED <<dirAt, credAt, proc>>
  /\ UNCHANGED <<sdone, armed, sent, scode, statusAt, ssh, sres, sgot>>

\* The reaper wakes after the TTL, whatever has become of the coordinator; the
\* TTL (six hours) is taken to be longer than delivering an attempt is.
Reap ==
  /\ armed /\ sat \notin {"setup", "copy"} /\ armed' = FALSE
  /\ dirAt' = (IF dirAt = "made" THEN "gone" ELSE dirAt)
  /\ credAt' = (IF credAt = "present" THEN "gone" ELSE credAt)
  /\ UNCHANGED <<sat, sdone, removed, sent, proc, scode, statusAt, ssh, sres, sgot>>

\* The context is done, or the coordinator dies with all it was doing.
CancelSsh ==
  /\ ~sdone /\ sat \in {"setup", "copy", "running"} /\ sdone' = TRUE
  /\ ssh' = IF ssh = "up" THEN "cut" ELSE ssh
  /\ UNCHANGED <<sat, removed, hostVars, sres, sgot>>
CoordinatorDies ==
  /\ sat \notin {"closed", "failed", "dead"} /\ sat' = "dead" /\ ssh' = IF ssh = "up" THEN "cut" ELSE ssh
  /\ UNCHANGED <<sdone, removed, hostVars, sres, sgot>>

AttemptStep == setup \/ SshPutSecret \/ StartCommand \/ classify \/ Close \/ \E m \in SshMounts : SshCopyIn(m)

SshNext ==
  \/ AttemptStep \/ CommandEnds \/ CutSession \/ Reap \/ CancelSsh \/ CoordinatorDies
  \/ \E m \in SshMounts : SshSnapshot(m)

\* The reaper is a process of the host's; the attempt's own steps are bounded
\* by contexts and timeouts.
SshFairness == WF_sshVars(Reap) /\ WF_sshVars(AttemptStep)
SshSpec == SshInit /\ [][SshNext]_sshVars /\ SshFairness

-----------------------------------------------------------------------------
\* A code Run reports is the command's own: it ran to that end with every
\* workspace in place and was not cancelled, whichever sessions were cut
\* (classify.go:33: a real 255 and ssh's own are told apart).
SshVerdict == sres \in SshCodes => proc = "done" /\ scode = sres /\ sent = SshMounts /\ ~sdone

\* A credential or a directory on the host is removed whenever the coordinator
\* dies or is cut off (script.go:70: "armed on the REMOTE side, before anything
\* is written").
NothingStays == (credAt = "present" \/ dirAt = "made") ~> (credAt # "present" /\ dirAt # "made")

\* classify.go:40: "absent means it never ran".
AbsentMeansNeverRan == sres = "notrun" => proc = "none"

\* doc.go:91: "A REAPER removes it when Close never runs at all": a live
\* attempt keeps its directories until then.
ReaperSparesLiveAttempts == sat = "running" => dirAt = "made"
=============================================================================
