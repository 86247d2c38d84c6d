---------------------------- MODULE ContainerExec ----------------------------
(***************************************************************************)
(* One attempt in a container: resolve the image, create, start, follow    *)
(* logs and statistics, wait, and remove, against a daemon whose calls can *)
(* fail and a context that can be done at any moment. A step, a session    *)
(* (attached streams) and a service (a container that is told to stop)     *)
(* share the sandbox.                                                      *)
(***************************************************************************)
EXTENDS Naturals, FiniteSets

VARIABLES
  cmode,     \* "step", "session", "service"
  cat,       \* where the sandbox is
  cdone,     \* the context is done
  image,     \* the daemon has the image
  cid,       \* s.id is set
  ctr,       \* the container: "none", "created", "running", "exited", "removed"
  ccode,     \* its exit code
  ckilled,   \* the executor killed or stopped it
  clogs,     \* the log follower: "off", "following", "drained", "cut"
  cstats,    \* the statistics follower: "off", "following", "ended"
  cgiven,    \* cancelled was what the wait's select saw
  cstop,     \* the service's Stop: "no", "asked", "stopped", "failed"
  cred,      \* the attempt's secret directory: "none", "made", "gone"
  cres,      \* "none", a code, "infra"
  cclosed    \* Close: "no", "ok", "failed"

ctrVars == <<cmode, cat, cdone, image, cid, ctr, ccode, ckilled, clogs, cstats, cgiven, cstop, cred, cres, cclosed>>

ExitCodes == {"0", "1", "126", "127", "137"}

CtrInit ==
  /\ cmode \in {"step", "session", "service"} /\ cat = "unresolved" /\ cdone = FALSE /\ image \in BOOLEAN
  /\ cid = FALSE /\ ctr = "none" /\ ccode = "none" /\ ckilled = FALSE
  /\ clogs = "off" /\ cstats = "off" /\ cgiven = FALSE /\ cstop = "no"
  /\ cred = "none" /\ cres = "none" /\ cclosed = "no"

daemonVars == <<ctr, ccode, ckilled>>
followVars == <<clogs, cstats>>
restVars   == <<cgiven, cstop, cred, cclosed>>

Infra == cat' = "ran" /\ cres' = "infra"

\* resolve: inspect, else pull and inspect again; a failure is not remembered,
\* so the next use of the executor asks again.
ImagePull ==
  /\ cat = "unresolved" /\ ~cdone /\ ~image /\ image' = TRUE
  /\ UNCHANGED <<cmode, cat, cdone, cid, daemonVars, followVars, restVars, cres>>
resolve ==
  /\ cat = "unresolved" /\ ~cdone /\ image /\ cat' = "new"
  /\ UNCHANGED <<cmode, cdone, image, cid, daemonVars, followVars, restVars, cres>>

\* PutSecret, into the directory Sandbox made.
PutSecret ==
  /\ cat = "new" /\ cred = "none" /\ cred' = "made"
  /\ UNCHANGED <<cmode, cat, cdone, image, cid, daemonVars, followVars, cgiven, cstop, cclosed, cres>>

\* ContainerCreate: the id is known once the answer has been read.
ContainerCreate ==
  /\ cat = "new"
  /\ \/ ~cdone /\ ctr' = "created" /\ cid' = TRUE /\ cat' = "created" /\ UNCHANGED cres
     \/ ctr' \in {"none", "created"} /\ UNCHANGED cid /\ Infra
  /\ UNCHANGED <<cmode, cdone, image, ccode, ckilled, followVars, restVars>>

\* ClassifyStartFailure: not executable, not found.
StartFailures == {"126", "127"}

\* ContainerStart: a command that could not be executed is the step's own
\* failure (126, 127) for a step or a service; anything else infrastructure.
ContainerStart ==
  /\ cat = "created"
  /\ \/ /\ ~cdone /\ ctr' = "running" /\ cat' = "waiting"
        /\ clogs' = "following" /\ cstats' = IF cmode = "step" THEN "following" ELSE "off"
        /\ UNCHANGED <<cres, ccode>>
     \/ /\ ~cdone /\ cmode # "session" /\ ccode' \in StartFailures
        /\ cat' = "ran" /\ cres' = ccode' /\ UNCHANGED <<ctr, clogs, cstats>>
     \/ Infra /\ ctr' \in {"created", "running"} /\ UNCHANGED <<ccode, clogs, cstats>>
  /\ UNCHANGED <<cmode, cdone, image, cid, ckilled, restVars>>

\* The process ends by itself.
ContainerExits ==
  /\ ctr = "running" /\ ctr' = "exited" /\ ccode' \in {"0", "1"}
  /\ UNCHANGED <<cmode, cat, cdone, image, cid, ckilled, followVars, restVars, cres>>

\* The followers deliver up to the container's end, and then end.
FollowersEnd ==
  /\ ctr \in {"exited", "removed"}
  /\ \/ clogs = "following" /\ clogs' = "drained" /\ UNCHANGED cstats
     \/ cstats = "following" /\ cstats' = "ended" /\ UNCHANGED clogs
  /\ UNCHANGED <<cmode, cat, cdone, image, cid, daemonVars, restVars, cres>>

\* ContainerKill: an exited container counts as killed, and an error is ignored.
Killed == IF ctr = "running" THEN ctr' \in {"running", "exited"} /\ ckilled' = TRUE
                                  /\ ccode' = IF ctr' = "exited" THEN "137" ELSE ccode
          ELSE UNCHANGED daemonVars

\* Run's select: the wait's answer, or the context, which kills and then waits.
AwaitExit ==
  /\ cat = "waiting" /\ cmode = "step"
  /\ \/ ctr = "exited" /\ cat' = "draining" /\ UNCHANGED <<daemonVars, cgiven>>
     \/ cdone /\ ~cgiven /\ cgiven' = TRUE /\ Killed /\ UNCHANGED cat
  /\ UNCHANGED <<cmode, cdone, image, cid, followVars, cstop, cred, cclosed, cres>>

\* ContainerWait fails while the container may be running.
WaitFails ==
  /\ cat = "waiting" /\ cmode # "service" /\ Infra
  /\ UNCHANGED <<cmode, cdone, image, cid, daemonVars, followVars, restVars>>

\* The log follower is given a grace and then cut; the statistics a tail grace.
ReturnAtOnce ==
  /\ cat = "draining"
  /\ cat' = "ran" /\ cres' = IF cgiven THEN "infra" ELSE ccode
  /\ UNCHANGED <<cmode, cdone, image, cid, daemonVars, followVars, restVars>>

DrainAndReturn ==
  /\ cat = "draining"
  /\ clogs' = IF clogs = "following" THEN "cut" ELSE clogs
  /\ cstats' = "ended" /\ cat' = "ran"
  /\ cres' = IF cgiven THEN "infra" ELSE ccode
  /\ UNCHANGED <<cmode, cdone, image, cid, daemonVars, restVars>>

\* RunInteractive, RunTerminal: the streams end with the container, or are
\* closed when the context is done, which also kills it.
SessionCancelled ==
  /\ cat = "waiting" /\ cmode = "session" /\ cdone /\ ctr = "running" /\ Killed
  /\ clogs' = "cut"
  /\ UNCHANGED <<cmode, cat, cdone, image, cid, cstats, restVars, cres>>

SessionTrustsCode ==
  /\ cat = "waiting" /\ cmode = "session" /\ ctr = "exited" /\ clogs # "following"
  /\ cat' = "ran" /\ cres' = ccode
  /\ UNCHANGED <<cmode, cdone, image, cid, daemonVars, followVars, restVars>>

SessionEnds ==
  /\ cat = "waiting" /\ cmode = "session" /\ ctr = "exited" /\ clogs # "following"
  /\ cat' = "ran" /\ cres' = IF cdone \/ clogs = "cut" THEN "infra" ELSE ccode
  /\ UNCHANGED <<cmode, cdone, image, cid, daemonVars, followVars, restVars>>

\* Service.Stop: the daemon's stop within the grace, a kill when the context
\* is done or the stop failed; Wait reports the container's end.
StopService ==
  /\ cat = "waiting" /\ cmode = "service" /\ cstop = "no"
  /\ IF ctr = "exited" THEN cstop' = "stopped" /\ UNCHANGED daemonVars
     ELSE \/ ctr' = "exited" /\ ccode' \in {"0", "137"} /\ ckilled' = TRUE /\ cstop' = "stopped"
          \/ Killed /\ cstop' = "failed"
  /\ UNCHANGED <<cmode, cat, cdone, image, cid, followVars, cgiven, cred, cclosed, cres>>

ServiceEnds ==
  /\ cat = "waiting" /\ cmode = "service" /\ ctr = "exited"
  /\ clogs' = (IF clogs = "following" THEN "cut" ELSE clogs) /\ cat' = "ran" /\ cres' = ccode
  /\ UNCHANGED <<cmode, cdone, image, cid, daemonVars, cstats, restVars>>

\* Close: the secret directory first, then the container, by force.
CloseKeepsSecrets ==
  /\ cat = "ran" /\ cclosed = "no" /\ cat' = "closed" /\ cid' = FALSE
  /\ \/ ctr' = (IF cid THEN "removed" ELSE ctr) /\ cclosed' = "ok"
     \/ cid /\ UNCHANGED ctr /\ cclosed' = "failed"
  /\ UNCHANGED <<cmode, cdone, image, ccode, ckilled, followVars, cgiven, cstop, cred, cres>>

Close ==
  /\ cat = "ran" /\ cclosed = "no" /\ cat' = "closed" /\ cid' = FALSE
  /\ cred' = IF cred = "made" THEN "gone" ELSE cred
  /\ \/ ctr' = (IF cid THEN "removed" ELSE ctr) /\ cclosed' = "ok"
     \/ cid /\ UNCHANGED ctr /\ cclosed' = "failed"
  /\ UNCHANGED <<cmode, cdone, image, ccode, ckilled, followVars, cgiven, cstop, cres>>

CancelContainer ==
  /\ ~cdone /\ cat \notin {"ran", "closed"} /\ cdone' = TRUE
  /\ UNCHANGED <<cmode, cat, image, cid, daemonVars, followVars, restVars, cres>>

CtrNext ==
  \/ ImagePull \/ resolve \/ PutSecret \/ ContainerCreate \/ ContainerStart \/ ContainerExits \/ FollowersEnd
  \/ AwaitExit \/ WaitFails \/ DrainAndReturn \/ SessionCancelled \/ SessionEnds
  \/ StopService \/ ServiceEnds \/ Close \/ CancelContainer

CtrSpec == CtrInit /\ [][CtrNext]_ctrVars

-----------------------------------------------------------------------------
\* A code is the command's own: a container the executor killed is never
\* reported as a step or a session that failed, even when the kill and the
\* exit race, and a step returns only once nothing writes to its log any more
\* (containerexec.go:492, 586). A closed attempt leaves no credential and no
\* container it knew of.
ContainerVerdict ==
  /\ cres \in ExitCodes /\ cmode # "service" => cres = ccode /\ ~ckilled
  /\ cat \in {"ran", "closed"} /\ cmode = "step" /\ cres \in {"0", "1"} => clogs # "following"
  /\ cclosed # "no" => cred # "made"
  /\ cclosed = "ok" /\ cres # "infra" => ctr \notin {"running", "created"}
=============================================================================
