------------------------------- MODULE K8sExec -------------------------------
(***************************************************************************)
(* One attempt on a Kubernetes cluster: a sandbox that creates a Secret    *)
(* and a pod, carries the workspaces in through a staging container, waits *)
(* for the step's container, reads the workspaces back and deletes what it *)
(* created, against an apiserver whose answers can be lost, a kubelet and  *)
(* a node that can fail at any moment, and a context that can be done at   *)
(* any moment.  The second part is the channel a command in one of its     *)
(* containers is run over.                                                 *)
(***************************************************************************)
EXTENDS Naturals, Sequences, FiniteSets

CONSTANTS
  K8sMounts,  \* the workspaces the step mounts
  Platforms   \* what a node can report

VARIABLES
  kplatform, \* e.platform, once resolved
  kmode,     \* "step": the command is the container's; "session": an exec into a held one
  kclaimed,  \* mounts a PersistentVolumeClaim backs
  ksecrets,  \* s.secrets: "none", "put"; the object's name once created: "object"
  kat,       \* where the sandbox is
  kcreated,  \* s.created
  kdone,     \* the context is done
  pod,       \* "none", "pending", "staging", "running", "exited", "lost", "gone"
  began,     \* the step's process has begun
  flagged,   \* stagedFlag exists
  kstaged,   \* mounts delivered into the pod
  kcode,     \* the exit code of the step's process: 0, 1, or "none"
  secretIs,  \* "none", "free", "owned", "gone"
  kresult,   \* what Run returned: "none", "exit0", "exit1", "infra"
  kcopied,   \* mounts read back
  klost,     \* a create was applied and its answer lost
  kclose     \* Close: "no", "ok", "failed"

k8sVars == <<kplatform, kmode, kclaimed, ksecrets, kat, kcreated, kdone, pod, began, flagged, kstaged, kcode,
             secretIs, kresult, kcopied, klost, kclose>>

carried == K8sMounts \ kclaimed

Unresolved == "unresolved"

K8sInit ==
  /\ kmode \in {"step", "session"} /\ kclaimed \in SUBSET K8sMounts /\ ksecrets = "none"
  /\ kplatform = Unresolved /\ kat = "none" /\ kcreated = FALSE /\ kdone = FALSE
  /\ pod = "none" /\ began = FALSE /\ flagged = FALSE /\ kstaged = {} /\ kcode = "none"
  /\ secretIs = "none" /\ kresult = "none" /\ kcopied = {} /\ klost = FALSE /\ kclose = "no"

sandboxOnly == <<kplatform, kmode, kclaimed>>
clusterOnly == <<pod, began, flagged, kstaged, kcode, secretIs>>

\* clusterPlatform: the declared platform, or the only one the schedulable
\* nodes report.
clusterPlatform(declared, seen) ==
  CASE declared # Unresolved -> declared
    [] declared = Unresolved /\ Cardinality(seen) = 1 -> CHOOSE p \in seen : TRUE
    [] OTHER -> Unresolved

\* resolve asks the cluster once it answers, and forgets a failure to.
resolve ==
  /\ kat = "none" /\ kplatform = Unresolved
  /\ \E declared \in Platforms \cup {Unresolved}, seen \in SUBSET Platforms :
        kplatform' = clusterPlatform(declared, seen)
  /\ UNCHANGED <<kmode, kclaimed, clusterOnly, ksecrets, kat, kcreated, kdone, kresult, kcopied, klost, kclose>>

\* Sandbox: a relative working directory or mount, a mount with no directory
\* to carry, or a Secret its user could not read is refused.
Sandbox ==
  /\ kat = "none" /\ kplatform # Unresolved
  /\ kat' \in {"new", "refused"}
  /\ UNCHANGED <<sandboxOnly, clusterOnly, ksecrets, kcreated, kdone, kresult, kcopied, klost, kclose>>

\* PutSecret: refused once the pod exists.
PutSecret ==
  /\ kat = "new" /\ ~kcreated /\ ksecrets = "none"
  /\ ksecrets' = "put"
  /\ UNCHANGED <<sandboxOnly, clusterOnly, kat, kcreated, kdone, kresult, kcopied, klost, kclose>>

\* Run returns an infrastructure error.
Infra == kat' = "ran" /\ kresult' = "infra"

\* createSecret: the object's name is remembered once the apiserver's answer
\* has been read; an answer that never comes leaves the name unset.
createSecret ==
  /\ kat = "new"
  /\ \/ /\ ksecrets = "none" /\ kat' = "create" /\ UNCHANGED <<secretIs, ksecrets, kresult>>
     \/ /\ ksecrets = "put" /\ ~kdone
        /\ secretIs' = "free" /\ ksecrets' = "object" /\ kat' = "create" /\ UNCHANGED kresult
     \/ /\ ksecrets = "put"
        /\ secretIs' \in {"none", "free"} /\ UNCHANGED ksecrets /\ Infra
  /\ klost' = (klost \/ (secretIs' = "free" /\ ksecrets' = "put"))
  /\ UNCHANGED <<sandboxOnly, kcreated, kdone, pod, began, flagged, kstaged, kcode, kcopied, kclose>>

\* CreatePod, then s.created, on an answer.
createPod ==
  /\ kat = "create"
  /\ \/ ~kdone /\ pod' = "pending" /\ kcreated' = TRUE /\ kat' = "adopt" /\ UNCHANGED kresult
     \/ pod' \in {"none", "pending"} /\ UNCHANGED kcreated /\ Infra
  /\ klost' = (klost \/ (pod' = "pending" /\ ~kcreated'))
  /\ UNCHANGED <<sandboxOnly, ksecrets, kdone, began, flagged, kstaged, kcode, secretIs, kcopied, kclose>>

\* adoptSecret is best effort.
adoptSecret ==
  /\ kat = "adopt"
  /\ secretIs' \in IF secretIs = "free" /\ pod # "gone" /\ ~kdone THEN {"free", "owned"} ELSE {secretIs}
  /\ kat' = "stage"
  /\ UNCHANGED <<sandboxOnly, ksecrets, kcreated, kdone, pod, began, flagged, kstaged, kcode, kresult,
                 kcopied, klost, kclose>>

\* podSpec: the staging container and the reader exist when a workspace is
\* carried.
hasStage == carried # {}

\* classify, for the staging container and for the step's.
stageState ==
  IF ~hasStage THEN IF pod \in {"lost", "gone"} THEN "error" ELSE "waiting"
  ELSE CASE pod = "pending" -> "waiting" [] pod = "staging" -> "started"
         [] pod \in {"running", "exited"} -> "exited" [] OTHER -> "error"
stepState ==
  CASE pod \in {"pending", "staging"} -> "waiting" [] pod = "running" -> "started"
    [] pod = "exited" -> "exited" [] OTHER -> "error"

\* awaitContainer for the staging container, when the step has mounts.
stageWait ==
  /\ kat = "stage"
  /\ \/ K8sMounts = {} /\ kat' = "start" /\ UNCHANGED kresult
     \/ K8sMounts # {} /\ stageState = "started" /\ ~kdone /\ kat' = "copy" /\ UNCHANGED kresult
     \/ K8sMounts # {} /\ Infra  \* exited, unreadable, the deadline, or the context
  /\ UNCHANGED <<sandboxOnly, clusterOnly, ksecrets, kcreated, kdone, kcopied, klost, kclose>>

\* copyIn: tar into the mount's staging directory, which a claimed mount has
\* not; then release touches the flag.
copyIn(m) ==
  /\ kat = "copy" /\ m \in K8sMounts \ kstaged
  /\ \/ /\ pod = "staging" /\ ~kdone /\ m \in carried
        /\ kstaged' = kstaged \cup {m} /\ UNCHANGED <<kat, kresult>>
     \/ Infra /\ UNCHANGED kstaged
  /\ UNCHANGED <<sandboxOnly, ksecrets, kcreated, kdone, pod, began, flagged, kcode, secretIs, kcopied, klost, kclose>>

ReleaseEarly ==
  /\ kat = "copy"
  /\ \/ pod = "staging" /\ ~kdone /\ flagged' = TRUE /\ kat' = "start" /\ UNCHANGED kresult
     \/ Infra /\ UNCHANGED flagged
  /\ UNCHANGED <<sandboxOnly, ksecrets, kcreated, kdone, pod, began, kstaged, kcode, secretIs, kcopied, klost, kclose>>

release ==
  /\ kat = "copy" /\ kstaged = K8sMounts
  /\ \/ pod = "staging" /\ ~kdone /\ flagged' = TRUE /\ kat' = "start" /\ UNCHANGED kresult
     \/ Infra /\ flagged' \in {flagged, pod = "staging" \/ flagged}
  /\ UNCHANGED <<sandboxOnly, ksecrets, kcreated, kdone, pod, began, kstaged, kcode, secretIs, kcopied, klost, kclose>>

\* DeletePod with no grace: gone at once, NotFound counting as done, or an
\* error that deleted nothing.
deleted == IF pod = "none" THEN {"none"} ELSE {"gone", pod}

\* awaitStart (a step) and awaitContainer for the step's container (a session).
awaitStart ==
  /\ kat = "start"
  /\ \/ /\ stepState \in {"started", "exited"} /\ ~kdone
        /\ IF kmode = "step" THEN kat' = "exit" /\ UNCHANGED kresult
           ELSE IF stepState = "started" THEN kat' \in {"exec", "binary"} /\ UNCHANGED kresult ELSE Infra
        /\ UNCHANGED pod
     \/ stepState = "error" /\ Infra /\ UNCHANGED pod
     \/ Infra /\ pod' \in IF kmode = "step" THEN deleted ELSE {pod}  \* the deadline, or the context
  /\ UNCHANGED <<sandboxOnly, ksecrets, kcreated, kdone, began, flagged, kstaged, kcode, secretIs, kcopied, klost, kclose>>

\* awaitExit: the exit code is reported once the container has ended. A
\* context that is done deletes the pod once and keeps watching, within a
\* grace, for it to terminate; whatever it then reads, the cancellation is
\* what Run reports.
awaitExit ==
  /\ kat = "exit"
  /\ \/ stepState = "exited" /\ ~kdone /\ kat' = "ran"
        /\ kresult' = (IF kcode = 0 THEN "exit0" ELSE "exit1") /\ UNCHANGED pod
     \/ kdone /\ pod' \in deleted
        /\ \/ pod' = pod /\ Infra
           \/ kat' = "reap" /\ UNCHANGED kresult
     \/ ~kdone /\ stepState # "exited" /\ Infra /\ UNCHANGED pod  \* unreadable, lost or gone
  /\ UNCHANGED <<sandboxOnly, ksecrets, kcreated, kdone, began, flagged, kstaged, kcode, secretIs, kcopied, klost, kclose>>

reap ==
  /\ kat = "reap" /\ Infra
  /\ UNCHANGED <<sandboxOnly, clusterOnly, ksecrets, kcreated, kdone, kcopied, klost, kclose>>

\* copyBinary: a staged binary is sent into the held container first.
copyBinary ==
  /\ kat = "binary"
  /\ \/ pod = "running" /\ ~kdone /\ kat' = "exec" /\ UNCHANGED <<kresult, pod>>
     \/ Infra /\ pod' \in (IF kdone THEN deleted ELSE {pod})
  /\ UNCHANGED <<sandboxOnly, ksecrets, kcreated, kdone, began, flagged, kstaged, kcode, secretIs, kcopied, klost, kclose>>

\* exec: a session's process, or a func step's staged binary, in the held
\* container; its goroutine deletes the pod when the context is done.
runExec ==
  /\ kat = "exec"
  /\ \/ /\ pod = "running" /\ ~kdone
        /\ began' = TRUE /\ kcode' \in {0, 1} /\ kat' = "ran"
        /\ kresult' = (IF kcode' = 0 THEN "exit0" ELSE "exit1") /\ UNCHANGED pod
     \/ Infra /\ pod' \in (IF kdone THEN deleted ELSE {pod}) /\ UNCHANGED <<began, kcode>>
  /\ UNCHANGED <<sandboxOnly, ksecrets, kcreated, kdone, flagged, kstaged, secretIs, kcopied, klost, kclose>>

\* Snapshot: each carried mount is read back through the reader of a pod that
\* was created; the engine asks whatever Run returned.
Snapshot(m) ==
  /\ kat = "ran" /\ kcreated /\ m \in carried \ kcopied /\ pod \in {"running", "exited"}
  /\ kcopied' = kcopied \cup {m}
  /\ UNCHANGED <<sandboxOnly, clusterOnly, ksecrets, kat, kcreated, kdone, kresult, klost, kclose>>

\* Close deletes the pod it created and the Secret it knows the name of.
CloseForgetful ==
  /\ kat = "ran" /\ kclose = "no"
  /\ kat' = "closed" /\ kcreated' = FALSE /\ ksecrets' = "none"
  /\ pod' \in IF kcreated THEN deleted ELSE {pod}
  /\ secretIs' = secretIs
  /\ kclose' = IF kcreated /\ pod' = pod /\ pod # "gone" THEN "failed" ELSE "ok"
  /\ UNCHANGED <<sandboxOnly, kdone, began, flagged, kstaged, kcode, kresult, kcopied, klost>>

CloseSandbox ==
  /\ kat = "ran" /\ kclose = "no"
  /\ kat' = "closed" /\ kcreated' = FALSE /\ ksecrets' = "none"
  /\ pod' \in IF kcreated THEN deleted ELSE {pod}
  /\ secretIs' \in IF ksecrets = "object" /\ secretIs # "gone" THEN {"gone", secretIs} ELSE {secretIs}
  /\ kclose' = IF \/ kcreated /\ pod' = pod /\ pod # "gone"
                  \/ ksecrets = "object" /\ secretIs' # "gone" THEN "failed" ELSE "ok"
  /\ UNCHANGED <<sandboxOnly, kdone, began, flagged, kstaged, kcode, kresult, kcopied, klost>>

-----------------------------------------------------------------------------
(* The cluster and the context.                                            *)

\* The kubelet: the staging container first, then the step's, which runs
\* whatever command podSpec gave it.
Kubelet ==
  /\ \/ pod = "pending" /\ pod' = (IF hasStage THEN "staging" ELSE "running")
     \/ pod = "staging" /\ flagged /\ pod' = "running"
     \/ pod = "staging" /\ ~flagged /\ pod' = "lost"  \* stageCommand gives up
     \/ pod = "running" /\ kmode = "step" /\ pod' = "exited"
     \/ pod \in {"pending", "staging", "running"} /\ pod' = "lost"
     \/ pod \in {"pending", "staging", "running", "exited", "lost"} /\ pod' = "gone"
  /\ began' = (began \/ (pod' = "running" /\ kmode = "step"))
  /\ IF pod' = "exited" THEN kcode' \in {0, 1} ELSE UNCHANGED kcode
  /\ UNCHANGED <<sandboxOnly, ksecrets, kat, kcreated, kdone, flagged, kstaged, secretIs, kresult, kcopied, klost, kclose>>

\* The apiserver's garbage collector removes a Secret whose pod is gone.
CollectSecret ==
  /\ secretIs = "owned" /\ pod = "gone" /\ secretIs' = "gone"
  /\ UNCHANGED <<sandboxOnly, ksecrets, kat, kcreated, kdone, pod, began, flagged, kstaged, kcode,
                 kresult, kcopied, klost, kclose>>

CancelAttempt ==
  /\ ~kdone /\ kat \notin {"none", "ran", "closed"} /\ kdone' = TRUE
  /\ UNCHANGED <<sandboxOnly, clusterOnly, ksecrets, kat, kcreated, kresult, kcopied, klost, kclose>>

SandboxStep ==
  \/ createSecret \/ createPod \/ adoptSecret \/ stageWait \/ release \/ awaitStart \/ awaitExit
  \/ reap \/ copyBinary \/ runExec \/ CloseSandbox \/ \E m \in K8sMounts : copyIn(m)

K8sNext ==
  \/ resolve \/ Sandbox \/ SandboxStep \/ PutSecret \/ Kubelet \/ CollectSecret \/ CancelAttempt
  \/ \E m \in K8sMounts : Snapshot(m)

\* Every wait of the sandbox has a deadline, a grace or a context of its own.
K8sFairness == WF_k8sVars(SandboxStep)
K8sSpec == K8sInit /\ [][K8sNext]_k8sVars /\ K8sFairness

-----------------------------------------------------------------------------
\* An exit code is the step's own: the process ran to that end with every
\* carried workspace in place and the context still live, and it never began
\* without them, whatever was cancelled, lost or deleted meanwhile
\* (classify.go:42, transfer.go:112).
VerdictIsTheSteps ==
  /\ kresult \in {"exit0", "exit1"} => /\ kresult = (IF kcode = 0 THEN "exit0" ELSE "exit1")
                                       /\ carried \subseteq kstaged /\ ~kdone
  /\ began => carried \subseteq kstaged

\* A Close that reports success leaves nothing of what this sandbox knows it
\* created: neither pod nor Secret (k8sexec.go:1035).
CloseLeavesNothing ==
  kclose = "ok" /\ ~klost => pod \in {"none", "gone"} /\ secretIs \in {"none", "gone"}

\* An attempt ends and is closed, whatever the cluster does.
K8sEnds == kat = "new" ~> kat = "closed"

\* doc.go:125: a Secret is "deleted by Close on every path".
SecretDeletedOnEveryPath == kclose = "ok" => secretIs \in {"none", "gone"}

\* doc.go:88: for a claim "no staging container and no reader are created for
\* it, and nothing is carried at all": staging does not fail a step whose own
\* container already runs.
ClaimedStepsStart == [][kat = "stage" /\ kat' = "ran" => kdone \/ pod # "running"]_k8sVars

-----------------------------------------------------------------------------
(* Client.Exec: one command run in a container over a websocket. The       *)
(* caller's goroutine reads the streams, a second one pumps the command's  *)
(* input, a third closes the connection when the context ends; the exit    *)
(* code is a status document on the error channel. The container's side is *)
(* as the code uses it: input, output, status, close; the network may break *)
(* between any two messages.                                               *)

CONSTANTS Inputs,  \* chunks the input source holds
          Outputs  \* bound on the command's output, in messages

VARIABLES
  call,     \* Exec: "dial", "read", "collect", "returned"
  withStdin,\* whether the call sends the command its input
  ctxOver,  \* whether the caller's context ended
  conn,     \* the connection: "none", "open", "closed" (by this side), "broken"
  inbox,    \* messages on their way to the reader
  pump,     \* pumpStdin: "none", "read", "write", "close", "done"
  given,    \* chunks the source has given
  writeErr, \* what the pump reports: "none", "ok", "error"
  collected,\* whether its report was waited for long enough
  far,      \* the command: "run", or its exit code
  got, eof, \* the chunks it was sent, and whether its input was closed
  outSent, wrote, \* messages of output it sent, and those the caller was given
  status,   \* the status document, as the reader has it
  readErr,  \* what ended the reader: "none" (not ended), "eof", "error"
  result    \* "none", "error", or the exit code

execVars == <<call, withStdin, ctxOver, conn, inbox, pump, given, writeErr, collected, far, got, eof, outSent, wrote, status, readErr, result>>
farVars == <<far, got, eof, outSent>>
pumpVars == <<pump, given, writeErr>>
readVars == <<wrote, status, readErr>>

ExitCodes == {"exit0", "exit2"}

ExecInit ==
  /\ call = "dial" /\ withStdin \in BOOLEAN /\ ctxOver = FALSE /\ conn = "none" /\ inbox = <<>>
  /\ pump = "none" /\ given = 0 /\ writeErr = "none" /\ collected = FALSE
  /\ far = "run" /\ got = 0 /\ eof = FALSE /\ outSent = 0 /\ wrote = 0 /\ status = "none" /\ readErr = "none" /\ result = "none"

\* The sub-protocol the server chose, or a handshake that failed.
dialWS == {"failed", "v4", "v5"}

\* Only v5 can close an input: a call with one needs it.
Exec ==
  /\ call = "dial" /\ UNCHANGED <<withStdin, ctxOver, inbox, given, writeErr, collected, farVars, readVars>>
  /\ \E sub \in dialWS :
       \/ sub \in (IF withStdin THEN {"failed", "v4"} ELSE {"failed"}) /\ call' = "returned" /\ result' = "error" /\ UNCHANGED <<conn, pump>>
       \/ /\ sub \in (IF withStdin THEN {"v5"} ELSE {"v4", "v5"}) /\ call' = "read" /\ conn' = "open"
          /\ pump' = (IF withStdin THEN "read" ELSE "none") /\ UNCHANGED result

callerCancels ==
  /\ ~ctxOver /\ ctxOver' = TRUE
  /\ UNCHANGED <<call, withStdin, conn, inbox, collected, pumpVars, farVars, readVars, result>>
\* dialWS's goroutine: the end of the context closes the connection.
closeOnCancel ==
  /\ ctxOver /\ conn = "open" /\ conn' = "broken" /\ inbox' = <<>>
  /\ UNCHANGED <<call, withStdin, ctxOver, collected, pumpVars, farVars, readVars, result>>
netBreaks ==
  /\ conn = "open" /\ conn' = "broken" /\ \E n \in 0..Len(inbox) : inbox' = SubSeq(inbox, 1, n)
  /\ UNCHANGED <<call, withStdin, ctxOver, collected, pumpVars, farVars, readVars, result>>

-----------------------------------------------------------------------------
(* pumpStdin.                                                              *)

Pumping == UNCHANGED <<call, withStdin, ctxOver, conn, inbox, collected, far, outSent, readVars, result>>

\* The source gives a chunk, ends, or fails; it may also never answer.
pumpReads ==
  /\ pump = "read" /\ Pumping /\ UNCHANGED <<got, eof>>
  /\ \/ given < Inputs /\ given' = given + 1 /\ pump' = "write" /\ UNCHANGED writeErr
     \/ given = Inputs /\ pump' = "close" /\ UNCHANGED <<given, writeErr>>
     \/ pump' = "close" /\ writeErr' = "error" /\ UNCHANGED given
pumpWrites ==
  /\ pump = "write" /\ Pumping /\ UNCHANGED <<given, eof>>
  /\ \/ conn = "open" /\ pump' = "read" /\ got' = got + 1 /\ UNCHANGED writeErr
     \/ conn # "open" /\ pump' = "done" /\ writeErr' = "error" /\ UNCHANGED got

\* Mutant: an input that failed half way leaves the command's input open.
CloseAtEnd ==
  /\ pump = "close" /\ Pumping /\ UNCHANGED <<given, got>> /\ pump' = "done"
  /\ \/ conn = "open" /\ eof' = (writeErr # "error") /\ writeErr' = (IF writeErr = "none" THEN "ok" ELSE writeErr)
     \/ conn # "open" /\ writeErr' = "error" /\ UNCHANGED eof

\* The close is sent on every way out but a failed write.
pumpCloses ==
  /\ pump = "close" /\ Pumping /\ UNCHANGED <<given, got>> /\ pump' = "done"
  /\ \/ conn = "open" /\ eof' = TRUE /\ writeErr' = (IF writeErr = "none" THEN "ok" ELSE writeErr)
     \/ conn # "open" /\ writeErr' = "error" /\ UNCHANGED eof

-----------------------------------------------------------------------------
(* The container.                                                          *)

Message(m) == inbox' = IF conn = "open" THEN Append(inbox, m) ELSE inbox
FarSide == UNCHANGED <<call, withStdin, ctxOver, conn, collected, got, eof, pumpVars, readVars, result>>
commandWrites ==
  /\ conn # "none" /\ far = "run" /\ outSent < Outputs /\ outSent' = outSent + 1 /\ Message("out") /\ FarSide /\ UNCHANGED far
\* A command that reads its input to the end exits only then; another when it likes.
commandExits ==
  /\ conn # "none" /\ far = "run" /\ far' \in ExitCodes
  /\ inbox' = IF conn = "open" THEN inbox \o <<far', "close">> ELSE inbox
  /\ FarSide /\ UNCHANGED outSent

-----------------------------------------------------------------------------
(* readExecStreams.                                                        *)

Reading == UNCHANGED <<call, withStdin, ctxOver, conn, collected, pumpVars, farVars, result>>

\* readMessage: the next message, the orderly end, or a stream that broke; a
\* connection that broke between two frames reads as an orderly end.
readMessage ==
  /\ call = "read" /\ readErr = "none" /\ Reading
  /\ \/ /\ inbox # <<>> /\ Head(inbox) = "out" /\ inbox' = Tail(inbox) /\ UNCHANGED status
        /\ \/ wrote' = wrote + 1 /\ UNCHANGED readErr
           \/ readErr' = "error" /\ UNCHANGED wrote
     \/ inbox # <<>> /\ Head(inbox) \in ExitCodes /\ status' = Head(inbox) /\ inbox' = Tail(inbox) /\ UNCHANGED <<wrote, readErr>>
     \/ inbox # <<>> /\ Head(inbox) = "close" /\ readErr' = "eof" /\ UNCHANGED <<inbox, wrote, status>>
     \/ inbox = <<>> /\ conn # "open" /\ readErr' \in {"eof", "error"} /\ UNCHANGED <<inbox, wrote, status>>

wsClose == conn' = "closed"

\* The connection is closed first; the pump's report is waited for, for a grace.
closeConn ==
  /\ call = "read" /\ readErr # "none" /\ call' = "collect" /\ wsClose
  /\ UNCHANGED <<withStdin, ctxOver, inbox, collected, pumpVars, farVars, readVars, result>>
awaitPump ==
  /\ call = "collect" /\ ~collected /\ collected' = TRUE
  /\ UNCHANGED <<call, withStdin, ctxOver, conn, inbox, pumpVars, farVars, readVars, result>>

\* Mutant: a stream that ended without a status is a command that exited 0.
EndIsSuccess == IF status = "none" THEN "exit0" ELSE status
execExit == IF status = "none" THEN "error" ELSE status

\* The grace may pass before the report comes; then it is not asked for again.
return ==
  /\ call = "collect" /\ collected /\ call' = "returned"
  /\ \/ pump # "done" /\ result' = (IF ctxOver \/ readErr = "error" THEN "error" ELSE execExit)
     \/ pump = "done" /\ result' = (IF ctxOver \/ readErr = "error" \/ writeErr = "error" THEN "error" ELSE execExit)
  /\ UNCHANGED <<withStdin, ctxOver, conn, inbox, collected, pumpVars, farVars, readVars>>

ExecNext ==
  \/ Exec \/ callerCancels \/ closeOnCancel \/ netBreaks \/ pumpReads \/ pumpWrites \/ pumpCloses
  \/ commandWrites \/ commandExits \/ readMessage \/ closeConn \/ awaitPump \/ return

\* This side's goroutines go on, but nothing makes the source answer, the
\* command end or the caller cancel. A command whose input is closed does end.
ExecFairness ==
  /\ WF_execVars(Exec) /\ WF_execVars(closeOnCancel) /\ WF_execVars(pumpWrites) /\ WF_execVars(pumpCloses)
  /\ WF_execVars(readMessage) /\ WF_execVars(closeConn) /\ WF_execVars(awaitPump) /\ WF_execVars(return)
  /\ WF_execVars(eof /\ commandExits)
ExecSpec == ExecInit /\ [][ExecNext]_execVars /\ ExecFairness

-----------------------------------------------------------------------------
\* An exit code is the command's own: it finished with that code, and every
\* message it sent was written, in a session that broke as in one that ended;
\* a cancelled or broken session is an error, never a plausible prefix
\* (exec.go 119: "An interrupted session is always an error").
ExecVerdict ==
  result \in ExitCodes => far = result /\ wrote = outSent

\* A session ends when its caller cancels it, when the network goes, or when
\* the input source ends or fails: the command is told that its input is over
\* (exec.go pumpStdin; dialWS).
SessionEnds ==
  /\ (call = "read" /\ ctxOver) ~> (call = "returned")
  /\ (call = "read" /\ conn = "broken") ~> (call = "returned")
  /\ (call = "read" /\ pump = "close") ~> (call = "returned")
=============================================================================
