---------------------------- MODULE AttachServer ----------------------------
(***************************************************************************)
(* The attach server's requests that act on the run: control requests,     *)
(* which go through the hub's bounded queue to the engine's loop, and      *)
(* interactive sessions, whose connection the server takes over from       *)
(* net/http and hands to the engine.  The server's Close, which two        *)
(* callers can be in at once, races the handlers; the end of the run races *)
(* the sessions.  The event stream the same server carries is Stream's.    *)
(***************************************************************************)
EXTENDS Naturals, Sequences, FiniteSets, SequencesExt

CONSTANTS
  Callers,       \* one request each
  Asks,          \* per caller, the kinds of request it may make
  ControlSlots,  \* controlQueueDepth
  Burst          \* AuthFailureBurst
ASSUME AttachServerAssumption ==
  /\ ControlSlots \in Nat \ {0} /\ Burst \in Nat /\ IsFiniteSet(Callers)
  /\ Asks \in [Callers -> SUBSET {"control", "shell"}]

Closers == {"embedder", "context"}  \* Attach.Close, and the goroutine listen starts
Refusals == {"read_only", "bad", "run_finished", "refused", "unavailable", "shutting_down", "unauthorized", "throttled"}

VARIABLES
  srv,       \* "down", "unix", "tcp", "refused"
  ro,        \* Options.ReadOnly
  credit,    \* failureCredit.available
  call,      \* per caller [kind, good]: what it asks, and whether its credential is right
  hat,       \* where its handler is
  conn,      \* its connection: "none", "http", "taken" (hijacked), "closed"
  reg,       \* Server.shellConns
  queue,     \* Hub.control
  reply,     \* per caller, the reply channel: "none", "ok", "refused"
  got,       \* what the client was told: "none", "cut", "timeout", "ok" or a refusal
  did,       \* the callers whose request took effect
  sess,      \* per caller, the engine's side: "none", "received", "resolved", "counted", "running", "ended"
  everOpened, shut,  \* the sessions whose shell.opened, shell.closed the ledger has
  run,       \* "going", "cancelled" (shellCancel), "waited" (closeShells is back), "sealed", "returned"
  abandoned, \* closeShells gave up after its grace
  hubClosed, closing, sdone, listening,
  once,      \* closeOnce: "free", "busy", "finished"
  closer     \* per Close call: "no", "drain", "once", "conns", "http", "wait", "returned"

reqVars  == <<call, hat, conn, reg, got>>
engVars  == <<queue, reply, did, sess, everOpened, shut, run, abandoned>>
downVars == <<hubClosed, closing, sdone, listening, once, closer>>
attachVars == <<srv, ro, credit, reqVars, engVars, downVars>>

AttachInit ==
  /\ srv = "down" /\ ro \in BOOLEAN /\ credit = Burst
  /\ call = [c \in Callers |-> [kind |-> "none", good |-> FALSE]]
  /\ hat = [c \in Callers |-> "idle"] /\ conn = [c \in Callers |-> "none"] /\ reg = {}
  /\ queue = <<>> /\ reply = [c \in Callers |-> "none"] /\ got = [c \in Callers |-> "none"]
  /\ did = {} /\ sess = [c \in Callers |-> "none"] /\ everOpened = {} /\ shut = {}
  /\ run = "going" /\ abandoned = FALSE
  /\ hubClosed = FALSE /\ closing = FALSE /\ sdone = FALSE /\ listening = FALSE
  /\ once = "free" /\ closer = [k \in Closers |-> "no"]

Done == hubClosed \/ run \in {"sealed", "returned"}  \* Hub.Done
Tracked == {c \in Callers : hat[c] \in {"tracked", "hijacked", "offering", "session", "lingering"}}

Told(c, what) ==
  /\ got' = [got EXCEPT ![c] = what] /\ hat' = [hat EXCEPT ![c] = "gone"]
  /\ conn' = [conn EXCEPT ![c] = "closed"]
HandlerAt(c, where) == hat' = [hat EXCEPT ![c] = where]

-----------------------------------------------------------------------------
(* Binding and admission.                                                  *)

\* listenUnix refuses a token and TLS it would not use; listenTCP needs a
\* token, and TLS unless the address is loopback.
listen ==
  /\ srv = "down"
  /\ \E network \in {"unix", "tcp"}, token, tls, loopback, bound \in BOOLEAN :
       LET ok == bound /\ (IF network = "unix" THEN ~token /\ ~tls ELSE token /\ (loopback \/ tls))
       IN srv' = (IF ok THEN network ELSE "refused") /\ listening' = ok
  /\ UNCHANGED <<ro, credit, reqVars, engVars, hubClosed, closing, sdone, once, closer>>

Call(c) ==
  /\ listening /\ hat[c] = "idle" /\ HandlerAt(c, "arrived") /\ conn' = [conn EXCEPT ![c] = "http"]
  /\ \E kind \in Asks[c], good \in BOOLEAN : call' = [call EXCEPT ![c] = [kind |-> kind, good |-> good]]
  /\ UNCHANGED <<srv, ro, credit, reg, got, engVars, downVars>>

\* Over unix, peerCheckedListener drops a peer that is somebody else without
\* an answer. Over tcp, tokenAuth: only a wrong credential spends.
Admit(c) ==
  /\ hat[c] = "arrived" /\ conn[c] = "http"
  /\ CASE call[c].good -> HandlerAt(c, "handler") /\ UNCHANGED <<conn, got, credit>>
       [] ~call[c].good /\ srv = "unix" -> Told(c, "cut") /\ UNCHANGED credit
       [] ~call[c].good /\ srv = "tcp" ->
            /\ Told(c, IF credit > 0 THEN "unauthorized" ELSE "throttled")
            /\ credit' = IF credit > 0 THEN credit - 1 ELSE 0
  /\ UNCHANGED <<srv, ro, call, reg, engVars, downVars>>

Refill ==
  /\ credit < Burst /\ credit' = credit + 1
  /\ UNCHANGED <<srv, ro, reqVars, engVars, downVars>>

-----------------------------------------------------------------------------
(* Control requests.                                                       *)

\* handleControl, up to the queue: a frame that does not decode, or carries
\* an argument its operation does not take, is the client's mistake.
handleControl(c) ==
  /\ hat[c] = "handler" /\ conn[c] = "http" /\ call[c].kind = "control"
  /\ \/ ro /\ Told(c, "read_only")
     \/ Told(c, "bad")
     \/ ~ro /\ Done /\ Told(c, "run_finished")
     \/ ~ro /\ ~Done /\ HandlerAt(c, "submit") /\ UNCHANGED <<got, conn>>
  /\ UNCHANGED <<srv, ro, credit, call, reg, engVars, downVars>>

submitControl(c) ==
  /\ hat[c] = "submit" /\ conn[c] = "http"
  /\ IF Len(queue) < ControlSlots
     THEN queue' = Append(queue, c) /\ HandlerAt(c, "waiting") /\ UNCHANGED <<got, conn>>
     ELSE Told(c, "unavailable") /\ UNCHANGED queue
  /\ UNCHANGED <<srv, ro, credit, call, reg, reply, did, sess, everOpened, shut, run, abandoned, downVars>>

\* The engine's loop takes one request at a time; once it is over
\* startRefusingControl answers, and once Run is back nobody does.
EngineControl ==
  /\ queue # <<>> /\ run # "returned" /\ queue' = Tail(queue)
  /\ \/ run = "going" /\ reply' = [reply EXCEPT ![Head(queue)] = "ok"] /\ did' = did \cup {Head(queue)}
     \/ reply' = [reply EXCEPT ![Head(queue)] = "refused"] /\ UNCHANGED did
  /\ UNCHANGED <<srv, ro, credit, reqVars, sess, everOpened, shut, run, abandoned, downVars>>

AwaitMislabelled(c) ==
  /\ hat[c] = "waiting" /\ conn[c] = "http"
  /\ Told(c, IF reply[c] # "none" THEN reply[c] ELSE "unavailable")
  /\ UNCHANGED <<srv, ro, credit, call, reg, engVars, downVars>>

\* handleControl's second select.
awaitReply(c) ==
  /\ hat[c] = "waiting" /\ conn[c] = "http"
  /\ Told(c, IF reply[c] # "none" THEN reply[c] ELSE "timeout")
  /\ UNCHANGED <<srv, ro, credit, call, reg, engVars, downVars>>

\* r.Context is done: the connection went.
ContextDone(c) ==
  /\ hat[c] \in {"arrived", "handler", "submit", "waiting"} /\ conn[c] = "closed"
  /\ (call[c].kind = "shell" => hat[c] = "arrived")
  /\ Told(c, "cut")
  /\ UNCHANGED <<srv, ro, credit, call, reg, engVars, downVars>>

-----------------------------------------------------------------------------
(* Sessions: the server's side.                                            *)

TrackAlways(c) == HandlerAt(c, "tracked") /\ UNCHANGED <<got, conn>>

\* track: under mu, together with closing.
track(c) == IF closing THEN Told(c, "shutting_down") ELSE HandlerAt(c, "tracked") /\ UNCHANGED <<got, conn>>

\* handleShell, up to the hijack: what the server decides itself is an
\* ordinary status.
handleShell(c) ==
  /\ hat[c] = "handler" /\ call[c].kind = "shell"
  /\ \/ ro /\ Told(c, "read_only")
     \/ Told(c, "bad")
     \/ ~ro /\ Done /\ Told(c, "run_finished")
     \/ ~ro /\ ~Done /\ track(c)
  /\ UNCHANGED <<srv, ro, credit, call, reg, engVars, downVars>>

\* Hijack fails on a connection net/http has closed.
Hijack(c) ==
  /\ hat[c] = "tracked"
  /\ IF conn[c] = "http" THEN HandlerAt(c, "hijacked") /\ conn' = [conn EXCEPT ![c] = "taken"] /\ UNCHANGED got
     ELSE Told(c, "cut")
  /\ UNCHANGED <<srv, ro, credit, call, reg, engVars, downVars>>

\* addShellConn, and the 101 that follows: refused once Close has begun,
\* because nothing else would close the connection.
addShellConn(c) ==
  /\ hat[c] = "hijacked"
  /\ IF closing \/ conn[c] = "closed" THEN Told(c, "cut") /\ UNCHANGED reg
     ELSE reg' = reg \cup {c} /\ HandlerAt(c, "offering") /\ UNCHANGED <<got, conn>>
  /\ UNCHANGED <<srv, ro, credit, call, engVars, downVars>>

\* The way out of handleShell: the exit frame reaches the client while the
\* connection is open; removeShellConn, Close, untrack.
Leave(c, what) ==
  /\ got' = [got EXCEPT ![c] = IF conn[c] = "taken" THEN what ELSE "cut"]
  /\ conn' = [conn EXCEPT ![c] = "closed"] /\ reg' = reg \ {c} /\ HandlerAt(c, "gone")

\* The engine's reader takes the request off the unbuffered channel, one at
\* a time; without a reader the submit times out, and Close ends it.
ReaderFree == run # "returned" /\ \A c \in Callers : sess[c] \notin {"received", "resolved"}
Offer(c) ==
  /\ hat[c] = "offering"
  /\ \/ ReaderFree /\ sess' = [sess EXCEPT ![c] = "received"] /\ HandlerAt(c, "session") /\ UNCHANGED <<got, conn, reg>>
     \/ run = "returned" /\ Leave(c, "run_finished") /\ UNCHANGED sess
     \/ sdone /\ Leave(c, "shutting_down") /\ UNCHANGED sess
  /\ UNCHANGED <<srv, ro, credit, call, queue, reply, did, everOpened, shut, run, abandoned, downVars>>

\* The wait for the engine's answer, bounded once the server is closing.
sessionWait(c) ==
  /\ \/ hat[c] \in {"session", "lingering"} /\ reply[c] # "none" /\ Leave(c, reply[c])
     \/ hat[c] = "session" /\ sdone /\ HandlerAt(c, "lingering") /\ UNCHANGED <<got, conn, reg>>
     \/ hat[c] = "lingering" /\ Leave(c, "cut")
  /\ UNCHANGED <<srv, ro, credit, call, engVars, downVars>>

-----------------------------------------------------------------------------
(* Sessions: the engine's side.                                            *)

SessIs(c, where) == sess' = [sess EXCEPT ![c] = where]
refuseShell(c) == reply' = [reply EXCEPT ![c] = "refused"] /\ SessIs(c, "ended")

\* resolveShellStep reads the session context, dispatchShell counts the
\* session and starts its goroutine: two steps.
resolveShellStep(c) ==
  /\ sess[c] = "received"
  /\ \/ refuseShell(c)
     \/ run = "going" /\ SessIs(c, "resolved") /\ UNCHANGED reply
  /\ UNCHANGED <<srv, ro, credit, reqVars, queue, did, everOpened, shut, run, abandoned, downVars>>

dispatchShell(c) ==
  /\ sess[c] = "resolved" /\ SessIs(c, "counted")
  /\ UNCHANGED <<srv, ro, credit, reqVars, queue, reply, did, everOpened, shut, run, abandoned, downVars>>

Sealed == run \in {"sealed", "returned"}

\* runShellSession, up to the command: no executor, no mounts, no sandbox or
\* no terminal refuses it.
runShellSession(c) ==
  /\ sess[c] = "counted"
  /\ \/ refuseShell(c) /\ UNCHANGED <<everOpened, did>>
     \/ /\ SessIs(c, "running") /\ did' = did \cup {c}
        /\ everOpened' = (IF Sealed THEN everOpened ELSE everOpened \cup {c}) /\ UNCHANGED reply
  /\ UNCHANGED <<srv, ro, credit, reqVars, queue, shut, run, abandoned, downVars>>

\* The command ends by itself, because clientStdin saw the connection break,
\* or because the session's context is done.
ShellSessionEnds(c) ==
  /\ sess[c] = "running" /\ SessIs(c, "ended")
  /\ shut' = (IF Sealed THEN shut ELSE shut \cup {c})
  /\ reply' = [reply EXCEPT ![c] = "ok"]
  /\ UNCHANGED <<srv, ro, credit, reqVars, queue, did, everOpened, run, abandoned, downVars>>

\* closeShells cancels, then waits for what has been counted, or its grace.
closeShells ==
  /\ run = "going" /\ run' = "cancelled"
  /\ UNCHANGED <<srv, ro, credit, reqVars, queue, reply, did, sess, everOpened, shut, abandoned, downVars>>

Counted == {c \in Callers : sess[c] \in {"counted", "running"}}
shellsWaited ==
  /\ run = "cancelled" /\ run' = "waited" /\ abandoned' = (Counted # {})
  /\ UNCHANGED <<srv, ro, credit, reqVars, queue, reply, did, sess, everOpened, shut, downVars>>

\* run.finished seals the stream; Run returns and drainShells refuses nobody,
\* the channel being unbuffered.
RunEnds ==
  /\ \/ run = "waited" /\ run' = "sealed"
     \/ run = "sealed" /\ run' = "returned"
  /\ UNCHANGED <<srv, ro, credit, reqVars, queue, reply, did, sess, everOpened, shut, abandoned, downVars>>

-----------------------------------------------------------------------------
(* Closing.                                                                *)

ClientLeaves(c) ==
  /\ conn[c] \in {"http", "taken"} /\ hat[c] # "gone" /\ conn' = [conn EXCEPT ![c] = "closed"]
  /\ UNCHANGED <<srv, ro, credit, call, hat, reg, got, engVars, downVars>>

\* Attach.Close closes the hub before the server.
HubCloses ==
  /\ ~hubClosed /\ run = "returned" /\ hubClosed' = TRUE
  /\ UNCHANGED <<srv, ro, credit, reqVars, engVars, closing, sdone, listening, once, closer>>

CloserAt(k, where) == closer' = [closer EXCEPT ![k] = where]

\* closeOnce.Do: a second caller waits for the first one's function.
AttachClose(k) ==
  /\ srv \in {"unix", "tcp"} /\ closer[k] = "no" /\ (k = "embedder" => hubClosed)
  /\ IF once = "free" THEN closing' = TRUE /\ once' = "busy" /\ CloserAt(k, "drain")
     ELSE CloserAt(k, "once") /\ UNCHANGED <<closing, once>>
  /\ UNCHANGED <<srv, ro, credit, reqVars, engVars, hubClosed, sdone, listening>>

\* The pre-drain waits for the tracked handlers, or streamWriteTimeout.
preDrain(k) ==
  /\ \/ closer[k] = "drain" /\ sdone' = TRUE /\ once' = "finished"
     \/ closer[k] = "once" /\ once = "finished" /\ UNCHANGED <<sdone, once>>
  /\ CloserAt(k, "conns")
  /\ UNCHANGED <<srv, ro, credit, reqVars, engVars, hubClosed, closing, listening>>

closeShellConns(k) ==
  /\ closer[k] = "conns" /\ CloserAt(k, "http")
  /\ conn' = [c \in Callers |-> IF c \in reg THEN "closed" ELSE conn[c]] /\ reg' = {}
  /\ UNCHANGED <<srv, ro, credit, call, hat, got, engVars, hubClosed, closing, sdone, listening, once>>

\* http.Server.Close does not know the hijacked connections.
httpClose(k) ==
  /\ closer[k] = "http" /\ CloserAt(k, "wait") /\ listening' = FALSE
  /\ conn' = [c \in Callers |-> IF conn[c] = "http" THEN "closed" ELSE conn[c]]
  /\ UNCHANGED <<srv, ro, credit, call, hat, reg, got, engVars, hubClosed, closing, sdone, once>>

wgWait(k) ==
  /\ closer[k] = "wait" /\ Tracked = {} /\ CloserAt(k, "returned")
  /\ UNCHANGED <<srv, ro, credit, reqVars, engVars, hubClosed, closing, sdone, listening, once>>

CloseStep(k) == preDrain(k) \/ closeShellConns(k) \/ httpClose(k) \/ wgWait(k)
HandlerStep(c) ==
  \/ Admit(c) \/ handleControl(c) \/ submitControl(c) \/ awaitReply(c) \/ ContextDone(c)
  \/ handleShell(c) \/ Hijack(c) \/ addShellConn(c) \/ Offer(c) \/ sessionWait(c)
SessionStep(c) == resolveShellStep(c) \/ dispatchShell(c) \/ runShellSession(c) \/ ShellSessionEnds(c)

AttachNext ==
  \/ listen \/ Refill \/ EngineControl \/ closeShells \/ shellsWaited \/ RunEnds \/ HubCloses
  \/ \E c \in Callers : Call(c) \/ HandlerStep(c) \/ SessionStep(c) \/ ClientLeaves(c)
  \/ \E k \in Closers : AttachClose(k) \/ CloseStep(k)

\* Goroutines are scheduled, and each of a handler's waits is bounded.
AttachFairness ==
  /\ \A c \in Callers : WF_attachVars(HandlerStep(c))
  /\ \A k \in Closers : WF_attachVars(CloseStep(k))
AttachSpec == AttachInit /\ [][AttachNext]_attachVars /\ AttachFairness

-----------------------------------------------------------------------------
\* Once any Close call is back no tracked handler runs and no connection a
\* session was given is open, whatever was being hijacked or registered when
\* it began (server.go:596, shell.go:251). What a client was told is what
\* happened: a refused request did nothing, an accepted one did; and a client
\* with the right credential is admitted however often others failed
\* (token.go:113).
AttachIsHonest ==
  /\ \A k \in Closers : closer[k] = "returned" =>
       Tracked = {} /\ reg = {} /\ \A c \in Callers : conn[c] # "taken"
  /\ \A c \in Callers : /\ got[c] \in Refusals => c \notin did
                        /\ got[c] = "ok" => c \in did
                        /\ got[c] \in {"unauthorized", "throttled"} => ~call[c].good

\* A Close that has begun returns, whatever the engine and the clients do.
AttachCloseReturns == \A k \in Closers : closer[k] # "no" ~> closer[k] = "returned"

\* What shell.go:183 says of closeShells: "so every shell.closed lands BEFORE
\* run.finished seals the stream", short of its grace running out.
SessionsAreClosed == Sealed /\ ~abandoned => everOpened \subseteq shut
=============================================================================
