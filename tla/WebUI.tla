------------------------------- MODULE WebUI -------------------------------
(***************************************************************************)
(* The browser front end: a loopback server whose one-time link becomes a  *)
(* session cookie, and which relays reads and control operations to a      *)
(* run's attach server under two timers of its own. Several tabs may open   *)
(* the link, and pages of other origins may ask too; the attach server is  *)
(* as handleControl has it: a wait to be queued, then a wait for the reply. *)
(***************************************************************************)
EXTENDS Naturals, Sequences, SequencesExt

CONSTANTS Tabs,          \* the browser tabs and tools that send requests
          ControlTimeout,\* attachsrv's controlTimeout, in clock ticks
          HeaderBudget,  \* webui's upstreamHeaderBudget, in ticks
          ControlBudget, \* webui's controlHeaderBudget, in ticks
          Requests       \* bound on the requests a tab sends

VARIABLES
  server,    \* "off", "refused" (never served), "serving", "died", "closed"
  consumed,  \* handoff.consumed
  cookie,    \* the tabs that hold the session credential
  uiAt,       \* where a tab's request is: "idle", "guard", "session", "route", "relay"
  req,       \* the request itself
  ans,       \* the answer the tab last got
  age,       \* ticks since the relay sent it
  up,        \* the attach server's part: "none", "submit", "waiting", "answered",
             \* or "orphan" (in the engine's hands, its waiter gone)
  wait,      \* ticks the attach server has waited, in the wait it is in
  upReply,     \* its answer: "none", "body", "ok", "refused", "unqueued", "timeout"
  applied,   \* how often the engine applied the request
  sends      \* requests a tab has sent

uiVars == <<server, consumed, cookie, uiAt, req, ans, age, up, wait, upReply, applied, sends>>
upVars == <<up, wait, upReply, applied>>

\* Everything but the listed routes, the shell among it, is not found.
Routes == {"link", "guess", "page", "read", "control", "unlisted"}
Senders == {"page", "otherPort", "rebound", "tool"}
NoRequest == [kind |-> "page", from |-> "page"]

UiInit ==
  /\ server = "off" /\ consumed = FALSE /\ cookie = {} /\ uiAt = [t \in Tabs |-> "idle"]
  /\ req = [t \in Tabs |-> NoRequest] /\ ans = [t \in Tabs |-> "none"] /\ age = [t \in Tabs |-> 0]
  /\ up = [t \in Tabs |-> "none"] /\ wait = [t \in Tabs |-> 0] /\ upReply = [t \in Tabs |-> "none"]
  /\ applied = [t \in Tabs |-> 0] /\ sends = [t \in Tabs |-> 0]

-----------------------------------------------------------------------------
(* Listen, Wait and Close.                                                 *)

\* The address must be a loopback one, however it is spelled.
bindIsLoopback == {TRUE, FALSE}
\* The engine must answer and take the token before anything is served.
checkUpstream == {TRUE, FALSE}

uiListen ==
  /\ server = "off"
  /\ \E loopback \in bindIsLoopback, reachable \in checkUpstream :
       server' = IF loopback /\ reachable THEN "serving" ELSE "refused"
  /\ UNCHANGED <<consumed, cookie, uiAt, req, ans, age, upVars, sends>>

\* A request the engine has been given is not taken back with its connection.
Abandoned(t) == IF up[t] = "waiting" THEN "orphan" ELSE "none"

\* Every connection goes with the server, in its handlers and upstream.
CloseServer(end) ==
  /\ server = "serving" /\ server' = end
  /\ ans' = [t \in Tabs |-> IF uiAt[t] = "idle" THEN ans[t] ELSE "cut"]
  /\ uiAt' = [t \in Tabs |-> "idle"] /\ up' = [t \in Tabs |-> Abandoned(t)]
  /\ UNCHANGED <<consumed, cookie, req, age, wait, upReply, applied, sends>>
UiClose == CloseServer("closed")
listenerDies == CloseServer("died")

-----------------------------------------------------------------------------
(* Requests, and what the browser says about them.                         *)

\* A page on another loopback port is the same site, so the cookie rides on
\* its requests; a rebound name is not, and a tool has no cookie at all.
presentedSession(t) == t \in cookie /\ req[t].from \in {"page", "otherPort"}
checkHost(t) == req[t].from # "rebound"
\* An old browser sends no Sec-Fetch-Site: its absence passes.
checkFetchSite(t) == IF req[t].from = "otherPort" THEN {TRUE, FALSE} ELSE {TRUE}
checkOrigin(t) == req[t].from = "page"

send(t) ==
  /\ server = "serving" /\ uiAt[t] = "idle" /\ sends[t] < Requests
  /\ \E k \in Routes, f \in Senders : req' = [req EXCEPT ![t] = [kind |-> k, from |-> f]]
  /\ uiAt' = [uiAt EXCEPT ![t] = "guard"] /\ ans' = [ans EXCEPT ![t] = "none"] /\ sends' = [sends EXCEPT ![t] = @ + 1]
  /\ up' = [up EXCEPT ![t] = "none"] /\ applied' = [applied EXCEPT ![t] = 0] /\ upReply' = [upReply EXCEPT ![t] = "none"]
  /\ wait' = [wait EXCEPT ![t] = 0] /\ age' = [age EXCEPT ![t] = 0]
  /\ UNCHANGED <<server, consumed, cookie>>

UiAnswer(t, a) == uiAt' = [uiAt EXCEPT ![t] = "idle"] /\ ans' = [ans EXCEPT ![t] = a]
Handler == UNCHANGED <<server, req, age, upVars, sends>>

guard(t) ==
  /\ uiAt[t] = "guard" /\ Handler /\ UNCHANGED <<consumed, cookie>>
  /\ \E site \in checkFetchSite(t) :
       IF checkHost(t) /\ site
       THEN uiAt' = [uiAt EXCEPT ![t] = IF req[t].kind \in {"link", "guess"} THEN "route" ELSE "session"] /\ UNCHANGED ans
       ELSE UiAnswer(t, "notfound")

requireSession(t) ==
  /\ uiAt[t] = "session" /\ Handler /\ UNCHANGED <<consumed, cookie>>
  /\ \/ req[t].kind = "unlisted" /\ UiAnswer(t, "notfound")
     \/ req[t].kind # "unlisted" /\ ~presentedSession(t) /\ UiAnswer(t, "forbidden")
     \/ req[t].kind # "unlisted" /\ presentedSession(t) /\ uiAt' = [uiAt EXCEPT ![t] = "route"] /\ UNCHANGED ans

\* Mutant: the link is looked at, and spent by whoever was given the session.
ClaimUnspent(t) == [won |-> req[t].kind = "link" /\ \A o \in Tabs : o = t \/ ans[o] # "session", spent |-> consumed]

\* claim: a wrong nonce does not spend the link; the right one does, once.
claim(t) == [won |-> req[t].kind = "link" /\ ~consumed, spent |-> consumed \/ req[t].kind = "link"]

handleHandoff(t) ==
  /\ uiAt[t] = "route" /\ req[t].kind \in {"link", "guess"} /\ Handler
  /\ consumed' = claim(t).spent
  /\ \/ claim(t).won /\ cookie' = cookie \cup {t} /\ UiAnswer(t, "session")
     \/ ~claim(t).won /\ UiAnswer(t, "notfound") /\ UNCHANGED cookie

\* The page and its assets: the name must be one of the bundle.
serve(t) ==
  /\ uiAt[t] = "route" /\ req[t].kind = "page" /\ Handler /\ UNCHANGED <<consumed, cookie>>
  /\ \E a \in {"asset", "notfound"} : UiAnswer(t, a)

Relay(t) == uiAt' = [uiAt EXCEPT ![t] = "relay"] /\ UNCHANGED <<server, consumed, cookie, req, ans, sends, upReply, applied>>

\* Only the listed routes cross, with none of the browser's headers.
forwardable(t) == req[t].kind = "read"
handleAPI(t) ==
  /\ uiAt[t] = "route" /\ forwardable(t) /\ Relay(t)
  /\ age' = [age EXCEPT ![t] = 0] /\ up' = [up EXCEPT ![t] = "waiting"] /\ wait' = [wait EXCEPT ![t] = 0]

\* A body too long, no frame, or an operation outside the list.
controllableOps == {TRUE, FALSE}

\* Mutant: a request that sends no Origin is taken for the page's own.
ControlOpen(t) ==
  /\ uiAt[t] = "route" /\ req[t].kind = "control"
  /\ \E ok \in controllableOps :
       \/ ~ok /\ UiAnswer(t, "forbidden") /\ Handler /\ UNCHANGED <<consumed, cookie>>
       \/ ok /\ Relay(t) /\ age' = [age EXCEPT ![t] = 0] /\ up' = [up EXCEPT ![t] = "submit"] /\ wait' = [wait EXCEPT ![t] = 0]

uiHandleControl(t) ==
  /\ uiAt[t] = "route" /\ req[t].kind = "control"
  /\ \E ok \in controllableOps :
       \/ ~(checkOrigin(t) /\ ok) /\ UiAnswer(t, IF checkOrigin(t) THEN "forbidden" ELSE "notfound") /\ Handler /\ UNCHANGED <<consumed, cookie>>
       \/ checkOrigin(t) /\ ok /\ Relay(t) /\ age' = [age EXCEPT ![t] = 0] /\ up' = [up EXCEPT ![t] = "submit"] /\ wait' = [wait EXCEPT ![t] = 0]

-----------------------------------------------------------------------------
(* The attach server, and the wait for it.                                 *)

Upstream == UNCHANGED <<server, consumed, cookie, uiAt, req, ans, age, sends>>
Budget(t) == IF req[t].kind = "control" THEN ControlBudget ELSE HeaderBudget

\* The engine takes the request off the channel, and applies it or refuses it,
\* whether or not somebody still waits for its reply.
queueAccepts(t) ==
  /\ up[t] = "submit" /\ up' = [up EXCEPT ![t] = "waiting"] /\ wait' = [wait EXCEPT ![t] = 0]
  /\ Upstream /\ UNCHANGED <<upReply, applied>>
engineApplies(t) ==
  /\ up[t] \in {"waiting", "orphan"} \/ upReply[t] = "timeout"
  /\ req[t].kind = "control" /\ applied[t] = 0 /\ applied' = [applied EXCEPT ![t] = 1]
  /\ Upstream /\ UNCHANGED <<up, wait, upReply>>
replied(t) ==
  /\ up[t] = "waiting" /\ up' = [up EXCEPT ![t] = "answered"]
  /\ upReply' = [upReply EXCEPT ![t] = IF req[t].kind = "read" THEN "body" ELSE IF applied[t] = 1 THEN "ok" ELSE "refused"]
  /\ Upstream /\ UNCHANGED <<wait, applied>>
controlTimeout(t) ==
  /\ up[t] \in {"submit", "waiting"} /\ req[t].kind = "control" /\ wait[t] = ControlTimeout
  /\ up' = [up EXCEPT ![t] = "answered"] /\ upReply' = [upReply EXCEPT ![t] = IF up[t] = "submit" THEN "unqueued" ELSE "timeout"]
  /\ Upstream /\ UNCHANGED <<wait, applied>>

UiTick ==
  /\ server = "serving"
  /\ \A t \in Tabs : uiAt[t] = "relay" => age[t] < Budget(t) /\ (up[t] \in {"submit", "waiting"} => wait[t] < ControlTimeout)
  /\ \E t \in Tabs : uiAt[t] = "relay"
  /\ age' = [t \in Tabs |-> IF uiAt[t] = "relay" THEN age[t] + 1 ELSE age[t]]
  /\ wait' = [t \in Tabs |-> IF up[t] \in {"submit", "waiting"} /\ req[t].kind = "control" THEN wait[t] + 1 ELSE wait[t]]
  /\ UNCHANGED <<server, consumed, cookie, uiAt, req, ans, up, upReply, applied, sends>>

\* Mutant: an answer that did not come is told as one that did.
ForwardTrusting(t) ==
  /\ uiAt[t] = "relay" /\ UNCHANGED <<server, consumed, cookie, req, age, wait, upReply, applied, sends>>
  /\ \/ up[t] = "answered" /\ UiAnswer(t, upReply[t]) /\ up' = [up EXCEPT ![t] = "none"]
     \/ age[t] = Budget(t) /\ UiAnswer(t, "ok") /\ up' = [up EXCEPT ![t] = Abandoned(t)]

\* forward and forwardControl: the answer as it is, or a 502 of our own; the
\* client's cut connection ends the attach server's wait.
forward(t) ==
  /\ uiAt[t] = "relay" /\ UNCHANGED <<server, consumed, cookie, req, age, wait, upReply, applied, sends>>
  /\ \/ up[t] = "answered" /\ UiAnswer(t, upReply[t]) /\ up' = [up EXCEPT ![t] = "none"]
     \/ age[t] = Budget(t) /\ UiAnswer(t, "badgateway") /\ up' = [up EXCEPT ![t] = Abandoned(t)]

UiNext ==
  \/ uiListen \/ UiClose \/ listenerDies \/ UiTick
  \/ \E t \in Tabs :
       \/ send(t) \/ guard(t) \/ requireSession(t) \/ handleHandoff(t) \/ serve(t) \/ handleAPI(t) \/ uiHandleControl(t)
       \/ queueAccepts(t) \/ engineApplies(t) \/ replied(t) \/ controlTimeout(t) \/ forward(t)
UiSpec == UiInit /\ [][UiNext]_uiVars

-----------------------------------------------------------------------------
\* One tab ever holds the session, however many open the link at once, and a
\* guess never spends it; what the engine applied was asked by the session's
\* own page, and a tab is told that its operation was applied, or was refused,
\* only when it was, whichever timer ended its wait
\* (session.go claim, control.go checkOrigin and forwardControl).
UiIsHonest ==
  /\ \A s, t \in cookie : s = t
  /\ (\A t \in Tabs : req[t].kind # "link" /\ sends[t] <= 1) => ~consumed
  /\ \A t \in Tabs : applied[t] > 0 => t \in cookie /\ req[t].from = "page"
  /\ \A t \in Tabs : (ans[t] = "ok" => applied[t] = 1) /\ (ans[t] \in {"refused", "unqueued", "forbidden"} => applied[t] = 0)

\* The attach server's own verdict reaches the page: the proxy's wait is
\* "deliberately LONGER" than that server's, so a request that is alive is
\* never answered with an opaque 502 (control.go 146).
OwnVerdictReaches ==
  \A t \in Tabs : req[t].kind = "control" => ans[t] # "badgateway"

-----------------------------------------------------------------------------
(* The page behind that server (internal/webui/client): it folds the run's *)
(* events, tops up the log of the one step somebody looks at, sends one    *)
(* control request at a time and paints when something changed.  One lock  *)
(* covers its state, and the poller gives it up while a slice of a log is  *)
(* on its way: a click, a snapshot or a new attempt may come first.        *)
(* A byte of a log is the file it is in and its place there.               *)

CONSTANTS
  PageSteps,
  PageBusy,    \* those that write and are tried again
  PageStreams,
  PageTail,    \* logTailBytes
  PageTries,   \* bound on a step's attempts
  PageBytes,   \* bound on what the run writes to its logs
  PageClicks   \* bound on what the person does

ASSUME PageAssumption == PageTail \in Nat \ {0} /\ PageTries \in Nat \ {0} /\ "stdout" \in PageStreams

VARIABLES
  fileSize,     \* the engine's log files: <<step, attempt, stream>> -> length
  attemptNow,  \* the attempt each step is at
  seen,        \* app.state: the attempt and the marks folded, or nothing
  selected, stream,
  logs,        \* app.logs
  fetching,    \* the slice the poller is waiting for
  sending, controlSeq, notice,
  clicks,
  underway     \* a tail was dropped while more of it was on its way

pageVars == <<fileSize, attemptNow, seen, selected, stream, logs, fetching, sending, controlSeq, notice,
              clicks, underway>>
pageRunVars == <<fileSize, attemptNow>>
viewVars   == <<selected, stream>>
sendVars   == <<sending, controlSeq, notice>>

Nothing == <<>>
FileIds == PageSteps \X (1..PageTries) \X PageStreams
BytesWritten == MapThenSumSet(LAMBDA f : fileSize[f], FileIds)
Truth == [s \in PageSteps |-> [attempt |-> attemptNow[s],
                               marks |-> [t \in PageStreams |-> fileSize[<<s, attemptNow[s], t>>]]]]

PageInit ==
  /\ fileSize = [f \in FileIds |-> 0] /\ attemptNow = [s \in PageSteps |-> 1]
  /\ seen = Nothing /\ selected = "" /\ stream = "stdout" /\ logs = [s \in PageSteps |-> Nothing]
  /\ fetching = Nothing /\ sending = 0 /\ controlSeq = 0 /\ notice = 0
  /\ clicks = PageClicks /\ underway = FALSE

-----------------------------------------------------------------------------
(* The run.                                                                *)

StepWrites(s, t) ==
  /\ s \in PageBusy /\ BytesWritten < PageBytes /\ fileSize' = [fileSize EXCEPT ![<<s, attemptNow[s], t>>] = @ + 1]
  /\ UNCHANGED <<attemptNow, seen, viewVars, logs, fetching, sendVars, clicks, underway>>
StepRetries(s) ==
  /\ s \in PageBusy /\ attemptNow[s] < PageTries /\ attemptNow' = [attemptNow EXCEPT ![s] = @ + 1]
  /\ UNCHANGED <<fileSize, seen, viewVars, logs, fetching, sendVars, clicks, underway>>

-----------------------------------------------------------------------------
(* The fold: tail.Run calls back with the lock held.                       *)

\* A snapshot replaces everything, the fetched tails too.
onSnapshot ==
  /\ seen' = Truth /\ logs' = [s \in PageSteps |-> Nothing]
  /\ underway' = (underway \/ fetching # Nothing)
  /\ UNCHANGED <<pageRunVars, viewVars, fetching, sendVars, clicks>>

\* Events of one step: its attempts and the marks of its streams.
onFold(s) ==
  /\ seen # Nothing /\ seen[s] # Truth[s] /\ seen' = [seen EXCEPT ![s] = Truth[s]]
  /\ UNCHANGED <<pageRunVars, viewVars, logs, fetching, sendVars, clicks, underway>>

-----------------------------------------------------------------------------
(* The person.                                                             *)

onStepClick(s) ==
  /\ clicks > 0 /\ clicks' = clicks - 1 /\ selected' = s
  /\ UNCHANGED <<pageRunVars, seen, stream, logs, fetching, sendVars, underway>>

\* The cached tail belongs to the other stream.
onStreamClick(t) ==
  /\ clicks > 0 /\ clicks' = clicks - 1 /\ stream' = t
  /\ logs' = IF selected = "" THEN logs ELSE [logs EXCEPT ![selected] = Nothing]
  /\ underway' = (underway \/ fetching # Nothing)
  /\ UNCHANGED <<pageRunVars, seen, selected, fetching, sendVars>>

\* sendControl: one at a time; a click beside it does nothing.
sendControl ==
  /\ clicks > 0 /\ clicks' = clicks - 1
  /\ IF sending # 0 THEN UNCHANGED sendVars
     ELSE controlSeq' = controlSeq + 1 /\ sending' = controlSeq + 1 /\ notice' = 0
  /\ UNCHANGED <<pageRunVars, seen, viewVars, logs, fetching, underway>>

\* controlOutcome: accepted or refused, the notice names the request; nothing
\* of the run changes but by its events.
controlOutcome ==
  /\ sending # 0 /\ sending' = 0 /\ notice' = sending
  /\ UNCHANGED <<pageRunVars, seen, viewVars, logs, fetching, controlSeq, clicks, underway>>

-----------------------------------------------------------------------------
(* The poller.                                                             *)

\* Mutant: a new attempt goes on in the old one's tail.
AnyAttempt(s, t) == logs[s] # Nothing /\ logs[s].stream = t

CurrentTail(s, t) == logs[s] # Nothing /\ logs[s].attempt = seen[s].attempt /\ logs[s].stream = t

\* topUpLog up to the unlock: a tail of another attempt or stream is dropped,
\* and a slice is asked for when the mark is past what was read.
topUpLog ==
  LET s == selected  cur == CurrentTail(s, stream)
      from == IF cur THEN logs[s].offset ELSE 0 IN
  /\ fetching = Nothing /\ seen # Nothing /\ s # ""
  /\ logs' = IF cur THEN logs ELSE [logs EXCEPT ![s] = Nothing]
  /\ ~cur \/ seen[s].marks[stream] > from
  /\ fetching' = [step |-> s, attempt |-> seen[s].attempt, stream |-> stream, from |-> from]
  /\ UNCHANGED <<pageRunVars, seen, viewVars, sendVars, clicks, underway>>

\* fetchLog, readAllBounded: what the file holds from there on, PageTail at
\* most; a read that breaks off is an answer all the same.
Slices(f) ==
  LET length == fileSize[<<f.step, f.attempt, f.stream>>]
      upTo == IF length > f.from + PageTail THEN f.from + PageTail ELSE length
  IN {[i \in 1..n |-> <<f.step, f.attempt, f.stream, f.from + i>>] : n \in 0..(upTo - f.from)}

Bounded(text) == IF Len(text) > PageTail THEN SubSeq(text, Len(text) - PageTail + 1, Len(text)) ELSE text

\* The buffer after the answer: the one the slice was asked for, if it is
\* still kept, else a new one that begins where the slice does.
ToppedUp(f, body) ==
  LET same == logs[f.step] # Nothing /\ logs[f.step].attempt = f.attempt /\ logs[f.step].stream = f.stream
  IN [attempt |-> f.attempt, stream |-> f.stream, offset |-> f.from + Len(body),
      text |-> Bounded((IF same THEN logs[f.step].text ELSE <<>>) \o body)]

\* topUpLog from the answer on; an error leaves everything as it is.
logArrives ==
  /\ fetching # Nothing /\ fetching' = Nothing
  /\ \E body \in Slices(fetching) : logs' = [logs EXCEPT ![fetching.step] = ToppedUp(fetching, body)]
  /\ UNCHANGED <<pageRunVars, seen, viewVars, sendVars, clicks, underway>>
logFails ==
  /\ fetching # Nothing /\ fetching' = Nothing
  /\ UNCHANGED <<pageRunVars, seen, viewVars, logs, sendVars, clicks, underway>>

-----------------------------------------------------------------------------
\* paint, frameLocked: taken under the lock whenever something changed, the
\* tail kept for the selected step, if it is of the stream selected.
frame == [step |-> selected, stream |-> stream,
          log |-> IF selected # "" /\ logs[selected] # Nothing /\ logs[selected].stream = stream
                  THEN logs[selected].text ELSE <<>>]

PageNext ==
  \/ \E s \in PageSteps : StepRetries(s) \/ onFold(s) \/ onStepClick(s) \/ \E t \in PageStreams : StepWrites(s, t)
  \/ \E t \in PageStreams : onStreamClick(t)
  \/ onSnapshot \/ sendControl \/ controlOutcome \/ topUpLog \/ logArrives \/ logFails
PageSpec == PageInit /\ [][PageNext]_pageVars

-----------------------------------------------------------------------------
OneFile(text, s, t) ==
  \A i \in 1..Len(text) : /\ text[i][1] = s /\ text[i][3] = t
                          /\ text[i][2] = text[1][2] /\ text[i][4] = text[1][4] + i - 1

\* main.go:396: "A new attempt writes its own file from byte 0", and the page
\* keeps the file or the last PageTail of it.
TailIsComplete ==
  \A s \in PageSteps : (logs[s] # Nothing /\ logs[s].text # <<>> /\ Len(logs[s].text) < PageTail)
                         => logs[s].text[1][4] = 1

(* A log on the page is an unbroken stretch of one attempt's file, of the  *)
(* step and the stream it is shown under, whichever of a click, a snapshot *)
(* and a new attempt came while its bytes were on their way; it goes on    *)
(* where the next slice will be read; it begins where the file does, or is *)
(* as long as the page keeps, unless the tail it belonged to was dropped   *)
(* under the request; and a notice is about the request sent last          *)
(* (webui/client/main.go:416, main.go:146).                                *)
PageIsTheFile ==
  /\ OneFile(frame.log, frame.step, frame.stream)
  /\ \A s \in PageSteps : logs[s] # Nothing =>
       /\ OneFile(logs[s].text, s, logs[s].stream)
       /\ logs[s].text # <<>> => Last(logs[s].text)[2] = logs[s].attempt /\ Last(logs[s].text)[4] = logs[s].offset
       /\ (logs[s].text # <<>> /\ Len(logs[s].text) < PageTail /\ ~underway) => logs[s].text[1][4] = 1
  /\ notice \in {0, controlSeq}
=============================================================================
