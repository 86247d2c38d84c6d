---------------------------- MODULE OutcomeProofs ----------------------------
(***************************************************************************)
(* What is left of a run, and what is said of it, once it is over: the     *)
(* archive of its logs, the check run of the delivery that started it, the *)
(* exit code of the command that launched it, the pins it ran with, the    *)
(* exit codes of its steps, what the executors leave behind, the           *)
(* workspaces its steps worked in, and the services they used: a step that *)
(* needs a service has it for as long as it executes, for any number of    *)
(* consumers, slots and requests.                                          *)
(***************************************************************************)
EXTENDS MCLifecycles, ImageLock, SequenceTheorems, FiniteSetTheorems, TLAPS

-----------------------------------------------------------------------------
(* The archive.                                                            *)

ArchiveTypes ==
  /\ jobs \in Seq(Files) /\ worker \in [ArchiveWorkers -> Files \cup {Idler}]
  /\ toArchive \subseteq Files
  /\ archOpen \in BOOLEAN /\ off \in BOOLEAN /\ noticed \in BOOLEAN
  /\ closing \in {"no", "draining", "cancelled", "returned"}

\* A file that is not late is always somewhere: with the run, in the queue, with
\* a worker or in the archive.
Accounted(f) ==
  \/ f \in toArchive \/ f \in pointed
  \/ \E i \in 1..Len(jobs) : jobs[i] = f
  \/ \E w \in ArchiveWorkers : worker[w] = f

\* The run closes the archiver when it has handed everything over; whoever
\* loses a file has said so before; and Close returns to an empty house.
ArchiveKept ==
  /\ ArchiveTypes
  /\ pointed \subseteq half
  /\ archOpen <=> closing = "no"
  /\ off => noticed
  /\ Ledger \notin toArchive => toArchive \subseteq Late
  /\ closing # "no" => Ledger \notin toArchive
  /\ ~noticed => \A f \in Files \ Late : Accounted(f)
  /\ closing = "returned" => jobs = <<>> /\ \A w \in ArchiveWorkers : worker[w] = Idler

\* Handing a file over puts it in the queue, or says it is lost.
LEMMA Enqueued ==
  ASSUME ArchiveKept, NEW f \in Files, f \in toArchive, f \notin Late => closing = "no", enqueue(f),
         UNCHANGED <<archOpen, worker, half, pointed, off, closing>>,
         Ledger \notin toArchive' => toArchive' \subseteq Late
  PROVE  ArchiveKept'
<1>1. CASE off
  BY <1>1 DEF ArchiveKept, ArchiveTypes, enqueue
<1>2. CASE ~off /\ ~archOpen
  <2>1. /\ jobs' = jobs /\ noticed' = noticed /\ toArchive' = toArchive \ {f} /\ f \in Late
    BY <1>2 DEF enqueue, ArchiveKept
  <2>2. ASSUME ~noticed', NEW g \in Files \ Late PROVE Accounted(g)'
    BY <2>1, <2>2 DEF Accounted, ArchiveKept
  <2> QED
    BY <2>1, <2>2 DEF ArchiveKept, ArchiveTypes
<1>3. CASE ~off /\ archOpen /\ Len(jobs) < ArchiveQueue
  <2>1. /\ jobs' = Append(jobs, f) /\ noticed' = noticed /\ toArchive' = toArchive \ {f}
        /\ jobs \in Seq(Files)
    BY <1>3 DEF enqueue, ArchiveKept, ArchiveTypes
  <2>2. /\ jobs' \in Seq(Files) /\ Len(jobs') = Len(jobs) + 1 /\ jobs'[Len(jobs) + 1] = f
        /\ \A i \in 1..Len(jobs) : jobs'[i] = jobs[i]
    BY <2>1
  <2>3. ASSUME ~noticed', NEW g \in Files \ Late PROVE Accounted(g)'
    <3>1. Accounted(g)
      BY <2>1, <2>3 DEF ArchiveKept
    <3>2. CASE g = f
      BY <2>1, <2>2, <3>2 DEF Accounted
    <3>3. CASE g # f
      BY <2>1, <2>2, <3>1, <3>3 DEF Accounted
    <3> QED
      BY <3>2, <3>3
  <2> QED
    BY <1>3, <2>1, <2>2, <2>3 DEF ArchiveKept, ArchiveTypes
<1>4. CASE ~off /\ archOpen /\ ~(Len(jobs) < ArchiveQueue)
  BY <1>4 DEF ArchiveKept, ArchiveTypes, enqueue
<1> QED
  BY <1>1, <1>2, <1>3, <1>4

\* A worker takes the head of the queue; what was in the queue is there or with it.
LEMMA JobTaken ==
  ASSUME ArchiveKept, NEW w \in ArchiveWorkers, takeJob(w)
  PROVE  ArchiveKept'
<1>1. /\ worker[w] = Idler /\ jobs # <<>> /\ jobs \in Seq(Files) /\ jobs' = Tail(jobs)
      /\ worker' = [worker EXCEPT ![w] = IF off THEN Idler ELSE Head(jobs)]
      /\ worker \in [ArchiveWorkers -> Files \cup {Idler}]
      /\ UNCHANGED <<archOpen, half, pointed, off, noticed, toArchive, closing>>
  BY DEF takeJob, ArchiveKept, ArchiveTypes
<1>2. /\ Head(jobs) \in Files /\ Head(jobs) = jobs[1] /\ Tail(jobs) \in Seq(Files)
      /\ Len(Tail(jobs)) = Len(jobs) - 1 /\ \A i \in 1..Len(Tail(jobs)) : Tail(jobs)[i] = jobs[i + 1]
  BY <1>1
<1>3. worker' \in [ArchiveWorkers -> Files \cup {Idler}]
  BY <1>1, <1>2
<1>4. closing # "returned"
  BY <1>1 DEF ArchiveKept
<1>5. ASSUME ~noticed', NEW g \in Files \ Late PROVE Accounted(g)'
  <2>1. Accounted(g) /\ ~off
    BY <1>1, <1>5 DEF ArchiveKept
  <2>2. CASE g \in toArchive \/ g \in pointed
    BY <1>1, <2>2 DEF Accounted
  <2>3. ASSUME NEW v \in ArchiveWorkers, worker[v] = g PROVE Accounted(g)'
    <3>1. v # w
      BY <1>1, <2>3, ArchiveAssumption DEF Files, Ledger, Idler
    <3> QED
      BY <1>1, <2>3, <3>1 DEF Accounted
  <2>4. ASSUME NEW i \in 1..Len(jobs), jobs[i] = g PROVE Accounted(g)'
    <3>1. CASE i = 1
      BY <1>1, <1>2, <2>1, <2>4, <3>1 DEF Accounted
    <3>2. CASE i # 1
      <4>1. i - 1 \in 1..Len(Tail(jobs)) /\ Tail(jobs)[i - 1] = g
        BY <1>1, <1>2, <2>4, <3>2
      <4> QED
        BY <1>1, <4>1 DEF Accounted
    <3> QED
      BY <3>1, <3>2
  <2> QED
    BY <2>1, <2>2, <2>3, <2>4 DEF Accounted
<1> QED
  BY <1>1, <1>2, <1>3, <1>4, <1>5 DEF ArchiveKept, ArchiveTypes

\* A worker is done with its file: it is pointed at, or the loss is reported.
LEMMA WorkerDone ==
  ASSUME ArchiveKept, NEW w \in ArchiveWorkers, putPointer(w) \/ failUpload(w)
  PROVE  ArchiveKept'
<1>1. /\ worker' = [worker EXCEPT ![w] = Idler] /\ worker \in [ArchiveWorkers -> Files \cup {Idler}]
      /\ UNCHANGED <<jobs, archOpen, half, toArchive, closing>>
      /\ pointed \subseteq half /\ pointed \subseteq pointed' /\ pointed' \subseteq half
  BY DEF putPointer, failUpload, ArchiveKept, ArchiveTypes
<1>2. worker' \in [ArchiveWorkers -> Files \cup {Idler}] /\ off' \in BOOLEAN /\ noticed' \in BOOLEAN
  BY <1>1 DEF putPointer, failUpload, ArchiveKept, ArchiveTypes
<1>3. ASSUME ~noticed', NEW g \in Files \ Late PROVE Accounted(g)'
  <2>1. ~noticed /\ pointed' = pointed \cup {worker[w]}
    BY <1>3 DEF putPointer, failUpload
  <2>2. Accounted(g)
    BY <1>3, <2>1 DEF ArchiveKept
  <2> QED
    BY <1>1, <2>1, <2>2 DEF Accounted
<1>4. /\ off' => noticed'
      /\ closing' = "returned" => jobs' = <<>> /\ \A v \in ArchiveWorkers : worker'[v] = Idler
  BY <1>1 DEF putPointer, failUpload, ArchiveKept
<1> QED
  BY <1>1, <1>2, <1>3, <1>4 DEF ArchiveKept, ArchiveTypes

\* Everything else leaves the files where they are.
LEMMA ArchiveRest ==
  ASSUME ArchiveKept,
         \/ CloseArchiver \/ graceExpires \/ closeReturns \/ FetchLedger \/ ArchiveEnd
         \/ \E w \in ArchiveWorkers : putObject(w)
         \/ \E f \in Streams : FetchStream(f)
         \/ UNCHANGED archiveVars
  PROVE  ArchiveKept'
<1>1. /\ UNCHANGED <<jobs, worker, pointed, off, toArchive>> /\ half \subseteq half'
      /\ (noticed => noticed') /\ noticed' \in BOOLEAN /\ archOpen' \in BOOLEAN
      /\ closing' \in {"no", "draining", "cancelled", "returned"}
  BY DEF ArchiveKept, ArchiveTypes, CloseArchiver, graceExpires, closeReturns, FetchLedger, ArchiveEnd,
         putObject, FetchStream, archiveVars
<1>2. /\ archOpen' <=> closing' = "no"
      /\ closing' # "no" => Ledger \notin toArchive
      /\ closing' = "returned" => jobs = <<>> /\ \A w \in ArchiveWorkers : worker[w] = Idler
  BY DEF ArchiveKept, CloseArchiver, graceExpires, closeReturns, FetchLedger, ArchiveEnd,
         putObject, FetchStream, archiveVars, drainedUp
<1>3. ASSUME ~noticed', NEW g \in Files \ Late PROVE Accounted(g)'
  <2>1. Accounted(g)
    BY <1>1, <1>3 DEF ArchiveKept
  <2> QED
    BY <1>1, <2>1 DEF Accounted
<1>4. ArchiveTypes'
  BY <1>1 DEF ArchiveKept, ArchiveTypes
<1>5. off' => noticed'
  BY <1>1, Zenon DEF ArchiveKept
<1>6. pointed' \subseteq half' /\ (Ledger \notin toArchive' => toArchive' \subseteq Late)
  BY <1>1 DEF ArchiveKept
<1> QED
  BY <1>1, <1>2, <1>3, <1>4, <1>5, <1>6 DEF ArchiveKept

\* For any number of logs and workers and any queue: a pointer in the archive
\* names an object that is there, and a Close that reported no degradation has
\* every file of the run in it (archiver.go Close, enqueue, work;
\* cmd_logs.go's absent).
THEOREM NothingIsLostInSilence == ArchiveSpec => []ArchiveIsHonest
<1>1. ArchiveInit => ArchiveKept
  <2> SUFFICES ASSUME ArchiveInit PROVE ArchiveKept
    OBVIOUS
  <2>1. jobs \in Seq(Files) /\ worker \in [ArchiveWorkers -> Files \cup {Idler}]
    BY DEF ArchiveInit
  <2>2. \A f \in Files \ Late : Accounted(f)
    BY DEF ArchiveInit, Accounted
  <2> QED
    BY <2>1, <2>2 DEF ArchiveInit, ArchiveKept, ArchiveTypes, Files
<1>2. ArchiveKept /\ [ArchiveNext]_archiveVars => ArchiveKept'
  <2> SUFFICES ASSUME ArchiveKept, [ArchiveNext]_archiveVars PROVE ArchiveKept'
    OBVIOUS
  <2>1. ASSUME NEW f \in Streams, archiveAttempt(f) PROVE ArchiveKept'
    <3>1. f \in Files /\ f \in toArchive /\ f # Ledger /\ (f \notin Late => closing = "no") /\ enqueue(f)
          /\ UNCHANGED <<archOpen, worker, half, pointed, off, closing>>
      BY <2>1, ArchiveAssumption DEF archiveAttempt, Files
    <3>2. Ledger \notin toArchive' => toArchive' \subseteq Late
      BY <3>1 DEF enqueue, ArchiveKept
    <3> QED
      BY <3>1, <3>2, Enqueued
  <2>2. CASE ArchiveLedger
    <3>1. Ledger \in Files /\ Ledger \in toArchive /\ closing = "no" /\ enqueue(Ledger)
          /\ UNCHANGED <<archOpen, worker, half, pointed, off, closing>>
      BY <2>2 DEF ArchiveLedger, Files
    <3>2. toArchive' \subseteq Late
      BY <2>2 DEF ArchiveLedger, enqueue, Files, ArchiveKept, ArchiveTypes
    <3> QED
      BY <3>1, <3>2, Enqueued
  <2>3. ASSUME NEW w \in ArchiveWorkers, takeJob(w) PROVE ArchiveKept'
    BY <2>3, JobTaken
  <2>4. ASSUME NEW w \in ArchiveWorkers, putPointer(w) \/ failUpload(w) PROVE ArchiveKept'
    BY <2>4, WorkerDone
  <2>5. CASE \/ CloseArchiver \/ graceExpires \/ closeReturns \/ FetchLedger \/ ArchiveEnd
             \/ \E w \in ArchiveWorkers : putObject(w)
             \/ \E f \in Streams : FetchStream(f)
             \/ UNCHANGED archiveVars
    BY <2>5, ArchiveRest
  <2> QED
    BY <2>1, <2>2, <2>3, <2>4, <2>5 DEF ArchiveNext, ArchiveWork
<1>3. ArchiveKept => ArchiveIsHonest
  <2> SUFFICES ASSUME ArchiveKept, closing = "returned", ~noticed, NEW f \in Files \ Late
               PROVE  f \in pointed
    BY DEF ArchiveKept, ArchiveIsHonest
  <2>1. Accounted(f) /\ f \notin toArchive /\ jobs = <<>> /\ \A w \in ArchiveWorkers : worker[w] = Idler
    BY DEF ArchiveKept
  <2>2. f # Idler
    BY ArchiveAssumption DEF Files, Ledger, Idler
  <2> QED
    BY <2>1, <2>2 DEF Accounted
<1> QED
  BY <1>1, <1>2, <1>3, PTL DEF ArchiveSpec

-----------------------------------------------------------------------------
(* The webhook dispatcher.                                                 *)

Places == {"new", "refused", "take", "displace", "stop", "poll", "busy", "failed", "timeout", "done"}
          \cup Holding
Codes == {"none", "ok", "nomatch", "failed", "killed", "nostart"}
Shown == {"none", "queued", "reported", "neutral", "failure", "success", "cancelled"}

DispatchTypes ==
  /\ handler \in [Deliveries -> Places]
  /\ holder \in Deliveries \cup {NoHolder} /\ running \in Deliveries \cup {NoHolder}
  /\ handle \in [Deliveries -> Deliveries \cup {NoHolder}]
  /\ ended \in [Deliveries -> BOOLEAN] /\ exit \in [Deliveries -> Codes]
  /\ check \in [Deliveries -> Shown] /\ reported \in [Deliveries -> BOOLEAN]
  /\ apiDown \in [Deliveries -> BOOLEAN]

\* The handle is the holder's, and there from before its process starts until
\* after it ended.
GroupKept(d) ==
  /\ handler[d] \in Holding <=> holder = d
  /\ handler[d] = "exec" => running = d
  /\ running = d => handler[d] \in {"exec", "close", "disarm"}

Truthful(d) ==
  /\ check[d] # "queued" /\ (reported[d] => check[d] = "reported")
  /\ check[d] = "success" => exit[d] = "ok"
  /\ check[d] = "cancelled" => ended[d] /\ exit[d] = "killed"
  /\ check[d] = "neutral" => handler[d] = "busy" \/ exit[d] = "nomatch"

\* What a check can say at each place; nothing but the pipeline itself touches
\* it between serve and the end.
CheckKept(d) ==
  /\ handler[d] = "new" => check[d] = "none" /\ ~reported[d]
  /\ handler[d] \in {"take", "displace", "stop", "poll", "stage", "arm"}
       => check[d] \in {"none", "queued"} /\ ~reported[d]
  /\ handler[d] \in {"exec", "close"}
       => check[d] \in {"none", "queued", "reported"} /\ (reported[d] <=> check[d] = "reported")
  /\ handler[d] = "close" => /\ exit[d] # "none"
                             /\ check[d] = "reported" => exit[d] \in {"ok", "failed", "killed"}
  /\ handler[d] \in {"busy", "failed", "timeout", "disarm", "release", "done"} /\ ~apiDown[d] => Truthful(d)

DispatchKept == DispatchTypes /\ \A d \in Deliveries : GroupKept(d) /\ CheckKept(d)

\* A delivery nothing happened to, but that its context may have ended.
LEMMA CheckAside ==
  ASSUME NEW e \in Deliveries, CheckKept(e), handler'[e] = handler[e], check'[e] = check[e], exit'[e] = exit[e],
         reported'[e] = reported[e], apiDown'[e] = apiDown[e], ended[e] => ended'[e]
  PROVE  CheckKept(e)'
BY DEF CheckKept, Truthful

\* complete writes the conclusion, or says that GitHub did not answer.
LEMMA Completes ==
  ASSUME DispatchTypes, NEW d \in Deliveries, NEW c \in Shown, complete(d, c)
  PROVE  /\ check' \in [Deliveries -> Shown] /\ apiDown' \in [Deliveries -> BOOLEAN]
         /\ \A e \in Deliveries \ {d} : check'[e] = check[e] /\ apiDown'[e] = apiDown[e]
         /\ apiDown'[d] \/ check'[d] = c \/ (check[d] = "none" /\ check'[d] = "none")
BY DEF DispatchTypes, complete

\* The step of one delivery leaves the others as they were.
LEMMA Finishes ==
  ASSUME DispatchTypes, NEW d \in Deliveries, CheckKept(d), handler[d] = "close", finish(d)
  PROVE  /\ check' \in [Deliveries -> Shown] /\ apiDown' \in [Deliveries -> BOOLEAN]
         /\ \A e \in Deliveries \ {d} : check'[e] = check[e] /\ apiDown'[e] = apiDown[e]
         /\ apiDown'[d] \/
            /\ check'[d] # "queued" /\ (reported[d] => check'[d] = "reported")
            /\ check'[d] = "success" => exit[d] = "ok"
            /\ check'[d] = "cancelled" => ended[d] /\ exit[d] = "killed"
            /\ check'[d] = "neutral" => exit[d] = "nomatch"
<1>0. /\ exit[d] \in {"ok", "nomatch", "failed", "killed", "nostart"}
      /\ check[d] \in {"none", "queued", "reported"} /\ (reported[d] <=> check[d] = "reported")
      /\ check[d] = "reported" => exit[d] \in {"ok", "failed", "killed"}
  BY DEF CheckKept, DispatchTypes, Codes
<1>1. CASE exit[d] = "nomatch"
  <2>1. complete(d, "neutral")
    BY <1>1 DEF finish
  <2> QED
    BY <1>0, <1>1, <2>1, Completes DEF Shown
<1>2. CASE exit[d] = "nostart"
  <2>1. complete(d, "failure")
    BY <1>2 DEF finish
  <2> QED
    BY <1>0, <1>2, <2>1, Completes DEF Shown
<1>3. CASE exit[d] \in {"ok", "failed", "killed"}
  <2> DEFINE c == CASE exit[d] = "ok" -> "success"
                    [] exit[d] = "killed" /\ ended[d] -> "cancelled"
                    [] OTHER -> "failure"
  <2>0. /\ c \in {"success", "cancelled", "failure"}
        /\ c = "success" => exit[d] = "ok"
        /\ c = "cancelled" => ended[d] /\ exit[d] = "killed"
    BY <1>3
  <2> HIDE DEF c
  <2>1. \/ check[d] = "reported" /\ UNCHANGED <<check, apiDown>>
        \/ check[d] # "reported" /\ complete(d, c)
        \/ check[d] = "reported" /\ apiDown' = [apiDown EXCEPT ![d] = TRUE]
           /\ check' \in {check, [check EXCEPT ![d] = c]}
    BY <1>3 DEF finish, c
  <2>2. CASE check[d] = "reported" /\ UNCHANGED <<check, apiDown>>
    BY <1>0, <2>2 DEF DispatchTypes
  <2>3. CASE check[d] # "reported" /\ complete(d, c)
    BY <1>0, <2>0, <2>3, Completes DEF Shown
  <2>4. CASE check[d] = "reported" /\ apiDown' = [apiDown EXCEPT ![d] = TRUE]
             /\ check' \in {check, [check EXCEPT ![d] = c]}
    BY <2>0, <2>4 DEF DispatchTypes, Shown
  <2> QED
    BY <2>1, <2>2, <2>3, <2>4
<1> QED
  BY <1>0, <1>1, <1>2, <1>3

\* serve, take and poll: a delivery that is turned away closes its check.
LEMMA Arrives ==
  ASSUME DispatchKept, NEW d \in Deliveries, serve(d) \/ take(d) \/ poll(d), UNCHANGED <<cancel, reported>>
  PROVE  DispatchKept'
<1>1. CASE serve(d)
  <2>1. /\ handler' = [handler EXCEPT ![d] = handler'[d]] /\ handler'[d] \in {"refused", "take"}
        /\ check' \in {check, [check EXCEPT ![d] = "queued"]}
        /\ UNCHANGED <<holder, running, handle, ended, exit, apiDown, reported>> /\ handler[d] = "new"
    BY <1>1 DEF serve, At, Go, DispatchKept, DispatchTypes
  <2>2. DispatchTypes' /\ \A e \in Deliveries \ {d} : handler'[e] = handler[e] /\ check'[e] = check[e]
    BY <2>1 DEF DispatchKept, DispatchTypes, Places, Shown
  <2>3. \A e \in Deliveries : GroupKept(e)'
    BY <2>1, <2>2 DEF DispatchKept, GroupKept, Holding
  <2>4. CheckKept(d)'
    BY <2>1 DEF DispatchKept, DispatchTypes, CheckKept
  <2>5. \A e \in Deliveries \ {d} : CheckKept(e)'
    BY <2>1, <2>2, CheckAside DEF DispatchKept
  <2> QED
    BY <2>2, <2>3, <2>4, <2>5 DEF DispatchKept
<1>2. CASE take(d) \/ poll(d)
  <2>0. handler[d] \in {"take", "poll"} /\ UNCHANGED <<running, handle, ended, exit, reported>>
        /\ check[d] \in {"none", "queued"} /\ ~reported[d] /\ holder # d /\ running # d
    BY <1>2 DEF take, poll, At, DispatchKept, CheckKept, GroupKept, Holding
  <2>1. \/ holder = NoHolder /\ holder' = d /\ Go(d, "stage") /\ UNCHANGED <<check, apiDown>>
        \/ Go(d, "displace") /\ UNCHANGED <<holder, check, apiDown>>
        \/ Go(d, "busy") /\ complete(d, "neutral") /\ UNCHANGED holder
        \/ Go(d, "failed") /\ complete(d, "failure") /\ UNCHANGED holder
        \/ Go(d, "timeout") /\ complete(d, "failure") /\ UNCHANGED holder
    BY <1>2 DEF take, poll, notRun
  <2>2. CASE holder = NoHolder /\ holder' = d /\ Go(d, "stage") /\ UNCHANGED <<check, apiDown>>
    <3>1. DispatchTypes' /\ handler'[d] = "stage" /\ \A e \in Deliveries \ {d} : handler'[e] = handler[e]
      BY <2>0, <2>2 DEF Go, DispatchKept, DispatchTypes, Places, Holding
    <3>2. \A e \in Deliveries : GroupKept(e)'
      BY <2>0, <2>2, <3>1, DispatchAssumption DEF DispatchKept, GroupKept, Holding
    <3>3. CheckKept(d)'
      BY <2>0, <2>2, <3>1 DEF CheckKept
    <3>4. \A e \in Deliveries \ {d} : CheckKept(e)'
      BY <2>0, <2>2, <3>1, CheckAside DEF DispatchKept
    <3> QED
      BY <3>1, <3>2, <3>3, <3>4 DEF DispatchKept
  <2>3. CASE Go(d, "displace") /\ UNCHANGED <<holder, check, apiDown>>
    <3>1. DispatchTypes' /\ handler'[d] = "displace" /\ \A e \in Deliveries \ {d} : handler'[e] = handler[e]
      BY <2>0, <2>3 DEF Go, DispatchKept, DispatchTypes, Places, Holding
    <3>2. \A e \in Deliveries : GroupKept(e)'
      BY <2>0, <2>3, <3>1 DEF DispatchKept, GroupKept, Holding
    <3>3. CheckKept(d)'
      BY <2>0, <2>3, <3>1 DEF CheckKept
    <3>4. \A e \in Deliveries \ {d} : CheckKept(e)'
      BY <2>0, <2>3, <3>1, CheckAside DEF DispatchKept
    <3> QED
      BY <3>1, <3>2, <3>3, <3>4 DEF DispatchKept
  <2>4. ASSUME NEW there \in {"busy", "failed", "timeout"}, NEW c \in {"neutral", "failure"},
               Go(d, there), complete(d, c), UNCHANGED holder, c = "neutral" => there = "busy"
        PROVE  DispatchKept'
    <3>1. /\ check' \in [Deliveries -> Shown] /\ apiDown' \in [Deliveries -> BOOLEAN]
          /\ \A e \in Deliveries \ {d} : check'[e] = check[e] /\ apiDown'[e] = apiDown[e]
          /\ apiDown'[d] \/ check'[d] = c \/ check'[d] = "none"
      BY <2>4, Completes DEF DispatchKept, Shown
    <3>2. DispatchTypes' /\ handler'[d] = there /\ \A e \in Deliveries \ {d} : handler'[e] = handler[e]
      BY <2>0, <2>4, <3>1 DEF Go, DispatchKept, DispatchTypes, Places
    <3>3. \A e \in Deliveries : GroupKept(e)'
      BY <2>0, <2>4, <3>2 DEF DispatchKept, GroupKept, Holding
    <3>4. CheckKept(d)'
      BY <2>0, <2>4, <3>1, <3>2 DEF CheckKept, Truthful
    <3>5. \A e \in Deliveries \ {d} : CheckKept(e)'
      BY <2>0, <3>1, <3>2, CheckAside DEF DispatchKept
    <3> QED
      BY <3>2, <3>3, <3>4, <3>5 DEF DispatchKept
  <2> QED
    BY <2>1, <2>2, <2>3, <2>4
<1> QED
  BY <1>1, <1>2

\* The displacing delivery reads the handle and calls it: a context ends.
LEMMA Displaces ==
  ASSUME DispatchKept, NEW d \in Deliveries,
         ((readRunning(d) \/ callStop(d)) /\ UNCHANGED <<cancel, reported>>) \/ timeout(d)
  PROVE  DispatchKept'
<1>1. /\ UNCHANGED <<holder, running, exit, check, reported, apiDown>>
      /\ handler' \in [Deliveries -> Places] /\ \A e \in Deliveries \ {d} : handler'[e] = handler[e]
      /\ handler'[d] = handler[d] \/ (handler[d] \in {"displace", "stop"} /\ handler'[d] \in {"stop", "poll"})
      /\ handle' \in [Deliveries -> Deliveries \cup {NoHolder}]
      /\ ended' \in [Deliveries -> BOOLEAN] /\ \A e \in Deliveries : ended[e] => ended'[e]
  BY DEF readRunning, callStop, timeout, At, Go, DispatchKept, DispatchTypes, Places
<1>2. DispatchTypes'
  BY <1>1 DEF DispatchKept, DispatchTypes
<1>3. \A e \in Deliveries : GroupKept(e)'
  BY <1>1 DEF DispatchKept, GroupKept, Holding
<1>4. \A e \in Deliveries \ {d} : CheckKept(e)'
  BY <1>1, CheckAside DEF DispatchKept
<1>5. CheckKept(d)'
  <2>1. CASE handler'[d] = handler[d]
    BY <1>1, <2>1, CheckAside DEF DispatchKept
  <2>2. CASE handler[d] \in {"displace", "stop"} /\ handler'[d] \in {"stop", "poll"}
    BY <1>1, <2>2 DEF DispatchKept, CheckKept
  <2> QED
    BY <1>1, <2>1, <2>2
<1> QED
  BY <1>2, <1>3, <1>4, <1>5 DEF DispatchKept

\* The run of the holder, from staging to the group it gives back.
LEMMA HolderRuns ==
  ASSUME DispatchKept, NEW d \in Deliveries,
         \/ (stage(d) \/ arm(d) \/ closeCheck(d) \/ disarm(d) \/ releaseGroup(d)) /\ UNCHANGED <<cancel, reported>>
         \/ pipelineReports(d) \/ pipelineEnds(d)
  PROVE  DispatchKept'
<1>0. /\ handler[d] \in Holding /\ holder = d /\ d # NoHolder
      /\ \A e \in Deliveries \ {d} : holder # e /\ running # e /\ handler[e] \notin Holding
  <2>1. handler[d] \in Holding
    BY DEF stage, arm, closeCheck, disarm, releaseGroup, pipelineReports, pipelineEnds, At, Holding
  <2>2. holder = d /\ d # NoHolder
    BY <2>1, DispatchAssumption DEF DispatchKept, GroupKept
  <2> QED
    BY <2>1, <2>2 DEF DispatchKept, GroupKept, Holding
<1>1. ASSUME /\ handler' \in [Deliveries -> Places] /\ exit' \in [Deliveries -> Codes]
             /\ ended' \in [Deliveries -> BOOLEAN] /\ check' \in [Deliveries -> Shown]
             /\ reported' \in [Deliveries -> BOOLEAN] /\ apiDown' \in [Deliveries -> BOOLEAN]
             /\ holder' \in {d, NoHolder} /\ running' \in {running, d, NoHolder} /\ UNCHANGED handle,
             \A e \in Deliveries \ {d} : /\ handler'[e] = handler[e] /\ exit'[e] = exit[e] /\ ended'[e] = ended[e]
                                         /\ check'[e] = check[e] /\ reported'[e] = reported[e]
                                         /\ apiDown'[e] = apiDown[e],
             GroupKept(d)', CheckKept(d)'
      PROVE  DispatchKept'
  <2>1. DispatchTypes'
    BY <1>1 DEF DispatchKept, DispatchTypes
  <2>2. \A e \in Deliveries \ {d} : holder' # e /\ running' # e
    BY <1>0, <1>1, DispatchAssumption
  <2>3. \A e \in Deliveries \ {d} : GroupKept(e)'
    BY <1>0, <1>1, <2>2 DEF GroupKept, Holding
  <2>4. \A e \in Deliveries \ {d} : CheckKept(e)'
    BY <1>1, CheckAside DEF DispatchKept
  <2> QED
    BY <1>1, <2>1, <2>3, <2>4 DEF DispatchKept
<1> USE DEF At, Go
<1>2. CASE stage(d) /\ UNCHANGED <<cancel, reported>>
  <2>1. handler[d] = "stage" /\ check[d] \in {"none", "queued"} /\ ~reported[d] /\ running # d
    BY <1>2 DEF stage, DispatchKept, CheckKept, GroupKept
  <2>2. CASE Go(d, "arm") /\ UNCHANGED <<exit, check, apiDown>>
    <3>1. GroupKept(d)' /\ CheckKept(d)'
      BY <1>0, <1>2, <2>1, <2>2 DEF stage, DispatchKept, DispatchTypes, GroupKept, CheckKept, Holding
    <3> QED
      BY <1>0, <1>1, <1>2, <2>2, <3>1 DEF stage, DispatchKept, DispatchTypes, Places, Holding
  <2>3. CASE Go(d, "release") /\ exit' = [exit EXCEPT ![d] = "nostart"] /\ complete(d, "failure")
    <3>1. /\ check' \in [Deliveries -> Shown] /\ apiDown' \in [Deliveries -> BOOLEAN]
          /\ \A e \in Deliveries \ {d} : check'[e] = check[e] /\ apiDown'[e] = apiDown[e]
          /\ apiDown'[d] \/ check'[d] = "failure" \/ check'[d] = "none"
      BY <2>3, Completes DEF DispatchKept, Shown
    <3>2. handler'[d] = "release" /\ UNCHANGED <<holder, running, handle, ended, reported>>
      BY <1>2, <2>3 DEF stage, DispatchKept, DispatchTypes
    <3>3. GroupKept(d)'
      BY <1>0, <2>1, <3>2 DEF GroupKept, Holding
    <3>4. CheckKept(d)'
      BY <2>1, <3>1, <3>2 DEF CheckKept, Truthful
    <3> QED
      BY <1>0, <1>1, <2>3, <3>1, <3>2, <3>3, <3>4 DEF DispatchKept, DispatchTypes, Places, Holding, Codes
  <2> QED
    BY <1>2, <2>2, <2>3 DEF stage
<1>3. CASE (arm(d) \/ releaseGroup(d)) /\ UNCHANGED <<cancel, reported>>
  <2>1. /\ UNCHANGED <<handle, ended, exit, check, apiDown, reported>>
        /\ \/ handler[d] = "arm" /\ handler' = [handler EXCEPT ![d] = "exec"] /\ running' = d /\ holder' = holder
           \/ handler[d] = "release" /\ handler' = [handler EXCEPT ![d] = "done"] /\ running' = running
              /\ holder' = NoHolder
    BY <1>3 DEF arm, releaseGroup
  <2>2. GroupKept(d)' /\ CheckKept(d)'
    BY <1>0, <2>1 DEF DispatchKept, DispatchTypes, GroupKept, CheckKept, Truthful, Holding
  <2> QED
    BY <1>0, <1>1, <2>1, <2>2 DEF DispatchKept, DispatchTypes, Places, Holding
<1>4. CASE closeCheck(d) /\ UNCHANGED <<cancel, reported>>
  <2>1. handler[d] = "close" /\ handler' = [handler EXCEPT ![d] = "disarm"] /\ finish(d)
        /\ UNCHANGED <<holder, running, handle, ended, exit, reported>>
    BY <1>4 DEF closeCheck
  <2>2. handler'[d] = "disarm"
    BY <2>1 DEF DispatchKept, DispatchTypes
  <2>3. GroupKept(d)'
    BY <1>0, <2>1, <2>2 DEF DispatchKept, GroupKept, Holding
  <2>4. /\ check' \in [Deliveries -> Shown] /\ apiDown' \in [Deliveries -> BOOLEAN]
        /\ \A e \in Deliveries \ {d} : check'[e] = check[e] /\ apiDown'[e] = apiDown[e]
        /\ apiDown'[d] \/ Truthful(d)'
    BY <2>1, <2>2, Finishes DEF DispatchKept, Truthful
  <2>5. CheckKept(d)'
    BY <2>2, <2>4 DEF CheckKept
  <2> QED
    BY <1>0, <1>1, <2>1, <2>3, <2>4, <2>5 DEF DispatchKept, DispatchTypes, Places, Holding
<1>5. CASE disarm(d) /\ UNCHANGED <<cancel, reported>>
  <2>1. /\ handler[d] = "disarm" /\ handler' = [handler EXCEPT ![d] = "release"] /\ running' = NoHolder
        /\ ended' = [ended EXCEPT ![d] = TRUE] /\ UNCHANGED <<holder, handle, exit, check, apiDown, reported>>
    BY <1>5 DEF disarm
  <2>2. GroupKept(d)' /\ CheckKept(d)'
    BY <1>0, <2>1 DEF DispatchKept, DispatchTypes, GroupKept, CheckKept, Truthful, Holding
  <2> QED
    BY <1>0, <1>1, <2>1, <2>2 DEF DispatchKept, DispatchTypes, Places, Holding
<1>6. CASE pipelineReports(d)
  <2>1. /\ handler[d] = "exec" /\ check[d] = "queued" /\ check' = [check EXCEPT ![d] = "reported"]
        /\ reported' = [reported EXCEPT ![d] = TRUE]
        /\ UNCHANGED <<handler, holder, running, handle, ended, exit, apiDown>>
    BY <1>6 DEF pipelineReports
  <2>2. GroupKept(d)' /\ CheckKept(d)'
    BY <1>0, <2>1 DEF DispatchKept, DispatchTypes, GroupKept, CheckKept, Holding
  <2> QED
    BY <1>0, <1>1, <2>1, <2>2 DEF DispatchKept, DispatchTypes, Shown
<1>7. CASE pipelineEnds(d)
  <2>1. PICK e \in {"ok", "nomatch", "failed", "killed", "nostart"} :
          /\ check[d] = "reported" => e \in {"ok", "failed", "killed"}
          /\ exit' = [exit EXCEPT ![d] = e]
    BY <1>7 DEF pipelineEnds
  <2>2. /\ handler[d] = "exec" /\ handler' = [handler EXCEPT ![d] = "close"]
        /\ UNCHANGED <<holder, running, handle, ended, check, reported, apiDown>>
    BY <1>7 DEF pipelineEnds
  <2>3. GroupKept(d)' /\ CheckKept(d)'
    BY <1>0, <2>1, <2>2 DEF DispatchKept, DispatchTypes, GroupKept, CheckKept, Holding
  <2> QED
    BY <1>0, <1>1, <2>1, <2>2, <2>3 DEF DispatchKept, DispatchTypes, Places, Holding, Codes
<1> QED
  BY <1>2, <1>3, <1>4, <1>5, <1>6, <1>7

\* For any number of deliveries, with or without -cancel-in-progress: one runs
\* at a time, its handle is there for the next one to stop it, and no check is
\* left queued or says more than happened (contrib/dispatcher/main.go take,
\* run; githubapp.go finish).
THEOREM OneRunAndAnHonestCheck == DispatchSpec => []DispatchIsHonest
<1>1. DispatchInit => DispatchKept
  BY DispatchAssumption DEF DispatchInit, DispatchKept, DispatchTypes, GroupKept, CheckKept, Truthful, Places,
     Holding, Codes, Shown
<1>2. DispatchKept /\ [DispatchNext]_dispatchVars => DispatchKept'
  <2> SUFFICES ASSUME DispatchKept, [DispatchNext]_dispatchVars PROVE DispatchKept'
    OBVIOUS
  <2>1. ASSUME NEW d \in Deliveries, Stage(d) \/ timeout(d) \/ pipelineReports(d) \/ pipelineEnds(d)
        PROVE  DispatchKept'
    BY <2>1, Arrives, Displaces, HolderRuns DEF Stage
  <2>2. CASE UNCHANGED dispatchVars
    BY <2>2 DEF dispatchVars, DispatchKept, DispatchTypes, GroupKept, CheckKept, Truthful
  <2> QED
    BY <2>1, <2>2 DEF DispatchNext
<1>3. DispatchKept => DispatchIsHonest
  <2> SUFFICES ASSUME DispatchKept PROVE DispatchIsHonest
    OBVIOUS
  <2>1. running # NoHolder => holder = running
    BY DEF DispatchKept, DispatchTypes, GroupKept, Holding
  <2>2. \A d \in Deliveries : (handler[d] \in Holding <=> holder = d) /\ (At(d, "exec") => running = d)
    BY DEF DispatchKept, GroupKept, At
  <2>3. ASSUME NEW d \in Deliveries, handler[d] \in {"busy", "failed", "timeout", "release", "done"}, ~apiDown[d]
        PROVE  Truthful(d)
    BY <2>3 DEF DispatchKept, CheckKept
  <2> QED
    BY <2>1, <2>2, <2>3 DEF DispatchIsHonest, Truthful, At
<1> QED
  BY <1>1, <1>2, <1>3, PTL DEF DispatchSpec

-----------------------------------------------------------------------------
(* The exit code of senro run and senro up.                                *)

CliPlaces == {"build", "poll", "connect", "watch", "branch", "cancel", "wait", "reap", "exited"}
KidPlaces == {"none", "up", "listening", "running", "ended", "closed", "dead"}
Statuses  == {"", "succeeded", "failed", "cancelled"}

LaunchTypes ==
  /\ verb \in {"run", "up"} /\ cli \in CliPlaces /\ kid \in KidPlaces
  /\ sighted \in Statuses /\ kidRun \in Statuses
  /\ kidSvc \in {"", "succeeded", "failed"} /\ tapSvc \in {"", "succeeded", "failed"}

\* A run has a status once it ended; what watch saw is that status; only an
\* interrupted CLI cancels; and an exit is truthful when it happens and stays so.
LaunchKept ==
  /\ LaunchTypes
  /\ cli = "build" => kid = "none"
  /\ kidRun # "" => kid \in {"ended", "closed", "dead"}
  /\ cli \in {"build", "poll", "connect", "watch"} => sighted = "" /\ failed = FALSE
  /\ sighted # "" => sighted = kidRun /\ failed = FALSE
  /\ cli \in {"cancel", "wait"} => asked
  /\ ExitIsTruthful

\* The CLI's steps before there is a status.
LEMMA CliStarts ==
  ASSUME LaunchKept, runBuilt \/ waitForRegistration \/ connectAndNegotiate
  PROVE  LaunchKept'
<1>1. CASE runBuilt
  BY <1>1 DEF LaunchKept, LaunchTypes, CliPlaces, KidPlaces, Statuses, ExitIsTruthful, runBuilt, Exit, launchSetup, Ok, Usage, RunFailed, Cancelled
<1>2. CASE waitForRegistration
  <2>0. /\ cli = "poll" /\ sighted = "" /\ UNCHANGED <<verb, asked, sighted, failed, tapSvc>>
    BY <1>2 DEF waitForRegistration, LaunchKept, launchSetup
  <2>1. CASE Found /\ cli' = "connect" /\ UNCHANGED <<cexit, kidVars>>
    BY <2>0, <2>1 DEF LaunchKept, LaunchTypes, CliPlaces, KidPlaces, Statuses, ExitIsTruthful, kidVars
  <2>2. CASE kid = "dead" /\ Exit(IF asked THEN Cancelled ELSE processExitCode) /\ UNCHANGED kidVars
    BY <2>0, <2>2 DEF LaunchKept, LaunchTypes, CliPlaces, KidPlaces, Statuses, ExitIsTruthful, Exit, processExitCode, kidVars, Ok, RunFailed,
       NoTriggerMatch, Cancelled
  <2>3. CASE asked /\ Reaped /\ Exit(Cancelled)
    BY <2>0, <2>3 DEF LaunchKept, LaunchTypes, CliPlaces, KidPlaces, Statuses, ExitIsTruthful, Exit, Reaped, Ok, Cancelled
  <2> QED
    BY <1>2, <2>1, <2>2, <2>3 DEF waitForRegistration
<1>3. CASE connectAndNegotiate
  BY <1>3 DEF LaunchKept, LaunchTypes, CliPlaces, KidPlaces, Statuses, ExitIsTruthful, connectAndNegotiate, Exit, Reaped, launchSetup, kidVars,
     Ok, Usage, RunFailed, Cancelled
<1> QED
  BY <1>1, <1>2, <1>3

\* Its steps from the watch to the exit.
LEMMA CliEnds ==
  ASSUME LaunchKept, observe \/ watch \/ branch \/ bestEffortCancel \/ gracefulShutdownWait \/ reapChild
  PROVE  LaunchKept'
<1>1. CASE observe \/ watch \/ branch \/ bestEffortCancel
  <2>1. /\ cli \in {"watch", "branch", "cancel"} /\ cli' \in {"watch", "branch", "cancel", "wait", "reap"}
        /\ cli' \in {"cancel", "wait"} => asked
        /\ cli' = "watch" => sighted' = "" /\ failed' = FALSE
        /\ UNCHANGED <<verb, asked, kid, kidRun, kidSvc>>
    BY <1>1 DEF LaunchKept, observe, watch, branch, bestEffortCancel, launchSetup, kidVars
  <2>2. /\ sighted' \in {sighted, kidRun, ""} /\ tapSvc' \in {tapSvc, kidSvc}
        /\ sighted' # "" => sighted' = kidRun /\ failed' = FALSE
    <3>1. CASE watch
      BY <3>1 DEF LaunchKept, watch
    <3>2. CASE observe \/ branch \/ bestEffortCancel
      BY <3>2 DEF LaunchKept, observe, branch, bestEffortCancel
    <3> QED
      BY <1>1, <3>1, <3>2
  <2>3. LaunchTypes'
    <3>1. LaunchTypes
      BY DEF LaunchKept
    <3>2. cli' \in CliPlaces
      BY <2>1 DEF CliPlaces
    <3>3. sighted' \in Statuses
      BY <2>2, <3>1 DEF LaunchTypes, Statuses
    <3> QED
      BY <2>1, <2>2, <3>1, <3>2, <3>3 DEF LaunchTypes
  <2>4. ExitIsTruthful'
    BY <2>1 DEF ExitIsTruthful
  <2> QED
    BY <2>1, <2>2, <2>3, <2>4 DEF LaunchKept
<1>2. CASE gracefulShutdownWait
  <2>0. /\ cli = "wait" /\ asked /\ UNCHANGED <<verb, asked, sighted, failed, tapSvc, kidRun, kidSvc>> /\ kid' = "dead"
        /\ cli' = "exited" /\ cexit' = (IF verb = "up" THEN upExitCode(sighted, TRUE) ELSE Cancelled)
    BY <1>2 DEF gracefulShutdownWait, LaunchKept, launchSetup, kidVars, Reaped, Exit
  <2>1. ExitIsTruthful'
    BY <2>0 DEF LaunchKept, LaunchTypes, CliPlaces, KidPlaces, Statuses, ExitIsTruthful, upExitCode, Ok, RunFailed, Cancelled
  <2> QED
    BY <2>0, <2>1 DEF LaunchKept, LaunchTypes, CliPlaces, KidPlaces, Statuses
<1>3. CASE reapChild
  <2>0. /\ cli = "reap" /\ kid = "dead" /\ cli' = "exited"
        /\ UNCHANGED <<verb, asked, sighted, failed, tapSvc, kid, kidRun, kidCode, kidSvc>>
    BY <1>3 DEF reapChild, launchSetup, kidVars, Exit
  <2>1. ExitIsTruthful'
    <3>1. CASE failed \/ sighted = ""
      <4>1. cexit' = processExitCode
        BY <1>3, <3>1 DEF reapChild, Exit
      <4> QED
        BY <2>0, <3>1, <4>1 DEF LaunchKept, LaunchTypes, CliPlaces, KidPlaces, Statuses, ExitIsTruthful, processExitCode, Ok, RunFailed,
           NoTriggerMatch, Cancelled
    <3>2. CASE ~(failed \/ sighted = "")
      <4>1. cexit' = (IF verb = "up" THEN upExitCode(sighted, FALSE) ELSE exitCodeForRunStatus(sighted))
        BY <1>3, <3>2 DEF reapChild, Exit
      <4> QED
        BY <2>0, <3>2, <4>1 DEF LaunchKept, LaunchTypes, CliPlaces, KidPlaces, Statuses, ExitIsTruthful, upExitCode, exitCodeForRunStatus, Ok,
           RunFailed, Cancelled
    <3> QED
      BY <3>1, <3>2
  <2> QED
    BY <2>0, <2>1 DEF LaunchKept, LaunchTypes, CliPlaces, KidPlaces, Statuses
<1> QED
  BY <1>1, <1>2, <1>3

\* The operator and the child. A child that is dead, or was never started,
\* does nothing more.
LEMMA ChildSteps ==
  ASSUME LaunchKept,
         \/ Interrupt \/ Listen \/ runPlan \/ ServiceSettles \/ childRunFinished
         \/ AttachClose \/ KidExits \/ KidDies \/ UNCHANGED launchVars
  PROVE  LaunchKept'
<1>1. CASE Interrupt
  <2>1. asked' /\ cli # "exited" /\ UNCHANGED <<verb, cli, sighted, failed, kid, kidRun, kidSvc, tapSvc>>
    BY <1>1 DEF Interrupt, launchSetup, kidVars
  <2>2. LaunchTypes' /\ ExitIsTruthful'
    BY <2>1 DEF LaunchKept, LaunchTypes, ExitIsTruthful
  <2> QED
    BY <2>1, <2>2 DEF LaunchKept
<1>2. CASE Listen \/ runPlan \/ ServiceSettles \/ childRunFinished \/ AttachClose \/ KidExits \/ KidDies
  <2>1. /\ kid \in {"up", "listening", "running", "ended", "closed"} /\ UNCHANGED <<verb, cliVars>>
        /\ kid' \in {"listening", "running", "ended", "closed", "dead"} /\ kidSvc' \in {"", "succeeded", "failed"}
    BY <1>2 DEF Listen, runPlan, ServiceSettles, childRunFinished, AttachClose, KidExits, KidDies, launchSetup,
       LaunchKept, LaunchTypes, CliPlaces, KidPlaces, Statuses
  <2>2. /\ kidRun' \in {"", "succeeded", "failed", "cancelled"}
        /\ kidRun' # "" => kid' \in {"ended", "closed", "dead"}
        /\ kidRun # "" => kidRun' = kidRun
    BY <1>2 DEF Listen, runPlan, ServiceSettles, childRunFinished, AttachClose, KidExits, KidDies, LaunchKept,
       LaunchTypes, CliPlaces, KidPlaces, Statuses
  <2>3. cli \notin {"build", "exited"}
    BY <2>1 DEF LaunchKept, ExitIsTruthful
  <2> QED
    BY <2>1, <2>2, <2>3 DEF LaunchKept, LaunchTypes, CliPlaces, KidPlaces, Statuses, ExitIsTruthful, cliVars
<1>3. CASE UNCHANGED launchVars
  <2>1. LaunchTypes'
    <3>1. LaunchTypes
      BY DEF LaunchKept
    <3> QED
      BY <1>3, <3>1 DEF launchVars, LaunchTypes
  <2>2. ExitIsTruthful'
    BY <1>3 DEF launchVars, LaunchKept, ExitIsTruthful
  <2> QED
    BY <1>3, <2>1, <2>2 DEF launchVars, LaunchKept
<1> QED
  BY <1>1, <1>2, <1>3

\* Whatever the child and the operator do: senro run and senro up never exit
\* over a living child, exit 0 only for a run that succeeded, a child that said
\* so or a healthy up, and 130 only when someone cancelled (exitcode.go:5).
THEOREM TheExitCodeIsTrue == LaunchSpec => []ExitIsTruthful
<1>1. LaunchInit => LaunchKept
  BY DEF LaunchInit, LaunchKept, LaunchTypes, CliPlaces, KidPlaces, Statuses, ExitIsTruthful
<1>2. LaunchKept /\ [LaunchNext]_launchVars => LaunchKept'
  BY CliStarts, CliEnds, ChildSteps DEF LaunchNext, CliStep
<1>3. LaunchKept => ExitIsTruthful
  BY DEF LaunchKept
<1> QED
  BY <1>1, <1>2, <1>3, PTL DEF LaunchSpec

-----------------------------------------------------------------------------
(* The image lock file.                                                    *)

\* What a command has resolved is a part of what the plan names, the rest is
\* still to be asked for, and while nothing moved it is what the registry says.
ResolvedKept ==
  lockMode # "none" =>
    /\ toResolve \subseteq lockImages /\ DOMAIN resolved = lockImages \ toResolve
    /\ resolved = [t \in DOMAIN resolved |-> resolved[t]]
    /\ ~moved => \A t \in DOMAIN resolved : resolved[t] = registry[t]

LockKept == moved \in BOOLEAN /\ ResolvedKept /\ LockHolds

\* resolveLock, one image.
LEMMA ImageResolved ==
  ASSUME LockKept, NEW i \in Tags, ResolveTag(i)
  PROVE  LockKept'
<1>1. /\ lockMode # "none" /\ i \in toResolve /\ toResolve' = toResolve \ {i}
      /\ resolved' = [j \in DOMAIN resolved \cup {i} |-> IF j = i THEN registry[i] ELSE resolved[j]]
      /\ UNCHANGED <<registry, images, lockFile, lockMode, lockVerdict, ran, moved>>
  BY DEF ResolveTag
<1>2. lockImages' = lockImages
  BY <1>1 DEF lockImages, lockable
<1>3. DOMAIN resolved' = DOMAIN resolved \cup {i} /\ resolved' = [t \in DOMAIN resolved' |-> resolved'[t]]
  BY <1>1
<1>4. \A t \in DOMAIN resolved' : resolved'[t] = IF t = i THEN registry[i] ELSE resolved[t]
  BY <1>1
<1>5. ResolvedKept'
  BY <1>1, <1>2, <1>3, <1>4 DEF LockKept, ResolvedKept
<1> QED
  BY <1>1, <1>2, <1>5 DEF LockKept, LockHolds, lockable

\* writeLockMode and checkLockMode: everything the plan names is resolved.
LEMMA LockDone ==
  ASSUME LockKept, writeLockMode \/ checkLockMode
  PROVE  LockKept'
<1>1. /\ lockMode # "none" /\ toResolve = {} /\ lockMode' = "none" /\ UNCHANGED <<registry, images, resolved, ran, moved>>
      /\ lockVerdict' \in {"written", "same", "drift"}
      /\ lockVerdict' = "written" => lockFile' = resolved
      /\ lockVerdict' # "written" => lockFile' = lockFile /\ (lockVerdict' = "same" <=> lockFile = resolved)
  BY DEF writeLockMode, checkLockMode
<1>2. lockImages' = lockImages
  BY <1>1 DEF lockImages, lockable
<1>3. ~moved => resolved = [t \in lockImages |-> registry[t]]
  BY <1>1 DEF LockKept, ResolvedKept
<1>4. LockHolds'
  BY <1>1, <1>2, <1>3 DEF LockHolds
<1> QED
  BY <1>1, <1>4 DEF LockKept, ResolvedKept

\* applyLock: every image of the plan that is named by tag has its pin.
LEMMA LockApplied ==
  ASSUME LockKept, applyLock
  PROVE  LockKept'
<1>1. CASE Readable /\ lockImages \subseteq DOMAIN lockFile
  <2>1. /\ ran' = [i \in images |-> PinnedAt(i, lockFile)] /\ lockVerdict' = "pinned" /\ lockMode' = "none"
        /\ UNCHANGED <<lockFile, moved>>
    BY <1>1 DEF applyLock
  <2>2. ASSUME NEW i \in DOMAIN ran'
        PROVE  IF lockable(i) THEN i \in DOMAIN lockFile' /\ ran'[i] = lockFile'[i] ELSE ran'[i] = i
    BY <1>1, <2>1 DEF PinnedAt, lockImages
  <2>3. LockHolds'
    BY <2>1, <2>2 DEF LockHolds, lockable
  <2> QED
    BY <2>1, <2>3 DEF LockKept, ResolvedKept
<1>2. CASE ~(Readable /\ lockImages \subseteq DOMAIN lockFile)
  BY <1>2 DEF applyLock, LockKept, ResolvedKept, LockHolds
<1> QED
  BY <1>1, <1>2

\* Beginning, failing, and the world moving.
LEMMA LockRest ==
  ASSUME LockKept,
         \/ \E mode \in {"write", "check"} : BeginLock(mode)
         \/ CheckNothing \/ LockFails
         \/ \E i \in Tags, d \in Digests : MoveTag(i, d)
         \/ \E i \in Tags \cup Pinned : EditPlan(i)
         \/ UNCHANGED imageLockVars
  PROVE  LockKept'
<1>1. ASSUME NEW mode \in {"write", "check"}, BeginLock(mode) PROVE LockKept'
  BY <1>1 DEF BeginLock, LockKept, ResolvedKept, LockHolds, Empty, lockImages, lockable
<1>2. CASE CheckNothing \/ LockFails
  BY <1>2 DEF CheckNothing, LockFails, LockKept, ResolvedKept, LockHolds
<1>3. ASSUME NEW i \in Tags, NEW d \in Digests, MoveTag(i, d) PROVE LockKept'
  <2>1. lockImages' = lockImages /\ moved'
        /\ UNCHANGED <<lockFile, lockMode, toResolve, resolved, lockVerdict, ran>>
    BY <1>3 DEF MoveTag, lockImages, lockable
  <2> QED
    BY <2>1 DEF LockKept, ResolvedKept, LockHolds, lockable
<1>4. ASSUME NEW i \in Tags \cup Pinned, EditPlan(i) PROVE LockKept'
  BY <1>4 DEF EditPlan, LockKept, ResolvedKept, LockHolds, lockable
<1>5. CASE UNCHANGED imageLockVars
  BY <1>5 DEF imageLockVars, LockKept, ResolvedKept, LockHolds, lockImages, lockable
<1> QED
  BY <1>1, <1>2, <1>3, <1>4, <1>5

\* For any plan, tags and digests: a run under senro.lock uses what the file
\* records wherever the tags point by now, and is refused rather than run on an
\* image it lacks; when nothing moved meanwhile, a check agrees exactly when
\* writing again would change nothing (run.go:1053, 1169).
THEOREM PinsAreWhatRuns == LockSpec => []LockHolds
<1>1. LockInit => LockKept
  BY DEF LockInit, LockKept, ResolvedKept, LockHolds
<1>2. LockKept /\ [LockNext]_imageLockVars => LockKept'
  BY ImageResolved, LockDone, LockApplied, LockRest DEF LockNext
<1>3. LockKept => LockHolds
  BY DEF LockKept
<1> QED
  BY <1>1, <1>2, <1>3, PTL DEF LockSpec

-----------------------------------------------------------------------------
(* The executors.                                                          *)

\* A pod whose containers run has its workspaces; and a code is reported after
\* the process that made it ended, or by the exec that read it.
PodKept ==
  /\ kmode \in {"step", "session"}
  /\ kresult \in {"none", "exit0", "exit1", "infra"}
  /\ flagged => carried \subseteq kstaged
  /\ pod \in {"running", "exited"} \/ began => carried \subseteq kstaged
  /\ kresult # "none" => kat \in {"ran", "closed"}
  /\ kat \in {"exec", "binary"} => kmode = "session"
  /\ kresult \in {"exit0", "exit1"} =>
       /\ kresult = (IF kcode = 0 THEN "exit0" ELSE "exit1") /\ carried \subseteq kstaged /\ ~kdone
       /\ kmode = "session" \/ pod \notin {"none", "pending", "staging", "running"}

\* What this sandbox made it knows of, unless an answer was lost; and Close
\* comes last.
SandboxKept ==
  /\ kclose \in {"no", "ok", "failed"}
  /\ kclose # "no" <=> kat = "closed"
  /\ kclose = "no" /\ ~klost => (pod # "none" => kcreated) /\ (secretIs # "none" => ksecrets = "object")
  /\ CloseLeavesNothing

\* The sandbox's own steps, up to the verdict.
LEMMA SandboxRuns ==
  ASSUME PodKept, SandboxKept,
         \/ createSecret \/ createPod \/ adoptSecret \/ stageWait \/ release \/ (\E m \in K8sMounts : copyIn(m))
         \/ resolve \/ Sandbox \/ PutSecret
  PROVE  PodKept' /\ SandboxKept'
<1> USE DEF carried, sandboxOnly, clusterOnly, Infra
<1>1. CASE resolve \/ Sandbox \/ PutSecret
  BY <1>1 DEF PodKept, SandboxKept, CloseLeavesNothing, resolve, Sandbox, PutSecret
<1>2. CASE createSecret
  BY <1>2 DEF PodKept, SandboxKept, CloseLeavesNothing, createSecret
<1>3. CASE createPod
  BY <1>3 DEF PodKept, SandboxKept, CloseLeavesNothing, createPod
<1>4. CASE adoptSecret \/ stageWait
  BY <1>4 DEF PodKept, SandboxKept, CloseLeavesNothing, adoptSecret, stageWait
<1>5. ASSUME NEW m \in K8sMounts, copyIn(m) PROVE PodKept' /\ SandboxKept'
  BY <1>5 DEF PodKept, SandboxKept, CloseLeavesNothing, copyIn
<1>6. CASE release
  BY <1>6 DEF PodKept, SandboxKept, CloseLeavesNothing, release
<1> QED
  BY <1>1, <1>2, <1>3, <1>4, <1>5, <1>6

\* Waiting for the container, the exec, and the verdict.
LEMMA SandboxEnds ==
  ASSUME PodKept, SandboxKept,
         \/ awaitStart \/ awaitExit \/ reap \/ copyBinary \/ runExec \/ CloseSandbox
         \/ \E m \in K8sMounts : Snapshot(m)
  PROVE  PodKept' /\ SandboxKept'
<1> USE DEF carried, sandboxOnly, clusterOnly, Infra
<1>1. CASE awaitStart
  BY <1>1 DEF PodKept, SandboxKept, CloseLeavesNothing, awaitStart, stepState, deleted
<1>2. CASE awaitExit
  BY <1>2 DEF PodKept, SandboxKept, CloseLeavesNothing, awaitExit, stepState, deleted
<1>3. CASE reap \/ copyBinary
  BY <1>3 DEF PodKept, SandboxKept, CloseLeavesNothing, reap, copyBinary, deleted
<1>4. CASE runExec
  BY <1>4 DEF PodKept, SandboxKept, CloseLeavesNothing, runExec, deleted
<1>5. CASE CloseSandbox
  BY <1>5 DEF PodKept, SandboxKept, CloseLeavesNothing, CloseSandbox, deleted
<1>6. ASSUME NEW m \in K8sMounts, Snapshot(m) PROVE PodKept' /\ SandboxKept'
  BY <1>6 DEF PodKept, SandboxKept, CloseLeavesNothing, Snapshot
<1> QED
  BY <1>1, <1>2, <1>3, <1>4, <1>5, <1>6

\* The kubelet, the collector and the context.
LEMMA ClusterMoves ==
  ASSUME PodKept, SandboxKept, Kubelet \/ CollectSecret \/ CancelAttempt \/ UNCHANGED k8sVars
  PROVE  PodKept' /\ SandboxKept'
<1> USE DEF carried, sandboxOnly, clusterOnly
<1>1. CASE Kubelet
  BY <1>1 DEF PodKept, SandboxKept, CloseLeavesNothing, Kubelet, hasStage
<1>2. CASE CollectSecret \/ CancelAttempt
  BY <1>2 DEF PodKept, SandboxKept, CloseLeavesNothing, CollectSecret, CancelAttempt
<1>3. CASE UNCHANGED k8sVars
  BY <1>3 DEF PodKept, SandboxKept, CloseLeavesNothing, k8sVars
<1> QED
  BY <1>1, <1>2, <1>3

\* The Kubernetes executor.
LEMMA PodHolds == K8sSpec => [](PodKept /\ SandboxKept)
<1>1. K8sInit => PodKept /\ SandboxKept
  BY DEF K8sInit, PodKept, SandboxKept, CloseLeavesNothing
<1>2. PodKept /\ SandboxKept /\ [K8sNext]_k8sVars => (PodKept /\ SandboxKept)'
  <2> SUFFICES ASSUME PodKept, SandboxKept, [K8sNext]_k8sVars PROVE PodKept' /\ SandboxKept'
    OBVIOUS
  <2>1. CASE \/ createSecret \/ createPod \/ adoptSecret \/ stageWait \/ release
             \/ (\E m \in K8sMounts : copyIn(m)) \/ resolve \/ Sandbox \/ PutSecret
    BY <2>1, SandboxRuns
  <2>2. CASE \/ awaitStart \/ awaitExit \/ reap \/ copyBinary \/ runExec \/ CloseSandbox
             \/ \E m \in K8sMounts : Snapshot(m)
    BY <2>2, SandboxEnds
  <2>3. CASE Kubelet \/ CollectSecret \/ CancelAttempt \/ UNCHANGED k8sVars
    BY <2>3, ClusterMoves
  <2> QED
    BY <2>1, <2>2, <2>3 DEF K8sNext, SandboxStep
<1> QED
  BY <1>1, <1>2, PTL DEF K8sSpec

\* Over ssh: the status file and the exit of the wrapper are the command's, but
\* for a 255; and a verdict is given once, by a context that is not done.
SshKept ==
  /\ proc \in {"none", "running", "done"}
  /\ sat \in {"setup", "copy"} => proc = "none" /\ ssh = "none"
  /\ proc # "none" \/ ssh # "none" => sent = SshMounts
  /\ statusAt # "none" => proc = "done" /\ statusAt = scode
  /\ ssh \in SshCodes \ {"255"} => proc = "done" /\ ssh = scode
  /\ sres # "none" => sat \notin {"setup", "copy", "running"}
  /\ SshVerdict

\* The ssh executor.
LEMMA SshHolds == SshSpec => []SshKept
<1>1. SshInit => SshKept
  BY DEF SshInit, SshKept, SshVerdict, SshCodes
<1>2. SshKept /\ [SshNext]_sshVars => SshKept'
  <2> SUFFICES ASSUME SshKept, [SshNext]_sshVars PROVE SshKept'
    OBVIOUS
  <2> USE DEF SshKept, SshVerdict, SshCodes, hostVars
  <2>1. CASE setup
    BY <2>1 DEF setup
  <2>2. ASSUME NEW m \in SshMounts, SshCopyIn(m) PROVE SshKept'
    BY <2>2 DEF SshCopyIn
  <2>3. CASE SshPutSecret \/ StartCommand
    BY <2>3 DEF SshPutSecret, StartCommand
  <2>4. CASE classify
    BY <2>4 DEF classify
  <2>5. CASE Close \/ Reap
    BY <2>5 DEF Close, Reap
  <2>6. CASE CommandEnds
    BY <2>6 DEF CommandEnds
  <2>7. CASE CutSession \/ CancelSsh \/ CoordinatorDies
    BY <2>7 DEF CutSession, CancelSsh, CoordinatorDies
  <2>8. ASSUME NEW m \in SshMounts, SshSnapshot(m) PROVE SshKept'
    BY <2>8 DEF SshSnapshot
  <2>9. CASE UNCHANGED sshVars
    BY <2>9 DEF sshVars
  <2> QED
    BY <2>1, <2>2, <2>3, <2>4, <2>5, <2>6, <2>7, <2>8, <2>9 DEF SshNext, AttemptStep
<1> QED
  BY <1>1, <1>2, PTL DEF SshSpec

\* Locally: the leader is reaped before the verdict, what a sweep or a kill of
\* the group leaves is dead, and only a service's group is killed.
LocalKept ==
  /\ lmode \in {"step", "session", "service"}
  /\ leader \in {"none", "up", "zombie", "reaped"} /\ child \in {"none", "up", "ending", "dead"}
  /\ leader = "none" => child = "none"
  /\ leader # "none" => lat \notin {"none", "new", "refused"}
  /\ lwaiter # "wait" => leader \in {"none", "reaped"} /\ lat \notin {"none", "new", "refused"}
  /\ lwaiter \in {"sweep", "drain"} \/ lstop # "no" => lmode = "service"
  /\ lstop # "no" => stopping /\ lat \notin {"none", "new", "refused"}
  /\ swept \/ lstop = "join" => child \in {"none", "dead"} /\ lat \notin {"none", "new", "refused"}
  /\ lstop = "grace" => lwaiter = "done"
  /\ lmode # "service" =>
       /\ slain => lcode = "signal" /\ ldone /\ leader # "up"
       /\ lres # "none" => leader \in {"none", "reaped"} /\ lat \notin {"none", "new", "refused"}
  /\ LocalServiceGone

\* The local executor.
LEMMA LocalHolds == LocalSpec => []LocalKept
<1>1. LocalInit => LocalKept
  BY DEF LocalInit, LocalKept, LocalServiceGone
<1>2. LocalKept /\ [LocalNext]_localVars => LocalKept'
  <2> SUFFICES ASSUME LocalKept, [LocalNext]_localVars PROVE LocalKept'
    OBVIOUS
  <2> USE DEF LocalKept, LocalServiceGone, procVars, svcVars
  <2>1. CASE realize \/ LocalPutSecret \/ CloseLocal \/ CancelLocal
    BY <2>1 DEF realize, LocalPutSecret, CloseLocal, CancelLocal
  <2>2. CASE Start
    BY <2>2 DEF Start, NotStarted
  <2>3. CASE LeaderExits \/ ChildExits \/ ContextKills
    BY <2>3 DEF LeaderExits, ChildExits, ContextKills
  <2>4. CASE classifyRunError
    BY <2>4 DEF classifyRunError
  <2>5. CASE ReapLeader \/ sweepUnlessStopping
    BY <2>5 DEF ReapLeader, sweepUnlessStopping, Killed
  <2>6. CASE serviceVerdict \/ Stop
    BY <2>6 DEF serviceVerdict, Stop
  <2>7. CASE StopSignals
    BY <2>7 DEF StopSignals, Killed
  <2>8. CASE AwaitGroup \/ KillGroup \/ StopJoins
    BY <2>8 DEF AwaitGroup, KillGroup, StopJoins, Killed
  <2>9. CASE UNCHANGED localVars
    BY <2>9 DEF localVars
  <2> QED
    BY <2>1, <2>2, <2>3, <2>4, <2>5, <2>6, <2>7, <2>8, <2>9 DEF LocalNext, ServiceStep
<1> QED
  BY <1>1, <1>2, PTL DEF LocalSpec

Messages == {"out", "close"} \cup ExitCodes

\* The exec channel: what waits in the inbox is output, then the code, then the
\* close; behind the code there is no output, so a code that is read comes
\* after everything the command wrote.
InOrder ==
  /\ \A i \in 1..Len(inbox) : inbox[i] \in ExitCodes => inbox[i] = far /\ wrote + i = outSent + 1
  /\ \A i \in 1..Len(inbox) : \A j \in 1..(i - 1) : inbox[i] # "close" => inbox[j] = "out"
  /\ conn = "open" /\ far = "run" => /\ \A i \in 1..Len(inbox) : inbox[i] = "out"
                                     /\ wrote + Len(inbox) = outSent

ChannelTypes ==
  /\ inbox \in Seq(Messages) /\ outSent \in Nat /\ wrote \in Nat
  /\ far \in {"run"} \cup ExitCodes /\ status \in {"none"} \cup ExitCodes

NothingSent == inbox = <<>> /\ far = "run" /\ outSent = 0 /\ wrote = 0

ChannelKept ==
  /\ ChannelTypes
  /\ conn = "none" => NothingSent
  /\ call = "dial" => conn = "none"
  /\ readErr = "none" => InOrder
  /\ status # "none" => far = status /\ wrote = outSent /\ \A i \in 1..Len(inbox) : inbox[i] # "out"
  /\ result # "none" => call = "returned"
  /\ ExecVerdict

\* The command: output, and at the end its code and a close.
LEMMA CommandTalks ==
  ASSUME ChannelKept, commandWrites \/ commandExits
  PROVE  ChannelKept'
<1> USE DEF FarSide, readVars, pumpVars, Message, ExitCodes
<1>0. /\ inbox \in Seq(Messages) /\ Len(inbox) \in Nat /\ far = "run" /\ conn # "none" /\ status = "none"
      /\ UNCHANGED <<call, conn, wrote, status, readErr, result>> /\ result \notin ExitCodes
  BY DEF ChannelKept, ChannelTypes, commandWrites, commandExits, ExecVerdict
<1>1. CASE commandWrites /\ conn = "open"
  <2>1. inbox' = Append(inbox, "out") /\ outSent' = outSent + 1 /\ far' = far
    BY <1>1 DEF commandWrites
  <2>2. /\ inbox' \in Seq(Messages) /\ Len(inbox') = Len(inbox) + 1 /\ inbox'[Len(inbox) + 1] = "out"
        /\ \A i \in 1..Len(inbox) : inbox'[i] = inbox[i]
    BY <1>0, <2>1 DEF Messages
  <2>3. readErr = "none" => InOrder'
    BY <1>0, <1>1, <2>1, <2>2 DEF ChannelKept, ChannelTypes, InOrder
  <2> QED
    BY <1>0, <2>1, <2>2, <2>3 DEF ChannelKept, ChannelTypes, ExecVerdict
<1>2. CASE commandWrites /\ conn # "open"
  <2>1. inbox' = inbox /\ outSent' = outSent + 1 /\ far' = far
    BY <1>2 DEF commandWrites
  <2>2. readErr = "none" => InOrder'
    BY <1>0, <1>2, <2>1 DEF ChannelKept, ChannelTypes, InOrder
  <2> QED
    BY <1>0, <2>1, <2>2 DEF ChannelKept, ChannelTypes, ExecVerdict
<1>3. CASE commandExits /\ conn = "open"
  <2>1. inbox' = inbox \o <<far', "close">> /\ outSent' = outSent /\ far' \in ExitCodes
    BY <1>3 DEF commandExits
  <2>2. <<far', "close">> \in Seq(Messages) /\ Len(<<far', "close">>) = 2
        /\ <<far', "close">>[1] = far' /\ <<far', "close">>[2] = "close"
    BY <2>1 DEF Messages
  <2>3. /\ inbox' \in Seq(Messages) /\ Len(inbox') = Len(inbox) + 2
        /\ \A i \in 1..Len(inbox') : inbox'[i] = IF i <= Len(inbox) THEN inbox[i]
                                                 ELSE <<far', "close">>[i - Len(inbox)]
    BY <1>0, <2>1, <2>2, ConcatProperties
  <2>4. inbox'[Len(inbox) + 1] = far' /\ inbox'[Len(inbox) + 2] = "close"
        /\ \A i \in 1..Len(inbox) : inbox'[i] = inbox[i]
    BY <1>0, <2>2, <2>3
  <2>5. readErr = "none" => InOrder'
    BY <1>0, <1>3, <2>1, <2>3, <2>4 DEF ChannelKept, ChannelTypes, InOrder
  <2> QED
    BY <1>0, <2>1, <2>3, <2>5 DEF ChannelKept, ChannelTypes, ExecVerdict
<1>4. CASE commandExits /\ conn # "open"
  <2>1. inbox' = inbox /\ outSent' = outSent /\ far' \in ExitCodes
    BY <1>4 DEF commandExits
  <2>2. readErr = "none" => InOrder'
    BY <1>0, <1>4, <2>1 DEF ChannelKept, ChannelTypes, InOrder
  <2> QED
    BY <1>0, <2>1, <2>2 DEF ChannelKept, ChannelTypes, ExecVerdict
<1> QED
  BY <1>1, <1>2, <1>3, <1>4

\* readExecStreams takes the messages in their order.
LEMMA ReaderReads ==
  ASSUME ChannelKept, readMessage
  PROVE  ChannelKept'
<1> USE DEF Reading, pumpVars, farVars, ExitCodes
<1>0. /\ inbox \in Seq(Messages) /\ call = "read" /\ readErr = "none" /\ InOrder /\ result = "none"
      /\ UNCHANGED <<call, conn, far, outSent, result>>
  BY DEF ChannelKept, ChannelTypes, readMessage
<1>1. CASE inbox # <<>> /\ inbox' = Tail(inbox) /\ (Head(inbox) = "out" \/ Head(inbox) \in ExitCodes)
  <2>1. /\ Head(inbox) = inbox[1] /\ Tail(inbox) \in Seq(Messages) /\ Len(Tail(inbox)) = Len(inbox) - 1
        /\ Len(inbox) \in Nat \ {0} /\ \A i \in 1..Len(Tail(inbox)) : Tail(inbox)[i] = inbox[i + 1]
    BY <1>0, <1>1
  <2>2. CASE Head(inbox) = "out"
    <3>0. status = "none"
      BY <1>0, <2>1, <2>2 DEF ChannelKept
    <3>1. status' = "none" /\ (readErr' = "none" => wrote' = wrote + 1) /\ wrote' \in {wrote, wrote + 1}
      BY <1>0, <1>1, <2>1, <2>2, <3>0 DEF readMessage
    <3>2. readErr' = "none" => InOrder'
      BY <1>0, <1>1, <2>1, <3>0, <3>1 DEF InOrder, ChannelKept, ChannelTypes
    <3>3. conn # "none"
      BY <1>1 DEF ChannelKept, NothingSent
    <3> QED
      BY <1>0, <1>1, <2>1, <3>0, <3>1, <3>2, <3>3 DEF ChannelKept, ChannelTypes, ExecVerdict
  <2>3. CASE Head(inbox) \in ExitCodes
    <3>1. status' = far /\ wrote' = wrote /\ readErr' = readErr /\ wrote = outSent /\ far \in ExitCodes
      BY <1>0, <2>1, <2>3 DEF readMessage, InOrder, ChannelKept, ChannelTypes
    <3>2. \A i \in 1..Len(inbox') : inbox'[i] = "close"
      BY <1>0, <1>1, <2>1, <2>3 DEF InOrder, ChannelKept, ChannelTypes, Messages
    <3>3. InOrder'
      BY <1>0, <1>1, <2>1, <3>1, <3>2 DEF InOrder
    <3>4. conn # "none"
      BY <1>1 DEF ChannelKept, NothingSent
    <3> QED
      BY <1>0, <1>1, <2>1, <3>1, <3>2, <3>3, <3>4 DEF ChannelKept, ChannelTypes, ExecVerdict
  <2> QED
    BY <1>1, <2>2, <2>3
<1>2. CASE UNCHANGED <<inbox, wrote, status>> /\ readErr' # "none"
  BY <1>0, <1>2 DEF ChannelKept, ChannelTypes, ExecVerdict, NothingSent
<1> QED
  BY <1>0, <1>1, <1>2 DEF readMessage

\* Everything else: a connection that breaks keeps a prefix of the inbox, and
\* the call returns the status only of a stream that was read to its end.
LEMMA ChannelRest ==
  ASSUME ChannelKept,
         \/ Exec \/ callerCancels \/ closeOnCancel \/ netBreaks \/ pumpReads \/ pumpWrites \/ pumpCloses
         \/ closeConn \/ awaitPump \/ return \/ UNCHANGED execVars
  PROVE  ChannelKept'
<1> USE DEF farVars, readVars, pumpVars, Pumping, ExitCodes
<1>1. CASE netBreaks \/ closeOnCancel
  <2>0. inbox \in Seq(Messages) /\ Len(inbox) \in Nat /\ SubSeq(inbox, 1, 0) = <<>>
    BY DEF ChannelKept, ChannelTypes
  <2>1. PICK n \in 0..Len(inbox) : inbox' = SubSeq(inbox, 1, n)
    <3>1. CASE netBreaks
      BY <3>1 DEF netBreaks
    <3>2. CASE closeOnCancel
      <4>1. 0 \in 0..Len(inbox) /\ inbox' = SubSeq(inbox, 1, 0)
        BY <2>0, <3>2 DEF closeOnCancel
      <4> QED
        BY <4>1
    <3> QED
      BY <1>1, <3>1, <3>2
  <2>2. /\ inbox \in Seq(Messages) /\ SubSeq(inbox, 1, n) \in Seq(Messages) /\ Len(SubSeq(inbox, 1, n)) = n
        /\ \A i \in 1..n : SubSeq(inbox, 1, n)[i] = inbox[i]
    BY DEF ChannelKept, ChannelTypes
  <2>3. conn = "open" /\ conn' = "broken" /\ UNCHANGED <<call, far, outSent, wrote, status, readErr, result>>
    BY <1>1 DEF netBreaks, closeOnCancel
  <2>4. readErr = "none" => InOrder'
    BY <2>1, <2>2, <2>3 DEF InOrder, ChannelKept
  <2> QED
    BY <2>1, <2>2, <2>3, <2>4 DEF ChannelKept, ChannelTypes, ExecVerdict
<1>2. CASE Exec
  <2>1. call = "dial" /\ result = "none" /\ conn = "none"
    BY <1>2 DEF Exec, ChannelKept
  <2>2. /\ UNCHANGED <<inbox, far, outSent, wrote, status, readErr>>
        /\ \/ call' = "returned" /\ result' = "error" /\ conn' = conn
           \/ call' = "read" /\ result' = result /\ conn' = "open"
    BY <1>2 DEF Exec
  <2>3. ChannelTypes' /\ ExecVerdict'
    BY <2>1, <2>2 DEF ChannelKept, ChannelTypes, ExecVerdict
  <2>4. readErr = "none" => InOrder'
    BY <2>1, <2>2 DEF InOrder, ChannelKept, NothingSent
  <2> QED
    BY <2>1, <2>2, <2>3, <2>4 DEF ChannelKept, NothingSent
<1>3. CASE return
  <2>1. UNCHANGED <<conn, inbox, far, outSent, wrote, status, readErr>> /\ call' = "returned"
        /\ result' \in {"error", execExit}
    BY <1>3 DEF return
  <2>2. ExecVerdict'
    BY <2>1 DEF ChannelKept, ChannelTypes, ExecVerdict, execExit
  <2> QED
    BY <2>1, <2>2 DEF ChannelKept, ChannelTypes, InOrder, NothingSent
<1>4. CASE callerCancels \/ pumpReads \/ pumpWrites \/ pumpCloses \/ awaitPump \/ UNCHANGED execVars
  <2>1. UNCHANGED <<call, conn, inbox, far, outSent, wrote, status, readErr, result>>
    BY <1>4 DEF callerCancels, pumpReads, pumpWrites, pumpCloses, awaitPump, execVars
  <2> QED
    BY <2>1 DEF ChannelKept, ChannelTypes, InOrder, NothingSent, ExecVerdict
<1>5. CASE closeConn
  <2>1. UNCHANGED <<inbox, far, outSent, wrote, status, readErr, result>> /\ readErr # "none" /\ conn' = "closed"
        /\ call = "read" /\ call' = "collect"
    BY <1>5 DEF closeConn, wsClose
  <2> QED
    BY <2>1 DEF ChannelKept, ChannelTypes, ExecVerdict
<1> QED
  BY <1>1, <1>2, <1>3, <1>4, <1>5

\* Client.Exec.
LEMMA ChannelHolds == ExecSpec => []ChannelKept
<1>1. ExecInit => ChannelKept
  BY DEF ExecInit, ChannelKept, ChannelTypes, InOrder, NothingSent, ExecVerdict, ExitCodes, Messages
<1>2. ChannelKept /\ [ExecNext]_execVars => ChannelKept'
  BY CommandTalks, ReaderReads, ChannelRest DEF ExecNext
<1> QED
  BY <1>1, <1>2, PTL DEF ExecSpec

\* Whatever runs a step, for any mounts, inputs and outputs: an exit code it
\* reports is the step's own, of a process that had its workspaces and was not
\* cut off (k8sexec/classify.go:42, sshexec/classify.go:33, kubeapi/exec.go:119).
THEOREM ACodeIsTheStepsOwn == K8sSpec /\ SshSpec /\ ExecSpec => []VerdictsAreTheSteps
<1>1. PodKept /\ SshKept /\ ChannelKept => VerdictsAreTheSteps
  BY DEF PodKept, VerdictIsTheSteps, SshKept, ChannelKept, VerdictsAreTheSteps
<1> QED
  BY <1>1, PodHolds, SshHolds, ChannelHolds, PTL

\* A closed sandbox leaves neither pod nor Secret that it knows of, and a
\* stopped local service no process, its wrapper's children included
\* (k8sexec.go:1035, local/service.go:305).
THEOREM ClosedMeansGone == K8sSpec /\ LocalSpec => []NothingIsLeft
<1>1. SandboxKept /\ LocalKept => NothingIsLeft
  BY DEF SandboxKept, LocalKept, NothingIsLeft
<1> QED
  BY <1>1, PodHolds, LocalHolds, PTL

-----------------------------------------------------------------------------
(* The workspaces.                                                         *)


\* What a directory can hold; where an attempt has its holds and its sandbox;
\* and every place an actor has a shared hold of its mounts at, or waits for it.
Trees == {Gone, <<"kept">>, <<"empty">>} \cup (WsSteps \X Nat)
Inside   == {"run", "snap", "held"}
Covered  == Inside \cup {"hash", "mount", "save", "always", "capture", "reading"}

\* The types, of the locks, the directories and the attempts.
LocksTyped ==
  /\ shared \in [Dirs -> SUBSET Actors] /\ exclusive \in [Dirs -> WsSteps \cup {Nobody}]
  /\ queued \in [Dirs -> SUBSET Actors] /\ want \in [Actors -> SUBSET Dirs]
  /\ wsAt = [a \in Actors |-> wsAt[a]]
  /\ phase = "lease" => \A a \in Actors : wsAt[a] = "new"

TreesTyped ==
  /\ tree \in [Dirs -> Trees] /\ digestOf \in [Dirs -> Trees \cup {NoDigest}]
  /\ snaps = [s \in WsSteps |-> snaps[s]]
  /\ \A s \in WsSteps : \A w \in DOMAIN snaps[s] : snaps[s][w] \in Trees
  /\ raced \subseteq Dirs /\ left \subseteq Dirs

CountsTyped ==
  /\ tries \in [WsSteps -> Nat] /\ heldAt \in [WsSteps -> Nat]
  /\ todo \in [WsSteps -> SUBSET Dirs]
  /\ shell \in [Sessions -> [token : Nat, reads : Nat, torn : SUBSET Dirs]]

\* A hit's exclusive hold is alone on its workspace; everybody else at work has
\* a shared one on every mount it does not wait for; and a directory is missing
\* only under an exclusive hold, or before and after the steps.
LocksHold ==
  /\ \A w \in Dirs : \A s \in WsSteps : exclusive[w] = s =>
       wsAt[s] = "restore" /\ w \in Mounted[s] /\ w \notin want[s] /\ shared[w] = {}
  /\ \A s \in WsSteps : wsAt[s] = "restore" =>
       \A w \in Mounted[s] : w \in want[s] \/ exclusive[w] = s
  /\ \A a \in Actors : wsAt[a] \in Covered =>
       \A w \in Mounted[Node(a)] : w \in want[a] \/ a \in shared[w]
  /\ \A a \in Actors : wsAt[a] \in Inside => want[a] = {}
  /\ \A a \in Actors : want[a] \subseteq Mounted[Node(a)]
  /\ \A a \in Sessions : wsAt[a] # "restore" /\ wsAt[a] \notin Inside
  /\ \A s \in WsSteps : todo[s] \subseteq Mounted[s]
  /\ \A w \in Dirs : tree[w] = Gone =>
       \/ phase = "run" /\ exclusive[w] # Nobody
       \/ phase = "lease" /\ w \in left \ Persistent
       \/ phase \notin {"run", "lease"}

\* A hold's token is the attempt it holds, so a session that read a torn tree
\* under one finds another attempt when it looks again.
TokensHold ==
  /\ \A s \in WsSteps : heldAt[s] # 0 => wsAt[s] = "held" /\ heldAt[s] = tries[s]
  /\ \A a \in Sessions : wsAt[a] \in {"covered", "check"} =>
       shell[a].token # 0 /\ shell[a].token <= tries[ShellOn[a]]
  /\ \A a \in Sessions : wsAt[a] = "check" /\ shell[a].torn # {} /\ wsAt[ShellOn[a]] \in Inside =>
       shell[a].token < tries[ShellOn[a]]
  /\ \A a \in Sessions : wsAt[a] = "realise" => shell[a].torn = {}

\* A snapshot taken is the tree as it is, and so is what is recorded, unless the
\* tree is what an attempt wrote that has yet to record it.
DigestsHold ==
  /\ \A s \in WsSteps : DOMAIN snaps[s] \subseteq Mounted[s]
  /\ \A s \in WsSteps : wsAt[s] = "snap" =>
       \A w \in DOMAIN snaps[s] : w \in raced \/ snaps[s][w] = tree[w]
  /\ \A w \in Dirs : phase = "run" =>
       \/ w \in raced \/ digestOf[w] = NoDigest \/ digestOf[w] = tree[w] \/ tree[w] = Gone
       \/ \E s \in Snapping(w) : tree[w] = Own(s)

WsInv == LocksTyped /\ TreesTyped /\ CountsTyped /\ LocksHold /\ TokensHold /\ DigestsHold

\* A value is never both a removed directory and what an attempt wrote.
LEMMA TreesDiffer ==
  /\ \A s, n : <<s, n>> # Gone /\ <<s, n>> # NoDigest
  /\ Gone # <<"kept">> /\ Gone # <<"empty">> /\ Gone # NoDigest
BY SMT DEF Gone, NoDigest

\* The run starts there.
LEMMA WsInit == WorkspacesInit => WsInv
<1>1. WorkspacesInit => LocksTyped /\ TreesTyped /\ CountsTyped
  <2>. SUFFICES ASSUME WorkspacesInit PROVE LocksTyped /\ TreesTyped /\ CountsTyped
    OBVIOUS
  <2>1. LocksTyped
    BY DEF WorkspacesInit, LocksTyped
  <2>2. TreesTyped
    BY DEF WorkspacesInit, TreesTyped, Trees, NoDigests
  <2>3. CountsTyped
    BY DEF WorkspacesInit, CountsTyped, NoShell
  <2>. QED BY <2>1, <2>2, <2>3
<1>2. WorkspacesInit => LocksHold
  BY WorkspacesAssumption, TreesDiffer DEF WorkspacesInit, LocksHold, Actors, Covered, Inside
<1>3. WorkspacesInit => TokensHold /\ DigestsHold
  BY WorkspacesAssumption
  DEF WorkspacesInit, TokensHold, DigestsHold, Actors, Inside, NoDigests, NoShell
<1>. QED BY <1>1, <1>2, <1>3 DEF WsInv

\* Giving holds back changes no exclusive hold unless the actor is a hit.
LEMMA UnlockShared ==
  ASSUME LocksTyped, LocksHold, NEW a \in Actors, wsAt[a] # "restore", unlock(a)
  PROVE  exclusive' = exclusive
<1>1. \A w \in Dirs : exclusive[w] # a
  <2>1. \A w \in Dirs : exclusive[w] \in WsSteps \cup {Nobody}
    BY DEF LocksTyped
  <2>2. a \in WsSteps => \A w \in Dirs : exclusive[w] # a
    BY DEF LocksHold
  <2>3. a # Nobody /\ (a \notin WsSteps => \A s \in WsSteps : s # a)
    BY WorkspacesAssumption
  <2>. QED BY <2>1, <2>2, <2>3
<1>. QED BY <1>1 DEF unlock, LocksTyped

\* Where a move of one actor takes it: to a place it waits at for every hold of
\* its mounts, or to one that needs no hold it does not already have.
Moves(a, p) ==
  \/ goLocked(a, p) /\ p \notin Inside /\ (p = "restore" => a \in WsSteps)
  \/ goTo(a, p) /\ p # "restore" /\ (p \in Inside => a \in WsSteps)
     /\ (p \in Covered => p \in Inside /\ wsAt[a] \in Covered /\ UNCHANGED <<shared, exclusive>>)

\* It keeps the holds it has, or gives all of them back.
Leaves(a) == UNCHANGED <<shared, exclusive, queued>> \/ unlock(a)

\* Every actor works on the mounts of a step.
LEMMA NodeIsAStep == \A a \in Actors : Node(a) \in WsSteps /\ Mounted[Node(a)] \subseteq Dirs
BY WorkspacesAssumption DEF Node, Actors

\* A move keeps the locks' types.
LEMMA MovesTyped ==
  ASSUME LocksTyped, NEW a \in Actors, NEW p, goTo(a, p) \/ goLocked(a, p), Leaves(a),
         phase = "run", phase' = phase
  PROVE  LocksTyped'
<1>1. want' \in [Actors -> SUBSET Dirs] /\ wsAt' = [b \in Actors |-> wsAt'[b]]
  BY NodeIsAStep DEF LocksTyped, goTo, goLocked, workspaceMountNames
<1>2. /\ shared' \in [Dirs -> SUBSET Actors] /\ exclusive' \in [Dirs -> WsSteps \cup {Nobody}]
      /\ queued' \in [Dirs -> SUBSET Actors]
  BY DEF LocksTyped, Leaves, unlock
<1>. QED BY <1>1, <1>2 DEF LocksTyped

\* A move from anywhere but a restore keeps what the locks promise.
LEMMA MovesLocks ==
  ASSUME LocksTyped, LocksHold, NEW a \in Actors, NEW p, Moves(a, p), Leaves(a),
         phase = "run", want[a] = {}, wsAt[a] # "restore",
         UNCHANGED <<phase, left>>, \A s \in WsSteps : todo'[s] \subseteq Mounted[s],
         \A w \in Dirs : tree'[w] = Gone => tree[w] = Gone
  PROVE  LocksHold'
<1>1. exclusive' = exclusive
  BY UnlockShared DEF Leaves
<1>2. \A b \in Actors : b # a => wsAt'[b] = wsAt[b] /\ want'[b] = want[b]
  BY DEF Moves, goTo, goLocked, LocksTyped
<1>3. wsAt'[a] = p
  BY DEF Moves, goTo, goLocked, LocksTyped
<1>4. \A b \in Actors : b # a => \A w \in Dirs : b \in shared[w] => b \in shared'[w]
  BY DEF Leaves, unlock, LocksTyped
<1>5. \A w \in Dirs : shared'[w] \subseteq shared[w]
  BY DEF Leaves, unlock, LocksTyped
<1>6. \A w \in Dirs : exclusive[w] # a
  BY WorkspacesAssumption DEF LocksHold, LocksTyped, Actors
<1>7. \A w \in Dirs : \A s \in WsSteps : exclusive'[w] = s =>
        wsAt'[s] = "restore" /\ w \in Mounted[s] /\ w \notin want'[s] /\ shared'[w] = {}
  BY <1>1, <1>2, <1>5, <1>6 DEF LocksHold, Actors
<1>8. \A s \in WsSteps : wsAt'[s] = "restore" =>
        \A w \in Mounted[s] : w \in want'[s] \/ exclusive'[w] = s
  <2>1. ASSUME NEW s \in WsSteps, s = a, wsAt'[s] = "restore" PROVE want'[s] = Mounted[s]
    BY <2>1, <1>3 DEF Moves, goLocked, workspaceMountNames, Node, LocksTyped
  <2>. QED BY <2>1, <1>1, <1>2 DEF LocksHold, Actors
<1>9. \A b \in Actors : wsAt'[b] \in Covered =>
        \A w \in Mounted[Node(b)] : w \in want'[b] \/ b \in shared'[w]
  <2>1. ASSUME wsAt'[a] \in Covered, NEW w \in Mounted[Node(a)]
        PROVE  w \in want'[a] \/ a \in shared'[w]
    <3>1. CASE goLocked(a, p)
      BY <3>1 DEF goLocked, workspaceMountNames, LocksTyped
    <3>2. CASE goTo(a, p) /\ p \in Covered /\ wsAt[a] \in Covered /\ UNCHANGED <<shared, exclusive>>
      BY <3>2 DEF goTo, LocksHold
    <3>. QED BY <2>1, <1>3, <3>1, <3>2 DEF Moves
  <2>2. ASSUME NEW b \in Actors, b # a, wsAt'[b] \in Covered, NEW w \in Mounted[Node(b)]
        PROVE  w \in want'[b] \/ b \in shared'[w]
    BY <2>2, <1>2, <1>4, NodeIsAStep DEF LocksHold
  <2>. QED BY <2>1, <2>2
<1>10. \A b \in Actors : wsAt'[b] \in Inside => want'[b] = {}
  BY <1>2, <1>3 DEF LocksHold, Moves, goTo
<1>11. \A b \in Sessions : wsAt'[b] # "restore" /\ wsAt'[b] \notin Inside
  BY <1>2, <1>3, WorkspacesAssumption DEF LocksHold, Moves, Actors
<1>12. \A w \in Dirs : tree'[w] = Gone =>
         \/ phase' = "run" /\ exclusive'[w] # Nobody
         \/ phase' = "lease" /\ w \in left' \ Persistent
         \/ phase' \notin {"run", "lease"}
  BY <1>1 DEF LocksHold
<1>13. Node(a)' = Node(a) /\ \A b \in Actors : Node(b)' = Node(b)
  BY DEF Node
<1>14. \A b \in Actors : want'[b] \subseteq Mounted[Node(b)]
  BY <1>2 DEF LocksHold, LocksTyped, Moves, goTo, goLocked, workspaceMountNames
<1>. QED BY <1>7, <1>8, <1>9, <1>10, <1>11, <1>12, <1>13, <1>14 DEF LocksHold

\* Whatever a step does but a hit's restore and its snapshots is such a move.
LEMMA StepsMove ==
  ASSUME NEW s \in WsSteps,
         Dispatch(s) \/ hashInputs(s) \/ prepareAttempt(s) \/ StopService(s) \/ invoke(s)
         \/ wsRecord(s) \/ refuseSnapshots(s) \/ Release(s) \/ cacheSaveHold(s)
         \/ execHandler(s) \/ forceSnapshot(s) \/ handleSnapshot(s)
  PROVE  /\ \E p : Moves(s, p)
         /\ Leaves(s) /\ phase = "run" /\ want[s] = {} /\ wsAt[s] # "restore"
         /\ UNCHANGED <<phase, left>>
<1>1. CASE Dispatch(s)
  BY <1>1 DEF Dispatch, Ready, Moves, Leaves, Covered, Inside, runVars
<1>2. CASE hashInputs(s)
  BY <1>2 DEF hashInputs, Ready, Moves, Leaves, Covered, Inside, runVars
<1>3. CASE prepareAttempt(s)
  BY <1>3 DEF prepareAttempt, retryOrSettle, Ready, Moves, Leaves, Covered, Inside, runVars
<1>4. CASE StopService(s)
  BY <1>4 DEF StopService, Ready, Moves, Leaves, Covered, Inside, runVars
<1>5. CASE invoke(s)
  BY <1>5 DEF invoke, Ready, Moves, Leaves, Covered, Inside, runVars
<1>6. CASE wsRecord(s)
  BY <1>6 DEF wsRecord, letGo, retryOrSettle, Ready, Moves, Leaves, Covered, Inside, runVars
<1>7. CASE refuseSnapshots(s)
  BY <1>7 DEF refuseSnapshots, retryOrSettle, Ready, Moves, Leaves, Covered, Inside, runVars
<1>8. CASE Release(s)
  BY <1>8 DEF Release, retryOrSettle, Ready, Moves, Leaves, Covered, Inside, runVars
<1>9. CASE cacheSaveHold(s)
  BY <1>9 DEF cacheSaveHold, Ready, Moves, Leaves, Covered, Inside, runVars
<1>10. CASE execHandler(s)
  BY <1>10 DEF execHandler, Ready, Moves, Leaves, Covered, Inside, runVars
<1>11. CASE forceSnapshot(s)
  BY <1>11 DEF forceSnapshot, Ready, Moves, Leaves, Covered, Inside, runVars
<1>12. CASE handleSnapshot(s)
  BY <1>12 DEF handleSnapshot, Ready, Moves, Leaves, Covered, Inside, runVars
<1>. QED BY <1>1, <1>2, <1>3, <1>4, <1>5, <1>6, <1>7, <1>8, <1>9, <1>10, <1>11, <1>12

\* So is whatever a session does, and it changes no directory.
LEMMA SessionsMove ==
  ASSUME NEW s \in Sessions,
         readCovered(s) \/ checkCovered(s) \/ readLocked(s) \/ realise(s) \/ closeShell(s)
         \/ dispatchShell(s)
  PROVE  /\ \E p : Moves(s, p)
         /\ Leaves(s) /\ phase = "run" /\ want[s] = {} /\ wsAt[s] # "restore"
         /\ UNCHANGED <<phase, left, tree, todo>>
<1>1. CASE readCovered(s)
  BY <1>1, WorkspacesAssumption DEF readCovered, Ready, Moves, Leaves, Covered, Inside, runVars
<1>2. CASE checkCovered(s)
  BY <1>2, WorkspacesAssumption
  DEF checkCovered, AskToken, Ready, Moves, Leaves, Covered, Inside, runVars
<1>3. CASE readLocked(s)
  BY <1>3, WorkspacesAssumption DEF readLocked, Ready, Moves, Leaves, Covered, Inside, runVars
<1>4. CASE realise(s)
  BY <1>4, WorkspacesAssumption DEF realise, Ready, Moves, Leaves, Covered, Inside, runVars
<1>5. CASE closeShell(s)
  BY <1>5, WorkspacesAssumption DEF closeShell, Ready, Moves, Leaves, Covered, Inside, runVars
<1>6. CASE dispatchShell(s)
  BY <1>6, WorkspacesAssumption
  DEF dispatchShell, AskToken, Ready, Moves, Leaves, Covered, Inside, runVars
<1>. QED BY <1>1, <1>2, <1>3, <1>4, <1>5, <1>6

\* Every step keeps the types of what is stored.
LEMMA TreesTypedStep ==
  ASSUME TreesTyped, CountsTyped, WorkspacesNext \/ UNCHANGED wsVars
  PROVE  TreesTyped'
<1>1. ASSUME NEW w \in Dirs, lease(w) PROVE TreesTyped'
  BY <1>1 DEF lease, abandonPersistent, lockVars, TreesTyped, CountsTyped, Trees, Own, NoDigests
<1>2. ASSUME NEW w \in Dirs, makeDir(w) PROVE TreesTyped'
  BY <1>2 DEF makeDir, lockVars, TreesTyped, CountsTyped, Trees, Own, NoDigests
<1>3. ASSUME openPersistent PROVE TreesTyped'
  BY <1>3
  DEF openPersistent, abandonPersistent, lockVars, TreesTyped, CountsTyped, Trees, Own,
      NoDigests
<1>4. ASSUME NEW s \in WsSteps, NEW w \in Dirs, restoreClear(s, w) PROVE TreesTyped'
  BY <1>4
  DEF restoreClear, Ready, runVars, lockVars, TreesTyped, CountsTyped, Trees, Own, NoDigests
<1>5. ASSUME NEW s \in WsSteps, NEW w \in Dirs, restorePlace(s, w) PROVE TreesTyped'
  BY <1>5
  DEF restorePlace, Ready, runVars, lockVars, TreesTyped, CountsTyped, Trees, Own, NoDigests
<1>6. ASSUME NEW s \in WsSteps, NEW w \in Dirs, snapshotMount(s, w) PROVE TreesTyped'
  BY <1>6
  DEF snapshotMount, Ready, runVars, lockVars, TreesTyped, CountsTyped, Trees, Own, NoDigests
<1>7. ASSUME NEW s \in WsSteps, invoke(s) PROVE TreesTyped'
  <2>1. PICK ws \in SUBSET Mounted[s] :
          /\ tree' = [w \in Dirs |-> IF w \in ws THEN Own(s) ELSE tree[w]]
          /\ raced' = raced \cup {w \in ws : Snapping(w) # {}}
    BY <1>7 DEF invoke
  <2>2. tree' \in [Dirs -> Trees] /\ Mounted[s] \subseteq Dirs
    BY <2>1, WorkspacesAssumption DEF TreesTyped, CountsTyped, Trees, Own
  <2>3. raced' \subseteq Dirs
    BY <2>1, <2>2 DEF TreesTyped
  <2>. QED BY <1>7, <2>2, <2>3 DEF invoke, TreesTyped, NoDigests, runVars
<1>8. ASSUME NEW s \in WsSteps, wsRecord(s) PROVE TreesTyped'
  <2>1. raced' \subseteq Dirs
    BY <1>8, WorkspacesAssumption DEF wsRecord, ForgetAttempt, TreesTyped
  <2>2. digestOf' \in [Dirs -> Trees \cup {NoDigest}]
    BY <1>8 DEF wsRecord, TreesTyped
  <2>. QED BY <1>8, <2>1, <2>2 DEF wsRecord, ForgetAttempt, TreesTyped, NoDigests, runVars
<1>9. ASSUME NEW s \in WsSteps, refuseSnapshots(s) PROVE TreesTyped'
  <2>1. raced' \subseteq Dirs
    BY <1>9, WorkspacesAssumption DEF refuseSnapshots, ForgetAttempt, TreesTyped
  <2>. QED BY <1>9, <2>1 DEF refuseSnapshots, ForgetAttempt, TreesTyped, NoDigests, runVars
<1>10. CASE UNCHANGED <<tree, digestOf, snaps, raced, left>>
  BY <1>10 DEF TreesTyped, CountsTyped, Trees, Own, NoDigests
<1>. QED
  BY <1>1, <1>2, <1>3, <1>4, <1>5, <1>6, <1>7, <1>8, <1>9, <1>10
  DEF WorkspacesNext, StepMoves, ShellMoves, RunOver, wsVars, runVars, lockVars, TakeShared,
      TakeExclusive, Dispatch, hashInputs, serveFromCache, prepareAttempt, StopService, Release,
      cacheSaveHold, execHandler, forceSnapshot, handleSnapshot, readCovered, checkCovered,
      readLocked, realise, closeShell, dispatchShell, endRun

\* Every step keeps the types of what an attempt and a session remember.
LEMMA CountsTypedStep ==
  ASSUME CountsTyped, WorkspacesNext \/ UNCHANGED wsVars
  PROVE  CountsTyped'
<1>0. ASSUME NEW a \in Sessions, NEW n \in Nat, AskToken(a, n)
      PROVE  shell' \in [Sessions -> [token : Nat, reads : Nat, torn : SUBSET Dirs]]
  <2>1. heldAt[ShellOn[a]] \in Nat
    BY WorkspacesAssumption DEF CountsTyped
  <2>2. CASE heldAt[ShellOn[a]] # 0 /\ n < 2
    <3>1. shell' = [shell EXCEPT ![a] = [token |-> heldAt[ShellOn[a]], reads |-> n + 1, torn |-> {}]]
      BY <1>0, <2>2 DEF AskToken
    <3>. QED BY <2>1, <3>1 DEF CountsTyped
  <2>3. CASE ~(heldAt[ShellOn[a]] # 0 /\ n < 2)
    <3>1. shell' = [shell EXCEPT ![a] = NoShell]
      BY <1>0, <2>3 DEF AskToken
    <3>. QED BY <3>1 DEF CountsTyped, NoShell
  <2>. QED BY <2>2, <2>3
<1>torn. \A a \in Sessions : Torn(ShellOn[a]) \in SUBSET Dirs
  BY WorkspacesAssumption DEF Torn
<1>1. ASSUME NEW s \in WsSteps, hashInputs(s) PROVE CountsTyped'
  BY <1>1, WorkspacesAssumption
  DEF hashInputs, Ready, goLocked, goTo, workspaceMountNames, unlock, runVars, CountsTyped,
      NoShell, Torn
<1>2. ASSUME NEW s \in WsSteps, serveFromCache(s) PROVE CountsTyped'
  BY <1>2, WorkspacesAssumption
  DEF serveFromCache, Ready, goLocked, goTo, workspaceMountNames, unlock, runVars, CountsTyped,
      NoShell, Torn
<1>3. ASSUME NEW s \in WsSteps, NEW w \in Dirs, restorePlace(s, w) PROVE CountsTyped'
  BY <1>3, WorkspacesAssumption
  DEF restorePlace, Ready, runVars, lockVars, CountsTyped, NoShell, Torn
<1>4. ASSUME NEW s \in WsSteps, prepareAttempt(s) PROVE CountsTyped'
  BY <1>4, WorkspacesAssumption
  DEF prepareAttempt, Ready, goLocked, goTo, workspaceMountNames, unlock, runVars,
      retryOrSettle, CountsTyped, NoShell, Torn
<1>5. ASSUME NEW s \in WsSteps, wsRecord(s) PROVE CountsTyped'
  BY <1>5, WorkspacesAssumption
  DEF wsRecord, Ready, letGo, ForgetAttempt, retryOrSettle, goTo, goLocked, workspaceMountNames,
      unlock, runVars, CountsTyped, NoShell, Torn
<1>6. ASSUME NEW s \in WsSteps, Release(s) PROVE CountsTyped'
  BY <1>6, WorkspacesAssumption
  DEF Release, Ready, retryOrSettle, goLocked, workspaceMountNames, unlock, runVars,
      CountsTyped, NoShell, Torn
<1>7. ASSUME NEW a \in Sessions, readCovered(a) PROVE CountsTyped'
  <2>1. shell' = [shell EXCEPT ![a].torn = Torn(ShellOn[a])] /\ UNCHANGED <<tries, heldAt, todo>>
    BY <1>7 DEF readCovered
  <2>. QED BY <1>torn, <2>1 DEF CountsTyped
<1>8. ASSUME NEW a \in Sessions, checkCovered(a) PROVE CountsTyped'
  <2>1. UNCHANGED <<tries, heldAt, todo>> /\ shell[a].torn \in SUBSET Dirs /\ shell[a].reads \in Nat
    BY <1>8 DEF checkCovered, CountsTyped
  <2>2. CASE stillHeld(a)
    <3>1. shell' = [shell EXCEPT ![a] = [NoShell EXCEPT !.torn = shell[a].torn]]
      BY <1>8, <2>2 DEF checkCovered
    <3>. QED BY <2>1, <3>1 DEF CountsTyped, NoShell
  <2>3. CASE ~stillHeld(a)
    <3>1. AskToken(a, shell[a].reads)
      BY <1>8, <2>3 DEF checkCovered
    <3>. QED BY <1>0, <2>1, <3>1 DEF CountsTyped
  <2>. QED BY <2>2, <2>3
<1>9. ASSUME NEW a \in Sessions, readLocked(a) PROVE CountsTyped'
  <2>1. shell' = [shell EXCEPT ![a].torn = Torn(ShellOn[a])] /\ UNCHANGED <<tries, heldAt, todo>>
    BY <1>9 DEF readLocked
  <2>. QED BY <1>torn, <2>1 DEF CountsTyped
<1>10. ASSUME NEW a \in Sessions, realise(a) PROVE CountsTyped'
  <2>1. /\ \/ shell' = [shell EXCEPT ![a] = [NoShell EXCEPT !.torn = Torn(ShellOn[a])]]
           \/ shell' = [shell EXCEPT ![a] = NoShell]
        /\ UNCHANGED <<tries, heldAt, todo>>
    BY <1>10 DEF realise
  <2>. QED BY <1>torn, <2>1 DEF CountsTyped, NoShell
<1>11. ASSUME NEW a \in Sessions, closeShell(a) PROVE CountsTyped'
  BY <1>11, WorkspacesAssumption
  DEF closeShell, Ready, goTo, runVars, CountsTyped, NoShell, Torn
<1>12. ASSUME NEW a \in Sessions, dispatchShell(a) PROVE CountsTyped'
  <2>1. AskToken(a, 0) /\ UNCHANGED <<tries, heldAt, todo>>
    BY <1>12 DEF dispatchShell
  <2>. QED BY <1>0, <2>1 DEF CountsTyped
<1>13. CASE UNCHANGED <<tries, heldAt, todo, shell>>
  BY <1>13 DEF CountsTyped, NoShell, Torn
<1>. QED
  BY <1>1, <1>2, <1>3, <1>4, <1>5, <1>6, <1>7, <1>8, <1>9, <1>10, <1>11, <1>12, <1>13
  DEF WorkspacesNext, StepMoves, ShellMoves, RunOver, wsVars, runVars, lockVars, lease, makeDir,
      openPersistent, TakeShared, TakeExclusive, Dispatch, StopService, restoreClear,
      snapshotMount, invoke, refuseSnapshots, cacheSaveHold, execHandler, forceSnapshot,
      handleSnapshot, endRun

\* Every step keeps what the locks promise: a hit's exclusive hold is alone on
\* its workspace, and everybody else at work has a shared hold on every mount.
LEMMA LocksStep ==
  ASSUME LocksTyped, LocksHold, CountsTyped, TreesTyped, WorkspacesNext \/ UNCHANGED wsVars
  PROVE  LocksTyped' /\ LocksHold'
<1>0. \A b : Node(b)' = Node(b)
  BY DEF Node
<1>1. ASSUME NEW w \in Dirs, lease(w) PROVE LocksTyped' /\ LocksHold'
  BY <1>0, <1>1 DEF lease, lockVars, LocksTyped, LocksHold
<1>2. ASSUME NEW w \in Dirs, makeDir(w) PROVE LocksTyped' /\ LocksHold'
  <2>1. \A v \in Dirs : tree'[v] = Gone => tree[v] = Gone /\ (v # w \/ phase' = "refused")
    BY <1>2, TreesDiffer DEF makeDir, TreesTyped
  <2>. QED BY <1>0, <1>2, <2>1 DEF makeDir, lockVars, LocksTyped, LocksHold
<1>3. ASSUME openPersistent PROVE LocksTyped' /\ LocksHold'
  BY <1>0, <1>3 DEF openPersistent, lockVars, LocksTyped, LocksHold
<1>4. ASSUME NEW a \in Actors, TakeShared(a), phase = "run" PROVE LocksTyped' /\ LocksHold'
  <2>1. PICK w \in NextHold(a) :
          /\ exclusive[w] = Nobody
          /\ shared' = [shared EXCEPT ![w] = @ \cup {a}]
          /\ want' = [want EXCEPT ![a] = @ \ {w}]
    BY <1>4 DEF TakeShared
  <2>2. w \in want[a] /\ w \in Dirs /\ want[a] # {}
    BY <2>1 DEF NextHold, LocksTyped
  <2>3. LocksTyped'
    BY <1>4, <2>1, <2>2 DEF TakeShared, runVars, LocksTyped
  <2>4. \A s \in WsSteps : exclusive[w] # s
    BY <2>1, WorkspacesAssumption DEF Actors
  <2>5. /\ \A v \in Dirs : v # w => shared'[v] = shared[v]
        /\ shared'[w] = shared[w] \cup {a}
        /\ \A b \in Actors : b # a => want'[b] = want[b]
        /\ want'[a] = want[a] \ {w}
        /\ UNCHANGED <<phase, left, tree, exclusive, wsAt, todo>>
    BY <1>4, <2>1, <2>2 DEF TakeShared, runVars, LocksTyped
  <2>6. \A v \in Dirs : \A s \in WsSteps : exclusive'[v] = s =>
          wsAt'[s] = "restore" /\ v \in Mounted[s] /\ v \notin want'[s] /\ shared'[v] = {}
    BY <1>4, <2>4, <2>5 DEF TakeShared, LocksHold, Actors
  <2>7. \A s \in WsSteps : wsAt'[s] = "restore" =>
          \A v \in Mounted[s] : v \in want'[s] \/ exclusive'[v] = s
    BY <1>4, <2>5 DEF TakeShared, LocksHold, Actors
  <2>8. \A b \in Actors : wsAt'[b] \in Covered =>
          \A v \in Mounted[Node(b)] : v \in want'[b] \/ b \in shared'[v]
    BY <2>2, <2>5, NodeIsAStep DEF LocksHold
  <2>9. \A b \in Actors : wsAt'[b] \in Inside => want'[b] = {}
    BY <2>5 DEF LocksHold
  <2>10. \A b \in Actors : want'[b] \subseteq Mounted[Node(b)]
    BY <2>5 DEF LocksHold
  <2>. QED BY <1>0, <2>3, <2>5, <2>6, <2>7, <2>8, <2>9, <2>10 DEF LocksHold
<1>5. ASSUME NEW a \in Actors, TakeExclusive(a), phase = "run" PROVE LocksTyped' /\ LocksHold'
  <2>1. a \in WsSteps /\ wsAt[a] = "restore"
    BY <1>5 DEF TakeExclusive, LocksHold, Actors
  <2>2. PICK w \in NextHold(a) :
          IF a \in queued[w]
            THEN /\ drained(w)
                 /\ exclusive' = [exclusive EXCEPT ![w] = a]
                 /\ queued' = [queued EXCEPT ![w] = @ \ {a}]
                 /\ want' = [want EXCEPT ![a] = @ \ {w}]
            ELSE queued' = [queued EXCEPT ![w] = @ \cup {a}] /\ UNCHANGED <<exclusive, want>>
    BY <1>5 DEF TakeExclusive
  <2>3. w \in want[a] /\ w \in Dirs
    BY <2>2 DEF NextHold, LocksTyped
  <2>4. UNCHANGED <<phase, left, tree, shared, wsAt, todo>>
    BY <1>5 DEF TakeExclusive, runVars
  <2>5. CASE a \notin queued[w]
    <3>1. UNCHANGED <<exclusive, want>>
      BY <2>2, <2>5
    <3>2. queued' \in [Dirs -> SUBSET Actors]
      BY <2>2, <2>3, <2>5 DEF LocksTyped
    <3>3. LocksTyped'
      BY <2>4, <3>1, <3>2 DEF LocksTyped
    <3>. QED BY <1>0, <2>4, <3>1, <3>3 DEF LocksHold
  <2>6. CASE a \in queued[w]
    <3>1. /\ shared[w] = {} /\ exclusive[w] = Nobody
          /\ \A v \in Dirs : v # w => exclusive'[v] = exclusive[v]
          /\ exclusive'[w] = a
          /\ \A b \in Actors : b # a => want'[b] = want[b]
          /\ want'[a] = want[a] \ {w}
      BY <2>1, <2>2, <2>3, <2>6 DEF drained, LocksTyped
    <3>2. LocksTyped'
      BY <2>1, <2>2, <2>3, <2>4, <2>6 DEF LocksTyped
    <3>3. w \in Mounted[a]
      BY <2>1, <2>3 DEF LocksHold, Node
    <3>4. \A v \in Dirs : \A s \in WsSteps : exclusive'[v] = s =>
            wsAt'[s] = "restore" /\ v \in Mounted[s] /\ v \notin want'[s] /\ shared'[v] = {}
      BY <2>1, <2>4, <3>1, <3>3 DEF LocksHold, Actors
    <3>5. \A s \in WsSteps : wsAt'[s] = "restore" =>
            \A v \in Mounted[s] : v \in want'[s] \/ exclusive'[v] = s
      BY <2>1, <2>3, <2>4, <3>1, WorkspacesAssumption DEF LocksHold, Actors
    <3>6. \A b \in Actors : wsAt'[b] \in Covered =>
            \A v \in Mounted[Node(b)] : v \in want'[b] \/ b \in shared'[v]
      BY <2>1, <2>4, <3>1 DEF LocksHold, Covered, Inside
    <3>7. \A b \in Actors : wsAt'[b] \in Inside => want'[b] = {}
      BY <2>1, <2>4, <3>1 DEF LocksHold, Inside
    <3>10. \A b \in Actors : want'[b] \subseteq Mounted[Node(b)]
      BY <3>1 DEF LocksHold
    <3>8. a # Nobody
      BY WorkspacesAssumption
    <3>9. \A v \in Dirs : exclusive[v] # Nobody => exclusive'[v] # Nobody
      BY <3>1, <3>8
    <3>. QED BY <1>0, <2>4, <3>2, <3>4, <3>5, <3>6, <3>7, <3>9, <3>10 DEF LocksHold
  <2>. QED BY <2>5, <2>6
<1>6. ASSUME NEW s \in WsSteps, NEW w \in Dirs, restoreClear(s, w) PROVE LocksTyped' /\ LocksHold'
  <2>1. exclusive[w] = s /\ s # Nobody
    BY <1>6, WorkspacesAssumption DEF restoreClear, Ready, LocksHold, Actors
  <2>2. \A v \in Dirs : tree'[v] = Gone => v = w \/ tree[v] = Gone
    BY <1>6 DEF restoreClear, TreesTyped
  <2>3. UNCHANGED <<phase, left, shared, exclusive, queued, want, wsAt, todo>> /\ phase = "run"
    BY <1>6 DEF restoreClear, Ready, lockVars, runVars
  <2>4. LocksTyped'
    BY <2>3 DEF LocksTyped
  <2>. QED BY <1>0, <2>1, <2>2, <2>3, <2>4 DEF LocksHold
<1>7. ASSUME NEW s \in WsSteps, NEW w \in Dirs, restorePlace(s, w) PROVE LocksTyped' /\ LocksHold'
  <2>1. \A v \in Dirs : tree'[v] = Gone => tree[v] = Gone
    BY <1>7 DEF restorePlace, TreesTyped
  <2>2. \A r \in WsSteps : todo'[r] \subseteq Mounted[r]
    BY <1>7 DEF restorePlace, CountsTyped, LocksHold
  <2>3. UNCHANGED <<phase, left, shared, exclusive, queued, want, wsAt>>
    BY <1>7 DEF restorePlace, lockVars, runVars
  <2>4. LocksTyped'
    BY <2>3 DEF LocksTyped
  <2>. QED BY <1>0, <2>1, <2>2, <2>3, <2>4 DEF LocksHold
<1>8. ASSUME NEW s \in WsSteps, NEW w \in Dirs, snapshotMount(s, w) PROVE LocksTyped' /\ LocksHold'
  BY <1>0, <1>8 DEF snapshotMount, lockVars, runVars, LocksTyped, LocksHold
<1>9. ASSUME NEW s \in WsSteps, serveFromCache(s) PROVE LocksTyped' /\ LocksHold'
  <2>1. PICK p \in {"done", "mount"} : (goTo(s, p) /\ p = "done") \/ goLocked(s, p)
    BY <1>9 DEF serveFromCache
  <2>2. /\ unlock(s) /\ phase = "run" /\ wsAt[s] = "restore" /\ want[s] = {}
        /\ UNCHANGED <<phase, left, tree>> /\ s \in Actors
        /\ \A w \in Mounted[s] : tree[w] # Gone
    BY <1>9 DEF serveFromCache, Ready, runVars, Actors
  <2>3. LocksTyped'
    BY <2>1, <2>2, MovesTyped DEF Leaves
  <2>4. /\ \A b \in Actors : b # s => wsAt'[b] = wsAt[b] /\ want'[b] = want[b]
        /\ wsAt'[s] = p /\ want'[s] \subseteq Mounted[s]
        /\ p = "mount" => want'[s] = Mounted[s]
    BY <2>1, <2>2 DEF goTo, goLocked, workspaceMountNames, Node, LocksTyped
  <2>5. /\ \A w \in Dirs : exclusive'[w] = IF exclusive[w] = s THEN Nobody ELSE exclusive[w]
        /\ \A w \in Dirs : shared'[w] = shared[w] \ {s}
    BY <2>2 DEF unlock
  <2>6. s # Nobody /\ \A r \in WsSteps : r # Nobody
    BY WorkspacesAssumption DEF Actors
  <2>7. \A w \in Dirs : \A r \in WsSteps : exclusive'[w] = r =>
          wsAt'[r] = "restore" /\ w \in Mounted[r] /\ w \notin want'[r] /\ shared'[w] = {}
    BY <2>4, <2>5, <2>6 DEF LocksHold, Actors
  <2>8. \A r \in WsSteps : wsAt'[r] = "restore" =>
          \A w \in Mounted[r] : w \in want'[r] \/ exclusive'[w] = r
    BY <2>1, <2>4, <2>5, WorkspacesAssumption DEF LocksHold, Actors
  <2>9. \A b \in Actors : wsAt'[b] \in Covered =>
          \A w \in Mounted[Node(b)] : w \in want'[b] \/ b \in shared'[w]
    <3>1. wsAt'[s] \in Covered => p = "mount" /\ Node(s) = s
      BY <2>1, <2>4 DEF Covered, Inside, Node
    <3>. QED BY <3>1, <2>4, <2>5, NodeIsAStep DEF LocksHold
  <2>10. \A b \in Actors : wsAt'[b] \in Inside => want'[b] = {}
    BY <2>1, <2>4 DEF LocksHold, Inside
  <2>11. \A b \in Actors : want'[b] \subseteq Mounted[Node(b)]
    BY <2>4 DEF LocksHold, Node
  <2>12. \A b \in Sessions : wsAt'[b] # "restore" /\ wsAt'[b] \notin Inside
    BY <2>4, WorkspacesAssumption DEF LocksHold, Actors
  <2>13. \A r \in WsSteps : todo'[r] \subseteq Mounted[r]
    BY <1>9 DEF serveFromCache, LocksHold, CountsTyped
  <2>14. \A w \in Dirs : tree'[w] = Gone => exclusive'[w] # Nobody
    BY <2>2, <2>5 DEF LocksHold
  <2>. QED
    BY <1>0, <2>2, <2>3, <2>7, <2>8, <2>9, <2>10, <2>11, <2>12, <2>13, <2>14 DEF LocksHold
<1>10. ASSUME NEW s \in WsSteps,
              Dispatch(s) \/ hashInputs(s) \/ prepareAttempt(s) \/ StopService(s) \/ invoke(s)
              \/ wsRecord(s) \/ refuseSnapshots(s) \/ Release(s) \/ cacheSaveHold(s)
              \/ execHandler(s) \/ forceSnapshot(s) \/ handleSnapshot(s)
       PROVE  LocksTyped' /\ LocksHold'
  <2>1. PICK p : Moves(s, p)
    BY <1>10, StepsMove
  <2>2. /\ Leaves(s) /\ phase = "run" /\ want[s] = {} /\ wsAt[s] # "restore"
        /\ UNCHANGED <<phase, left>>
    BY <1>10, StepsMove
  <2>3. \A w \in Dirs : tree'[w] = Gone => tree[w] = Gone
    <3>1. CASE invoke(s)
      BY <3>1, TreesDiffer DEF invoke, Own, TreesTyped
    <3>. QED BY <1>10, <3>1
    DEF Dispatch, hashInputs, prepareAttempt, StopService, wsRecord, refuseSnapshots, Release,
        cacheSaveHold, execHandler, forceSnapshot, handleSnapshot
  <2>4. \A r \in WsSteps : todo'[r] \subseteq Mounted[r]
    <3>1. CASE hashInputs(s)
      BY <3>1 DEF hashInputs, LocksHold, CountsTyped
    <3>2. CASE UNCHANGED todo
      BY <3>2 DEF LocksHold
    <3>. QED BY <1>10, <3>1, <3>2
    DEF Dispatch, prepareAttempt, StopService, invoke, wsRecord, refuseSnapshots, Release,
        cacheSaveHold, execHandler, forceSnapshot, handleSnapshot
  <2>5. s \in Actors /\ (goTo(s, p) \/ goLocked(s, p))
    BY <2>1 DEF Actors, Moves
  <2>6. LocksTyped'
    BY <2>2, <2>5, MovesTyped
  <2>. QED BY <2>1, <2>2, <2>3, <2>4, <2>5, <2>6, MovesLocks
<1>11. ASSUME NEW a \in Sessions,
              readCovered(a) \/ checkCovered(a) \/ readLocked(a) \/ realise(a) \/ closeShell(a)
              \/ dispatchShell(a)
       PROVE  LocksTyped' /\ LocksHold'
  <2>1. PICK p : Moves(a, p)
    BY <1>11, SessionsMove
  <2>2. /\ Leaves(a) /\ phase = "run" /\ want[a] = {} /\ wsAt[a] # "restore"
        /\ UNCHANGED <<phase, left, tree, todo>>
    BY <1>11, SessionsMove
  <2>3. a \in Actors /\ (goTo(a, p) \/ goLocked(a, p))
    BY <2>1 DEF Actors, Moves
  <2>4. LocksTyped'
    BY <2>2, <2>3, MovesTyped
  <2>5. \A s \in WsSteps : todo'[s] \subseteq Mounted[s]
    BY <2>2 DEF LocksHold
  <2>. QED BY <2>1, <2>2, <2>3, <2>4, <2>5, MovesLocks
<1>12. ASSUME endRun PROVE LocksTyped' /\ LocksHold'
  BY <1>0, <1>12 DEF endRun, lockVars, LocksTyped, LocksHold
<1>13. ASSUME UNCHANGED wsVars PROVE LocksTyped' /\ LocksHold'
  BY <1>0, <1>13 DEF wsVars, runVars, lockVars, LocksTyped, LocksHold
<1>. QED
  BY <1>1, <1>2, <1>3, <1>4, <1>5, <1>6, <1>7, <1>8, <1>9, <1>10, <1>11, <1>12, <1>13
  DEF WorkspacesNext, StepMoves, ShellMoves, RunOver

\* Whoever has all the holds of its mounts works in whole directories.
LEMMA CoveredIsWhole ==
  ASSUME LocksTyped, LocksHold, phase = "run",
         NEW a \in Actors, wsAt[a] \in Covered, want[a] = {}
  PROVE  \A w \in Mounted[Node(a)] : tree[w] # Gone
<1>. SUFFICES ASSUME NEW w \in Mounted[Node(a)] PROVE tree[w] # Gone
  OBVIOUS
<1>1. a \in shared[w] /\ w \in Dirs
  BY NodeIsAStep DEF LocksHold
<1>2. exclusive[w] = Nobody
  BY <1>1 DEF LocksHold, LocksTyped
<1>. QED BY <1>1, <1>2 DEF LocksHold

\* A step's move keeps the tokens: it is held under the number of its attempt,
\* and comes to a command again only under a later one.
LEMMA StepTokens ==
  ASSUME TokensHold, CountsTyped, NEW s \in WsSteps,
         \A b \in Actors : b # s => wsAt'[b] = wsAt[b],
         \A r \in WsSteps : r # s => tries'[r] = tries[r] /\ heldAt'[r] = heldAt[r],
         UNCHANGED shell, tries'[s] = tries[s] \/ tries'[s] = tries[s] + 1,
         heldAt'[s] # 0 => wsAt'[s] = "held" /\ heldAt'[s] = tries'[s],
         wsAt'[s] \in Inside => wsAt[s] \in Inside \/ tries'[s] = tries[s] + 1
  PROVE  TokensHold'
<1>1. \A r \in WsSteps : tries[r] \in Nat /\ tries[r] <= tries'[r]
  BY DEF CountsTyped
<1>2. \A a \in Sessions : a \in Actors /\ a # s /\ ShellOn[a] \in WsSteps /\ ShellOn[a] \in Actors
                          /\ wsAt'[a] = wsAt[a] /\ shell[a].token \in Nat
  BY WorkspacesAssumption DEF Actors, CountsTyped
<1>3. \A r \in WsSteps : heldAt'[r] # 0 => wsAt'[r] = "held" /\ heldAt'[r] = tries'[r]
  BY DEF TokensHold, Actors
<1>4. \A a \in Sessions : wsAt'[a] \in {"covered", "check"} =>
        shell[a].token # 0 /\ shell[a].token <= tries'[ShellOn[a]]
  BY <1>1, <1>2 DEF TokensHold
<1>5. \A a \in Sessions : wsAt'[a] = "check" /\ shell[a].torn # {} /\ wsAt'[ShellOn[a]] \in Inside =>
        shell[a].token < tries'[ShellOn[a]]
  <2>. SUFFICES ASSUME NEW a \in Sessions, wsAt'[a] = "check", shell[a].torn # {},
                       wsAt'[ShellOn[a]] \in Inside
                PROVE  shell[a].token < tries'[ShellOn[a]]
    OBVIOUS
  <2>1. CASE wsAt[ShellOn[a]] \in Inside
    BY <2>1, <1>1, <1>2 DEF TokensHold
  <2>2. CASE wsAt[ShellOn[a]] \notin Inside
    <3>1. ShellOn[a] = s /\ tries'[s] = tries[s] + 1
      BY <2>2, <1>2
    <3>2. shell[a].token <= tries[s]
      BY <3>1, <1>2 DEF TokensHold
    <3>. QED BY <3>1, <3>2, <1>1, <1>2
  <2>. QED BY <2>1, <2>2
<1>. QED BY <1>2, <1>3, <1>4, <1>5 DEF TokensHold

\* A session that asks is given the number of the attempt that is held, or waits.
LEMMA AskedToken ==
  ASSUME LocksTyped, CountsTyped, TokensHold, NEW a \in Sessions, NEW n, AskToken(a, n)
  PROVE  \/ wsAt'[a] = "reading"
         \/ /\ wsAt'[a] = "covered"
            /\ shell'[a].token # 0 /\ shell'[a].token <= tries[ShellOn[a]]
<1>1. a \in Actors /\ ShellOn[a] \in WsSteps
  BY WorkspacesAssumption DEF Actors
<1>2. CASE heldAt[ShellOn[a]] # 0 /\ n < 2
  <2>1. /\ wsAt' = [wsAt EXCEPT ![a] = "covered"]
        /\ shell' = [shell EXCEPT ![a] = [token |-> heldAt[ShellOn[a]], reads |-> n + 1, torn |-> {}]]
    BY <1>2 DEF AskToken, goTo
  <2>2. wsAt'[a] = "covered" /\ shell'[a].token = heldAt[ShellOn[a]]
    BY <2>1, <1>1 DEF LocksTyped, CountsTyped
  <2>3. heldAt[ShellOn[a]] = tries[ShellOn[a]] /\ tries[ShellOn[a]] \in Nat
    BY <1>1, <1>2 DEF TokensHold, CountsTyped
  <2>. QED BY <1>2, <2>2, <2>3
<1>3. CASE ~(heldAt[ShellOn[a]] # 0 /\ n < 2)
  BY <1>1, <1>3 DEF AskToken, goLocked, LocksTyped
<1>. QED BY <1>2, <1>3

\* Every step keeps the tokens, and with them what a session has read.
LEMMA TokensStep ==
  ASSUME LocksTyped, CountsTyped, LocksHold, TokensHold, WorkspacesNext \/ UNCHANGED wsVars
  PROVE  TokensHold'
<1>1. CASE UNCHANGED <<wsAt, heldAt, tries, shell>>
  BY <1>1 DEF TokensHold
<1>2. ASSUME NEW s \in WsSteps, Dispatch(s) PROVE TokensHold'
  <2>1. /\ \A b \in Actors : b # s => wsAt'[b] = wsAt[b]
        /\ \A r \in WsSteps : r # s => tries'[r] = tries[r] /\ heldAt'[r] = heldAt[r]
        /\ shell' = shell
    BY <1>2 DEF Dispatch, Ready, goLocked, LocksTyped, CountsTyped
  <2>2. /\ tries'[s] = tries[s] \/ tries'[s] = tries[s] + 1
        /\ heldAt'[s] # 0 => wsAt'[s] = "held" /\ heldAt'[s] = tries'[s]
        /\ wsAt'[s] \in Inside => wsAt[s] \in Inside \/ tries'[s] = tries[s] + 1
    BY <1>2 DEF Dispatch, Ready, goLocked, LocksTyped, CountsTyped, TokensHold, Inside, Actors
  <2>. QED BY <2>1, <2>2, StepTokens
<1>3. ASSUME NEW s \in WsSteps, hashInputs(s) PROVE TokensHold'
  <2>1. /\ \A b \in Actors : b # s => wsAt'[b] = wsAt[b]
        /\ \A r \in WsSteps : r # s => tries'[r] = tries[r] /\ heldAt'[r] = heldAt[r]
        /\ shell' = shell
    BY <1>3 DEF hashInputs, Ready, goLocked, goTo, LocksTyped, CountsTyped
  <2>2. /\ tries'[s] = tries[s] \/ tries'[s] = tries[s] + 1
        /\ heldAt'[s] # 0 => wsAt'[s] = "held" /\ heldAt'[s] = tries'[s]
        /\ wsAt'[s] \in Inside => wsAt[s] \in Inside \/ tries'[s] = tries[s] + 1
    BY <1>3
    DEF hashInputs, Ready, goLocked, goTo, LocksTyped, CountsTyped, TokensHold, Inside, Actors
  <2>. QED BY <2>1, <2>2, StepTokens
<1>4. ASSUME NEW s \in WsSteps, serveFromCache(s) PROVE TokensHold'
  <2>1. /\ \A b \in Actors : b # s => wsAt'[b] = wsAt[b]
        /\ \A r \in WsSteps : r # s => tries'[r] = tries[r] /\ heldAt'[r] = heldAt[r]
        /\ shell' = shell
    BY <1>4 DEF serveFromCache, Ready, goLocked, goTo, LocksTyped, CountsTyped
  <2>2. /\ tries'[s] = tries[s] \/ tries'[s] = tries[s] + 1
        /\ heldAt'[s] # 0 => wsAt'[s] = "held" /\ heldAt'[s] = tries'[s]
        /\ wsAt'[s] \in Inside => wsAt[s] \in Inside \/ tries'[s] = tries[s] + 1
    BY <1>4
    DEF serveFromCache, Ready, goLocked, goTo, LocksTyped, CountsTyped, TokensHold, Inside,
        Actors
  <2>. QED BY <2>1, <2>2, StepTokens
<1>5. ASSUME NEW s \in WsSteps, prepareAttempt(s) PROVE TokensHold'
  <2>1. /\ \A b \in Actors : b # s => wsAt'[b] = wsAt[b]
        /\ \A r \in WsSteps : r # s => tries'[r] = tries[r] /\ heldAt'[r] = heldAt[r]
        /\ shell' = shell
    BY <1>5 DEF prepareAttempt, Ready, goLocked, goTo, retryOrSettle, LocksTyped, CountsTyped
  <2>2. /\ tries'[s] = tries[s] \/ tries'[s] = tries[s] + 1
        /\ heldAt'[s] # 0 => wsAt'[s] = "held" /\ heldAt'[s] = tries'[s]
        /\ wsAt'[s] \in Inside => wsAt[s] \in Inside \/ tries'[s] = tries[s] + 1
    BY <1>5
    DEF prepareAttempt, Ready, goLocked, goTo, retryOrSettle, LocksTyped, CountsTyped,
        TokensHold, Inside, Actors
  <2>. QED BY <2>1, <2>2, StepTokens
<1>6. ASSUME NEW s \in WsSteps, StopService(s) PROVE TokensHold'
  <2>1. /\ \A b \in Actors : b # s => wsAt'[b] = wsAt[b]
        /\ \A r \in WsSteps : r # s => tries'[r] = tries[r] /\ heldAt'[r] = heldAt[r]
        /\ shell' = shell
    BY <1>6 DEF StopService, Ready, goTo, LocksTyped, CountsTyped
  <2>2. /\ tries'[s] = tries[s] \/ tries'[s] = tries[s] + 1
        /\ heldAt'[s] # 0 => wsAt'[s] = "held" /\ heldAt'[s] = tries'[s]
        /\ wsAt'[s] \in Inside => wsAt[s] \in Inside \/ tries'[s] = tries[s] + 1
    BY <1>6 DEF StopService, Ready, goTo, LocksTyped, CountsTyped, TokensHold, Inside, Actors
  <2>. QED BY <2>1, <2>2, StepTokens
<1>7. ASSUME NEW s \in WsSteps, invoke(s) PROVE TokensHold'
  <2>1. /\ \A b \in Actors : b # s => wsAt'[b] = wsAt[b]
        /\ \A r \in WsSteps : r # s => tries'[r] = tries[r] /\ heldAt'[r] = heldAt[r]
        /\ shell' = shell
    BY <1>7 DEF invoke, Ready, goTo, LocksTyped, CountsTyped
  <2>2. /\ tries'[s] = tries[s] \/ tries'[s] = tries[s] + 1
        /\ heldAt'[s] # 0 => wsAt'[s] = "held" /\ heldAt'[s] = tries'[s]
        /\ wsAt'[s] \in Inside => wsAt[s] \in Inside \/ tries'[s] = tries[s] + 1
    BY <1>7 DEF invoke, Ready, goTo, LocksTyped, CountsTyped, TokensHold, Inside, Actors
  <2>. QED BY <2>1, <2>2, StepTokens
<1>8. ASSUME NEW s \in WsSteps, wsRecord(s) PROVE TokensHold'
  <2>1. /\ \A b \in Actors : b # s => wsAt'[b] = wsAt[b]
        /\ \A r \in WsSteps : r # s => tries'[r] = tries[r] /\ heldAt'[r] = heldAt[r]
        /\ shell' = shell
    BY <1>8
    DEF wsRecord, Ready, letGo, ForgetAttempt, retryOrSettle, goTo, goLocked, LocksTyped,
        CountsTyped
  <2>2. /\ tries'[s] = tries[s] \/ tries'[s] = tries[s] + 1
        /\ heldAt'[s] # 0 => wsAt'[s] = "held" /\ heldAt'[s] = tries'[s]
        /\ wsAt'[s] \in Inside => wsAt[s] \in Inside \/ tries'[s] = tries[s] + 1
    BY <1>8
    DEF wsRecord, Ready, letGo, ForgetAttempt, retryOrSettle, goTo, goLocked, LocksTyped,
        CountsTyped, TokensHold, Inside, Actors
  <2>. QED BY <2>1, <2>2, StepTokens
<1>9. ASSUME NEW s \in WsSteps, refuseSnapshots(s) PROVE TokensHold'
  <2>1. /\ \A b \in Actors : b # s => wsAt'[b] = wsAt[b]
        /\ \A r \in WsSteps : r # s => tries'[r] = tries[r] /\ heldAt'[r] = heldAt[r]
        /\ shell' = shell
    BY <1>9
    DEF refuseSnapshots, Ready, ForgetAttempt, retryOrSettle, goLocked, LocksTyped, CountsTyped
  <2>2. /\ tries'[s] = tries[s] \/ tries'[s] = tries[s] + 1
        /\ heldAt'[s] # 0 => wsAt'[s] = "held" /\ heldAt'[s] = tries'[s]
        /\ wsAt'[s] \in Inside => wsAt[s] \in Inside \/ tries'[s] = tries[s] + 1
    BY <1>9
    DEF refuseSnapshots, Ready, ForgetAttempt, retryOrSettle, goLocked, LocksTyped, CountsTyped,
        TokensHold, Inside, Actors
  <2>. QED BY <2>1, <2>2, StepTokens
<1>10. ASSUME NEW s \in WsSteps, Release(s) PROVE TokensHold'
  <2>1. /\ \A b \in Actors : b # s => wsAt'[b] = wsAt[b]
        /\ \A r \in WsSteps : r # s => tries'[r] = tries[r] /\ heldAt'[r] = heldAt[r]
        /\ shell' = shell
    BY <1>10 DEF Release, Ready, retryOrSettle, goLocked, LocksTyped, CountsTyped
  <2>2. /\ tries'[s] = tries[s] \/ tries'[s] = tries[s] + 1
        /\ heldAt'[s] # 0 => wsAt'[s] = "held" /\ heldAt'[s] = tries'[s]
        /\ wsAt'[s] \in Inside => wsAt[s] \in Inside \/ tries'[s] = tries[s] + 1
    BY <1>10
    DEF Release, Ready, retryOrSettle, goLocked, LocksTyped, CountsTyped, TokensHold, Inside,
        Actors
  <2>. QED BY <2>1, <2>2, StepTokens
<1>11. ASSUME NEW s \in WsSteps, cacheSaveHold(s) PROVE TokensHold'
  <2>1. /\ \A b \in Actors : b # s => wsAt'[b] = wsAt[b]
        /\ \A r \in WsSteps : r # s => tries'[r] = tries[r] /\ heldAt'[r] = heldAt[r]
        /\ shell' = shell
    BY <1>11 DEF cacheSaveHold, Ready, goLocked, LocksTyped, CountsTyped
  <2>2. /\ tries'[s] = tries[s] \/ tries'[s] = tries[s] + 1
        /\ heldAt'[s] # 0 => wsAt'[s] = "held" /\ heldAt'[s] = tries'[s]
        /\ wsAt'[s] \in Inside => wsAt[s] \in Inside \/ tries'[s] = tries[s] + 1
    BY <1>11
    DEF cacheSaveHold, Ready, goLocked, LocksTyped, CountsTyped, TokensHold, Inside, Actors
  <2>. QED BY <2>1, <2>2, StepTokens
<1>12. ASSUME NEW s \in WsSteps, execHandler(s) PROVE TokensHold'
  <2>1. /\ \A b \in Actors : b # s => wsAt'[b] = wsAt[b]
        /\ \A r \in WsSteps : r # s => tries'[r] = tries[r] /\ heldAt'[r] = heldAt[r]
        /\ shell' = shell
    BY <1>12 DEF execHandler, Ready, goTo, LocksTyped, CountsTyped
  <2>2. /\ tries'[s] = tries[s] \/ tries'[s] = tries[s] + 1
        /\ heldAt'[s] # 0 => wsAt'[s] = "held" /\ heldAt'[s] = tries'[s]
        /\ wsAt'[s] \in Inside => wsAt[s] \in Inside \/ tries'[s] = tries[s] + 1
    BY <1>12 DEF execHandler, Ready, goTo, LocksTyped, CountsTyped, TokensHold, Inside, Actors
  <2>. QED BY <2>1, <2>2, StepTokens
<1>13. ASSUME NEW s \in WsSteps, forceSnapshot(s) PROVE TokensHold'
  <2>1. /\ \A b \in Actors : b # s => wsAt'[b] = wsAt[b]
        /\ \A r \in WsSteps : r # s => tries'[r] = tries[r] /\ heldAt'[r] = heldAt[r]
        /\ shell' = shell
    BY <1>13 DEF forceSnapshot, Ready, goTo, LocksTyped, CountsTyped
  <2>2. /\ tries'[s] = tries[s] \/ tries'[s] = tries[s] + 1
        /\ heldAt'[s] # 0 => wsAt'[s] = "held" /\ heldAt'[s] = tries'[s]
        /\ wsAt'[s] \in Inside => wsAt[s] \in Inside \/ tries'[s] = tries[s] + 1
    BY <1>13 DEF forceSnapshot, Ready, goTo, LocksTyped, CountsTyped, TokensHold, Inside, Actors
  <2>. QED BY <2>1, <2>2, StepTokens
<1>14. ASSUME NEW s \in WsSteps, handleSnapshot(s) PROVE TokensHold'
  <2>1. /\ \A b \in Actors : b # s => wsAt'[b] = wsAt[b]
        /\ \A r \in WsSteps : r # s => tries'[r] = tries[r] /\ heldAt'[r] = heldAt[r]
        /\ shell' = shell
    BY <1>14 DEF handleSnapshot, Ready, goLocked, LocksTyped, CountsTyped
  <2>2. /\ tries'[s] = tries[s] \/ tries'[s] = tries[s] + 1
        /\ heldAt'[s] # 0 => wsAt'[s] = "held" /\ heldAt'[s] = tries'[s]
        /\ wsAt'[s] \in Inside => wsAt[s] \in Inside \/ tries'[s] = tries[s] + 1
    BY <1>14
    DEF handleSnapshot, Ready, goLocked, LocksTyped, CountsTyped, TokensHold, Inside, Actors
  <2>. QED BY <2>1, <2>2, StepTokens
<1>30. ASSUME NEW a \in Sessions,
              readCovered(a) \/ checkCovered(a) \/ readLocked(a) \/ realise(a) \/ closeShell(a)
              \/ dispatchShell(a)
       PROVE  TokensHold'
  <2>1. /\ a \in Actors /\ ShellOn[a] \in WsSteps /\ ShellOn[a] \in Actors /\ Node(a) = ShellOn[a]
        /\ Node(ShellOn[a]) = ShellOn[a] /\ ShellOn[a] # a /\ \A s \in WsSteps : s \in Actors /\ s # a
    BY WorkspacesAssumption DEF Actors, Node
  <2>2. /\ \A b \in Actors : b # a => wsAt'[b] = wsAt[b]
        /\ \A b \in Sessions : b # a => shell'[b] = shell[b]
        /\ UNCHANGED <<tries, heldAt>> /\ phase = "run"
    BY <1>30
    DEF readCovered, checkCovered, readLocked, realise, closeShell, dispatchShell, AskToken,
        goTo, goLocked, Ready, LocksTyped, CountsTyped
  <2>3. /\ wsAt'[a] \in {"covered", "check"} =>
             shell'[a].token # 0 /\ shell'[a].token <= tries[ShellOn[a]]
        /\ wsAt'[a] = "check" /\ shell'[a].torn # {} => wsAt[ShellOn[a]] \notin Inside
        /\ wsAt'[a] = "realise" => shell'[a].torn = {}
    <3>1. CASE readCovered(a)
      <4>1. wsAt[ShellOn[a]] \in Inside => Torn(ShellOn[a]) = {}
        <5>. SUFFICES ASSUME wsAt[ShellOn[a]] \in Inside PROVE Torn(ShellOn[a]) = {}
          OBVIOUS
        <5>1. wsAt[ShellOn[a]] \in Covered /\ want[ShellOn[a]] = {}
          BY <2>1 DEF Covered, LocksHold
        <5>. QED BY <5>1, <2>1, <2>2, CoveredIsWhole DEF Torn
      <4>2. /\ wsAt[a] = "covered" /\ wsAt'[a] = "check"
            /\ shell'[a].torn = Torn(ShellOn[a]) /\ shell'[a].token = shell[a].token
        BY <3>1, <2>1 DEF readCovered, Ready, goTo, LocksTyped, CountsTyped
      <4>. QED BY <4>1, <4>2 DEF TokensHold
    <3>2. CASE checkCovered(a)
      <4>1. CASE stillHeld(a)
        <5>1. wsAt[a] = "check" /\ wsAt'[a] = "realise" /\ shell'[a].torn = shell[a].torn
          BY <3>2, <4>1, <2>1 DEF checkCovered, Ready, goTo, LocksTyped, CountsTyped, NoShell
        <5>2. heldAt[ShellOn[a]] = shell[a].token /\ shell[a].token # 0
          BY <4>1, <5>1 DEF stillHeld, TokensHold
        <5>3. wsAt[ShellOn[a]] = "held" /\ tries[ShellOn[a]] = shell[a].token
          BY <5>2, <2>1 DEF TokensHold
        <5>4. ~(shell[a].token < tries[ShellOn[a]])
          BY <5>3, <2>1 DEF CountsTyped
        <5>. QED BY <5>1, <5>3, <5>4 DEF TokensHold, Inside
      <4>2. CASE ~stillHeld(a)
        <5>1. AskToken(a, shell[a].reads)
          BY <3>2, <4>2 DEF checkCovered
        <5>. QED BY <5>1, AskedToken
      <4>. QED BY <4>1, <4>2
    <3>3. CASE readLocked(a)
      <4>1. wsAt[a] = "reading" /\ want[a] = {} /\ wsAt'[a] = "realise" /\ shell'[a].torn = Torn(ShellOn[a])
        BY <3>3, <2>1 DEF readLocked, Ready, goTo, LocksTyped, CountsTyped
      <4>2. wsAt[a] \in Covered
        BY <4>1 DEF Covered
      <4>3. Torn(ShellOn[a]) = {}
        BY <4>1, <4>2, <2>1, <2>2, CoveredIsWhole DEF Torn
      <4>. QED BY <4>1, <4>3
    <3>4. CASE realise(a) \/ closeShell(a)
      <4>1. wsAt'[a] \in {"open", "done"}
        BY <3>4, <2>1 DEF realise, closeShell, goTo, LocksTyped
      <4>. QED BY <4>1
    <3>5. CASE dispatchShell(a)
      BY <3>5, AskedToken DEF dispatchShell
    <3>. QED BY <1>30, <3>1, <3>2, <3>3, <3>4, <3>5
  <2>4. \A s \in WsSteps : wsAt'[s] = wsAt[s]
    BY <2>1, <2>2
  <2>5. \A b \in Sessions : b \in Actors /\ ShellOn[b] \in WsSteps
    BY WorkspacesAssumption DEF Actors
  <2>. QED BY <2>1, <2>2, <2>3, <2>4, <2>5 DEF TokensHold
<1>. QED
  BY <1>1, <1>2, <1>3, <1>4, <1>5, <1>6, <1>7, <1>8, <1>9, <1>10, <1>11, <1>12, <1>13, <1>14, <1>30
  DEF WorkspacesNext, StepMoves, ShellMoves, RunOver, wsVars, runVars, lockVars, lease, makeDir,
      openPersistent, TakeShared, TakeExclusive, restoreClear, restorePlace, snapshotMount, endRun

\* What touches no directory, no digest and no attempt that is taking its
\* snapshots keeps the digests true.
LEMMA QuietStep ==
  ASSUME DigestsHold, UNCHANGED <<tree, digestOf, snaps, raced>>, phase' = "run" => phase = "run",
         \A s \in WsSteps : wsAt'[s] = "snap" <=> wsAt[s] = "snap",
         \A s \in WsSteps : wsAt[s] = "snap" => tries'[s] = tries[s]
  PROVE  DigestsHold'
<1>1. \A w : Snapping(w)' = Snapping(w)
  BY DEF Snapping
<1>2. \A w : \A s \in Snapping(w) : Own(s)' = Own(s)
  BY DEF Snapping, Own
<1>3. \A w \in Dirs : phase' = "run" =>
        \/ w \in raced' \/ digestOf'[w] = NoDigest \/ digestOf'[w] = tree'[w] \/ tree'[w] = Gone
        \/ \E s \in Snapping(w)' : tree'[w] = Own(s)'
  BY <1>1, <1>2 DEF DigestsHold
<1>. QED BY <1>3 DEF DigestsHold

\* While a hit has a workspace to itself no attempt is taking snapshots of it.
LEMMA RestoreIsAlone ==
  ASSUME LocksTyped, LocksHold, NEW s \in WsSteps, NEW w \in Dirs,
         Ready(s, "restore"), w \in todo[s]
  PROVE  Snapping(w) = {}
<1>1. exclusive[w] = s
  BY DEF Ready, LocksHold
<1>2. shared[w] = {}
  BY <1>1 DEF LocksHold
<1>. SUFFICES ASSUME NEW t \in WsSteps, wsAt[t] = "snap", w \in Mounted[t] PROVE FALSE
  BY DEF Snapping
<1>3. t \in Actors /\ Node(t) = t /\ wsAt[t] \in Covered /\ wsAt[t] \in Inside
  BY DEF Actors, Node, Covered, Inside
<1>. QED BY <1>2, <1>3 DEF LocksHold

\* Every step keeps the digests true.
LEMMA DigestsStep ==
  ASSUME LocksTyped, TreesTyped, CountsTyped, LocksHold, DigestsHold,
         WorkspacesNext \/ UNCHANGED wsVars
  PROVE  DigestsHold'
<1>1. CASE UNCHANGED <<tree, digestOf, snaps, raced, wsAt, tries>> /\ (phase' = "run" => phase = "run")
  BY <1>1, QuietStep
<1>2. ASSUME NEW w \in Dirs, makeDir(w) PROVE DigestsHold'
  BY <1>2, WorkspacesAssumption DEF makeDir, DigestsHold, LocksTyped, Actors
<1>3. ASSUME openPersistent PROVE DigestsHold'
  <2>1. \A s \in WsSteps : wsAt'[s] # "snap"
    BY <1>3 DEF openPersistent, LocksTyped, Actors
  <2>2. \A w \in Dirs : phase' = "run" => digestOf'[w] = NoDigest \/ digestOf'[w] = tree'[w]
    BY <1>3 DEF openPersistent
  <2>. QED BY <1>3, <2>1, <2>2 DEF openPersistent, DigestsHold
<1>4. ASSUME NEW s \in WsSteps,
             Dispatch(s) \/ hashInputs(s) \/ serveFromCache(s) \/ prepareAttempt(s)
             \/ StopService(s) \/ Release(s) \/ cacheSaveHold(s) \/ execHandler(s)
             \/ forceSnapshot(s) \/ handleSnapshot(s)
      PROVE  DigestsHold'
  <2>1. /\ UNCHANGED <<tree, digestOf, snaps, raced>> /\ phase' = phase
        /\ \A r \in WsSteps : r # s => wsAt'[r] = wsAt[r] /\ tries'[r] = tries[r]
        /\ wsAt[s] # "snap" /\ wsAt'[s] # "snap"
    <3>1. CASE Dispatch(s)
      BY <3>1 DEF Dispatch, Ready, goLocked, runVars, LocksTyped, CountsTyped, Actors
    <3>2. CASE hashInputs(s)
      BY <3>2 DEF hashInputs, Ready, goLocked, goTo, runVars, LocksTyped, CountsTyped, Actors
    <3>3. CASE serveFromCache(s)
      BY <3>3
      DEF serveFromCache, Ready, goLocked, goTo, runVars, LocksTyped, CountsTyped, Actors
    <3>4. CASE prepareAttempt(s)
      BY <3>4
      DEF prepareAttempt, Ready, goLocked, goTo, runVars, retryOrSettle, LocksTyped,
          CountsTyped, Actors
    <3>5. CASE StopService(s)
      BY <3>5 DEF StopService, Ready, goTo, runVars, LocksTyped, CountsTyped, Actors
    <3>6. CASE Release(s)
      BY <3>6
      DEF Release, Ready, retryOrSettle, goLocked, runVars, LocksTyped, CountsTyped, Actors
    <3>7. CASE cacheSaveHold(s)
      BY <3>7 DEF cacheSaveHold, Ready, goLocked, runVars, LocksTyped, CountsTyped, Actors
    <3>8. CASE execHandler(s)
      BY <3>8 DEF execHandler, Ready, goTo, runVars, LocksTyped, CountsTyped, Actors
    <3>9. CASE forceSnapshot(s)
      BY <3>9 DEF forceSnapshot, Ready, goTo, runVars, LocksTyped, CountsTyped, Actors
    <3>10. CASE handleSnapshot(s)
      BY <3>10 DEF handleSnapshot, Ready, goLocked, runVars, LocksTyped, CountsTyped, Actors
    <3>. QED BY <1>4, <3>1, <3>2, <3>3, <3>4, <3>5, <3>6, <3>7, <3>8, <3>9, <3>10
  <2>. QED BY <2>1, QuietStep
<1>5. ASSUME NEW a \in Sessions,
             readCovered(a) \/ checkCovered(a) \/ readLocked(a) \/ realise(a) \/ closeShell(a)
             \/ dispatchShell(a)
      PROVE  DigestsHold'
  <2>1. \A s \in WsSteps : s # a /\ s \in Actors
    BY WorkspacesAssumption DEF Actors
  <2>2. UNCHANGED <<tree, digestOf, snaps, raced, tries>> /\ phase' = phase
    BY <1>5
    DEF readCovered, checkCovered, readLocked, realise, closeShell, dispatchShell, runVars
  <2>3. \A s \in WsSteps : wsAt'[s] = wsAt[s]
    BY <1>5, <2>1
    DEF readCovered, checkCovered, readLocked, realise, closeShell, dispatchShell, AskToken,
        goTo, goLocked, LocksTyped
  <2>. QED BY <2>2, <2>3, QuietStep
<1>6. ASSUME NEW s \in WsSteps, NEW w \in Dirs, restoreClear(s, w) PROVE DigestsHold'
  <2>1. Snapping(w) = {}
    BY <1>6, RestoreIsAlone DEF restoreClear
  <2>2. /\ UNCHANGED <<digestOf, snaps, raced, wsAt, tries, phase>>
        /\ tree'[w] = Gone /\ \A v \in Dirs : v # w => tree'[v] = tree[v]
    BY <1>6 DEF restoreClear, runVars, lockVars, TreesTyped
  <2>3. \A v : Snapping(v)' = Snapping(v) /\ \A r \in Snapping(v) : Own(r)' = Own(r)
    BY <2>2 DEF Snapping, Own
  <2>4. \A r \in WsSteps : wsAt'[r] = "snap" =>
          \A v \in DOMAIN snaps'[r] : v \in raced' \/ snaps'[r][v] = tree'[v]
    <3>. SUFFICES ASSUME NEW r \in WsSteps, wsAt'[r] = "snap", NEW v \in DOMAIN snaps'[r]
                  PROVE  v \in raced' \/ snaps'[r][v] = tree'[v]
      OBVIOUS
    <3>1. wsAt[r] = "snap" /\ snaps'[r] = snaps[r] /\ v \in Mounted[r] /\ v \in Dirs
      BY <2>2, WorkspacesAssumption DEF DigestsHold
    <3>2. v # w
      BY <2>1, <3>1 DEF Snapping
    <3>. QED BY <2>2, <3>1, <3>2 DEF DigestsHold
  <2>5. \A v \in Dirs : phase' = "run" =>
          \/ v \in raced' \/ digestOf'[v] = NoDigest \/ digestOf'[v] = tree'[v] \/ tree'[v] = Gone
          \/ \E r \in Snapping(v)' : tree'[v] = Own(r)'
    BY <2>2, <2>3 DEF DigestsHold
  <2>. QED BY <2>2, <2>4, <2>5 DEF DigestsHold
<1>7. ASSUME NEW s \in WsSteps, NEW w \in Dirs, restorePlace(s, w) PROVE DigestsHold'
  <2>1. Snapping(w) = {}
    BY <1>7, RestoreIsAlone DEF restorePlace
  <2>2. /\ UNCHANGED <<snaps, raced, wsAt, tries, phase>>
        /\ digestOf'[w] = tree'[w]
        /\ \A v \in Dirs : v # w => tree'[v] = tree[v] /\ digestOf'[v] = digestOf[v]
    BY <1>7 DEF restorePlace, runVars, lockVars, TreesTyped
  <2>3. \A v : Snapping(v)' = Snapping(v) /\ \A r \in Snapping(v) : Own(r)' = Own(r)
    BY <2>2 DEF Snapping, Own
  <2>4. \A r \in WsSteps : wsAt'[r] = "snap" =>
          \A v \in DOMAIN snaps'[r] : v \in raced' \/ snaps'[r][v] = tree'[v]
    <3>. SUFFICES ASSUME NEW r \in WsSteps, wsAt'[r] = "snap", NEW v \in DOMAIN snaps'[r]
                  PROVE  v \in raced' \/ snaps'[r][v] = tree'[v]
      OBVIOUS
    <3>1. wsAt[r] = "snap" /\ snaps'[r] = snaps[r] /\ v \in Mounted[r] /\ v \in Dirs
      BY <2>2, WorkspacesAssumption DEF DigestsHold
    <3>2. v # w
      BY <2>1, <3>1 DEF Snapping
    <3>. QED BY <2>2, <3>1, <3>2 DEF DigestsHold
  <2>5. \A v \in Dirs : phase' = "run" =>
          \/ v \in raced' \/ digestOf'[v] = NoDigest \/ digestOf'[v] = tree'[v] \/ tree'[v] = Gone
          \/ \E r \in Snapping(v)' : tree'[v] = Own(r)'
    BY <2>2, <2>3 DEF DigestsHold
  <2>. QED BY <2>2, <2>4, <2>5 DEF DigestsHold
<1>8. ASSUME NEW s \in WsSteps, NEW w \in Dirs, snapshotMount(s, w) PROVE DigestsHold'
  <2>1. /\ UNCHANGED <<tree, digestOf, raced, wsAt, tries, phase>>
        /\ w \in Mounted[s] /\ DOMAIN snaps'[s] = DOMAIN snaps[s] \cup {w}
        /\ snaps'[s][w] = tree[w]
        /\ \A v \in DOMAIN snaps[s] : v # w => snaps'[s][v] = snaps[s][v]
        /\ \A r \in WsSteps : r # s => snaps'[r] = snaps[r]
    BY <1>8 DEF snapshotMount, runVars, lockVars, TreesTyped
  <2>2. \A v : Snapping(v)' = Snapping(v) /\ \A r \in Snapping(v) : Own(r)' = Own(r)
    BY <2>1 DEF Snapping, Own
  <2>3. \A r \in WsSteps : wsAt'[r] = "snap" =>
          \A v \in DOMAIN snaps'[r] : v \in raced' \/ snaps'[r][v] = tree'[v]
    BY <2>1 DEF DigestsHold
  <2>4. \A v \in Dirs : phase' = "run" =>
          \/ v \in raced' \/ digestOf'[v] = NoDigest \/ digestOf'[v] = tree'[v] \/ tree'[v] = Gone
          \/ \E r \in Snapping(v)' : tree'[v] = Own(r)'
    BY <2>1, <2>2 DEF DigestsHold
  <2>5. \A r \in WsSteps : DOMAIN snaps'[r] \subseteq Mounted[r]
    BY <2>1 DEF DigestsHold
  <2>. QED BY <2>3, <2>4, <2>5 DEF DigestsHold
<1>9. ASSUME NEW s \in WsSteps, invoke(s) PROVE DigestsHold'
  <2>1. PICK ws \in SUBSET Mounted[s] :
          /\ tree' = [w \in Dirs |-> IF w \in ws THEN Own(s) ELSE tree[w]]
          /\ raced' = raced \cup {w \in ws : Snapping(w) # {}}
    BY <1>9 DEF invoke
  <2>2. /\ UNCHANGED <<digestOf, tries, phase>>
        /\ wsAt[s] = "run" /\ wsAt'[s] = "snap" /\ DOMAIN snaps'[s] = {}
        /\ \A r \in WsSteps : r # s => wsAt'[r] = wsAt[r] /\ snaps'[r] = snaps[r]
    BY <1>9 DEF invoke, Ready, goTo, runVars, NoDigests, LocksTyped, TreesTyped, Actors
  <2>3. \A r : Own(r)' = Own(r)
    BY <2>2 DEF Own
  <2>4. \A w : Snapping(w) \subseteq Snapping(w)' /\ (w \in Mounted[s] => s \in Snapping(w)')
    BY <2>2 DEF Snapping
  <2>5. \A r \in WsSteps : wsAt'[r] = "snap" =>
          \A w \in DOMAIN snaps'[r] : w \in raced' \/ snaps'[r][w] = tree'[w]
    <3>. SUFFICES ASSUME NEW r \in WsSteps, wsAt'[r] = "snap", NEW w \in DOMAIN snaps'[r]
                  PROVE  w \in raced' \/ snaps'[r][w] = tree'[w]
      OBVIOUS
    <3>1. r # s /\ wsAt[r] = "snap" /\ snaps'[r] = snaps[r]
      BY <2>2
    <3>2. w \in Mounted[r] /\ w \in Dirs /\ (w \in raced \/ snaps[r][w] = tree[w])
      BY <3>1, WorkspacesAssumption DEF DigestsHold
    <3>3. r \in Snapping(w)
      BY <3>1, <3>2 DEF Snapping
    <3>. QED BY <2>1, <3>1, <3>2, <3>3
  <2>6. \A w \in Dirs : phase' = "run" =>
          \/ w \in raced' \/ digestOf'[w] = NoDigest \/ digestOf'[w] = tree'[w] \/ tree'[w] = Gone
          \/ \E r \in Snapping(w)' : tree'[w] = Own(r)'
    <3>. SUFFICES ASSUME NEW w \in Dirs, phase' = "run"
                  PROVE  \/ w \in raced' \/ digestOf'[w] = NoDigest \/ digestOf'[w] = tree'[w]
                         \/ tree'[w] = Gone \/ \E r \in Snapping(w)' : tree'[w] = Own(r)'
      OBVIOUS
    <3>1. CASE w \in ws
      BY <3>1, <2>1, <2>3, <2>4
    <3>2. CASE w \notin ws
      <4>1. tree'[w] = tree[w] /\ raced \subseteq raced'
        BY <3>2, <2>1
      <4>. QED BY <4>1, <2>2, <2>3, <2>4 DEF DigestsHold
    <3>. QED BY <3>1, <3>2
  <2>7. \A r \in WsSteps : DOMAIN snaps'[r] \subseteq Mounted[r]
    BY <2>2 DEF DigestsHold
  <2>. QED BY <2>5, <2>6, <2>7 DEF DigestsHold
<1>10. ASSUME NEW s \in WsSteps, wsRecord(s) \/ refuseSnapshots(s) PROVE DigestsHold'
  <2>1. PICK rec \in SUBSET DOMAIN snaps[s] :
          /\ \A w \in Dirs : digestOf'[w] = IF w \in rec THEN snaps[s][w] ELSE digestOf[w]
          /\ raced' = raced \cup {w \in Mounted[s] \ rec : tree[w] = Own(s)}
    <3>1. CASE wsRecord(s)
      BY <3>1 DEF wsRecord, ForgetAttempt
    <3>2. CASE refuseSnapshots(s)
      BY <3>2 DEF refuseSnapshots, ForgetAttempt
    <3>. QED BY <1>10, <3>1, <3>2
  <2>2. UNCHANGED <<tree, tries, phase>> /\ wsAt[s] = "snap"
    BY <1>10 DEF wsRecord, refuseSnapshots, Ready, runVars
  <2>3. /\ DOMAIN snaps'[s] = {}
        /\ \A r \in WsSteps : r # s => snaps'[r] = snaps[r]
    BY <1>10 DEF wsRecord, refuseSnapshots, ForgetAttempt, NoDigests, TreesTyped
  <2>4. /\ wsAt'[s] # "snap"
        /\ \A r \in WsSteps : r # s => wsAt'[r] = wsAt[r]
    BY <1>10
    DEF wsRecord, refuseSnapshots, letGo, retryOrSettle, goTo, goLocked, LocksTyped, Actors
  <2>5. \A r : Own(r)' = Own(r)
    BY <2>2 DEF Own
  <2>6. \A w : Snapping(w)' = Snapping(w) \ {s}
    BY <2>2, <2>4 DEF Snapping
  <2>7. \A r \in WsSteps : wsAt'[r] = "snap" =>
          \A w \in DOMAIN snaps'[r] : w \in raced' \/ snaps'[r][w] = tree'[w]
    BY <2>1, <2>2, <2>3, <2>4 DEF DigestsHold
  <2>8. \A w \in Dirs : phase' = "run" =>
          \/ w \in raced' \/ digestOf'[w] = NoDigest \/ digestOf'[w] = tree'[w] \/ tree'[w] = Gone
          \/ \E r \in Snapping(w)' : tree'[w] = Own(r)'
    <3>. SUFFICES ASSUME NEW w \in Dirs, phase' = "run"
                  PROVE  \/ w \in raced' \/ digestOf'[w] = NoDigest \/ digestOf'[w] = tree'[w]
                         \/ tree'[w] = Gone \/ \E r \in Snapping(w)' : tree'[w] = Own(r)'
      OBVIOUS
    <3>1. CASE w \in rec
      <4>1. w \in raced \/ snaps[s][w] = tree[w]
        BY <3>1, <2>2 DEF DigestsHold
      <4>. QED BY <3>1, <4>1, <2>1, <2>2
    <3>2. CASE w \notin rec
      <4>1. CASE \E r \in Snapping(w) \ {s} : tree[w] = Own(r)
        BY <4>1, <2>2, <2>5, <2>6
      <4>2. CASE s \in Snapping(w) /\ tree[w] = Own(s)
        BY <4>2, <3>2, <2>1 DEF Snapping
      <4>3. CASE w \in raced \/ digestOf[w] = NoDigest \/ digestOf[w] = tree[w] \/ tree[w] = Gone
        BY <4>3, <3>2, <2>1, <2>2
      <4>. QED BY <4>1, <4>2, <4>3, <2>2 DEF DigestsHold
    <3>. QED BY <3>1, <3>2
  <2>9. \A r \in WsSteps : DOMAIN snaps'[r] \subseteq Mounted[r]
    BY <2>3 DEF DigestsHold
  <2>. QED BY <2>7, <2>8, <2>9 DEF DigestsHold
<1>. QED
  BY <1>1, <1>2, <1>3, <1>4, <1>5, <1>6, <1>7, <1>8, <1>9, <1>10
  DEF WorkspacesNext, StepMoves, ShellMoves, RunOver, wsVars, runVars, lockVars, lease,
      TakeShared, TakeExclusive, endRun

\* Every step keeps the inductive invariant.
LEMMA WsStep ==
  WsInv /\ [WorkspacesNext]_wsVars => WsInv'
BY TreesTypedStep, CountsTypedStep, LocksStep, TokensStep, DigestsStep DEF WsInv

\* What a step works in is whole and what is recorded is true (WorkspacesHold).
THEOREM WorkspacesStayWhole == WorkspacesSpec => []WorkspacesHold
<1>1. WsInv => WorkspacesHold
  <2>. SUFFICES ASSUME WsInv PROVE WorkspacesHold
    OBVIOUS
  <2>1. ASSUME NEW s \in WsSteps, Using(s), phase = "run", NEW w \in Mounted[s] PROVE tree[w] # Gone
    <3>1. s \in Actors /\ Node(s) = s /\ wsAt[s] \in Covered /\ want[s] = {}
      BY <2>1 DEF Using, Actors, Node, Covered, Inside
    <3>. QED BY <2>1, <3>1, CoveredIsWhole DEF WsInv
  <2>2. \A a \in Sessions : wsAt[a] = "realise" => shell[a].torn = {}
    BY DEF WsInv, TokensHold
  <2>3. ASSUME NEW w \in Dirs, phase = "run", WsQuiet(w), w \notin raced, digestOf[w] # NoDigest
        PROVE  digestOf[w] = tree[w]
    <3>1. tree[w] # Gone
      BY <2>3 DEF WsQuiet, WsInv, LocksHold
    <3>. QED BY <2>3, <3>1 DEF WsQuiet, WsInv, DigestsHold
  <2>. QED BY <2>1, <2>2, <2>3 DEF WorkspacesHold, TreesAreWhole, DigestDescribesTree
<1>. QED BY <1>1, WsInit, WsStep, PTL DEF WorkspacesSpec

-----------------------------------------------------------------------------
(* Services.                                                               *)

NodeOutcomes == {Unsettled, "succeeded", "failed", "cancelled", "skipped", "skipped_manual"}

SvcRecords ==
    [at : {"none", "queued", "starting", "probing", "published", "ready", "stopped", "withdrawn"},
     up : BOOLEAN, stops : BOOLEAN, stop : BOOLEAN, ready : BOOLEAN, pending : BOOLEAN,
     execs : Nat, entry : Nat, heard : Nat, slot : BOOLEAN,
     end : NodeOutcomes, crashed : SUBSET Nat]

JobRecords ==
    [at : {"none", "await", "queued", "executing"}, waits : Nat,
     addr : Nat, from : Nat, alone : BOOLEAN]

USE DEF SvcRecords, JobRecords

(* Types of the service, its consumers and the loop.                       *)
ServicesTypeOK ==
    /\ svc \in SvcRecords
    /\ job \in [Consumers -> JobRecords]
    /\ nodeState \in [ServiceNodes -> NodeOutcomes]
    /\ busy \subseteq ServiceNodes
    /\ loopAt \in {"pass", "stop", "serve", "done"}
    /\ free \in Nat /\ ops \in Nat
    /\ runCancelled \in BOOLEAN /\ paused \in BOOLEAN

(* busy is who has a goroutine, and a node with one has no outcome yet.    *)
Claimed ==
    /\ Svc \in busy <=> svc.at # "none"
    /\ Svc \in busy => nodeState[Svc] = Unsettled
    /\ \A c \in Consumers : /\ c \in busy <=> job[c].at # "none"
                            /\ c \in busy => nodeState[c] = Unsettled

(* The service table: what is published is the current execution, which is *)
(* up or crashed until something stops it; the slot is held until ready.   *)
TableKept ==
    /\ svc.at # "none" => svc.execs > 0
    /\ svc.entry # 0 => svc.entry = svc.execs /\ svc.at \in {"published", "ready", "stopped"}
    /\ svc.at \in {"published", "ready"} => svc.entry = svc.execs /\ (svc.up \/ svc.execs \in svc.crashed)
    /\ svc.heard <= svc.execs
    /\ svc.up => svc.at \in {"probing", "published", "ready"}
    /\ svc.at \in {"starting", "probing", "published"} => svc.slot
    /\ svc.at \in {"none", "queued", "ready", "withdrawn"} => ~svc.slot

(* Ready and told to stop exclude each other, and in a run nobody cancelled *)
(* a service that was ready ends because it crashed or was told to stop.   *)
StopKept ==
    /\ svc.ready => \/ svc.at \in {"ready", "stopped", "withdrawn"}
                    \/ svc.at = "none" /\ nodeState[Svc] # Unsettled
    /\ svc.at # "none" /\ svc.stop => /\ ~svc.stops /\ ~svc.ready
                                      /\ svc.at \in {"ready", "stopped", "withdrawn"}
    /\ svc.at \in {"stopped", "withdrawn"} => svc.end # Unsettled
    /\ ~runCancelled =>
         /\ svc.at \in {"stopped", "withdrawn"} /\ svc.ready => svc.execs \in svc.crashed
         /\ svc.at = "stopped" /\ svc.entry # 0 => svc.execs \in svc.crashed \/ svc.stop
         /\ svc.at \in {"stopped", "withdrawn"} /\ svc.end = "succeeded" => svc.stop

(* The service is on its way down, or was stopped.                         *)
Down == \/ svc.at # "none" /\ svc.stop
        \/ svc.at = "none" /\ nodeState[Svc] = "succeeded"

(* A consumer that waits for readySet after the service was stopped has    *)
(* had its restart queued.                                                 *)
RestartKept ==
    ~runCancelled => \A c \in Consumers :
        nodeState[c] = Unsettled /\ c \notin busy /\ Down => svc.pending

(* The service is up for c, or crashed after c was chosen.                 *)
Answers(c) == \/ \E gen \in svc.crashed : gen >= job[c].from
              \/ svc.at \in {"published", "ready"} /\ svc.up /\ svc.execs >= job[c].from

(* What a consumer with a goroutine may rely on.                           *)
JobKept(c) ==
    /\ c \in busy /\ svc.at # "none" /\ svc.stop => job[c].at = "await" /\ job[c].waits > svc.execs
    /\ c \in busy /\ job[c].alone => Declined /\ job[c].waits = 0 /\ job[c].addr = 0
    /\ job[c].at = "await" /\ job[c].waits # 0 => job[c].from = job[c].waits
    /\ (job[c].at = "await" /\ job[c].waits = 0) \/ job[c].at = "queued" => job[c].alone \/ Answers(c)
    /\ job[c].at = "executing" =>
          IF job[c].addr = 0
             THEN job[c].alone \/ \E gen \in svc.crashed : gen >= job[c].from
             ELSE \/ job[c].addr \in svc.crashed
                  \/ job[c].addr = svc.execs /\ svc.up /\ svc.at \in {"published", "ready"}

JobsKept == ~runCancelled => \A c \in Consumers : JobKept(c)

(* The inductive invariant, without the count of the slots.                *)
AddressKept == ServicesTypeOK /\ Claimed /\ TableKept /\ StopKept /\ RestartKept /\ JobsKept

-----------------------------------------------------------------------------
(* Steps that touch neither the service nor its consumers.                 *)
LEMMA LoopMoves ==
    ASSUME AddressKept, NextPass \/ PauseOrResume \/ CancelRun \/ UNCHANGED serviceVars
    PROVE  AddressKept'
<1>1. UNCHANGED <<svc, job, nodeState, busy, free>> /\ (runCancelled => runCancelled')
  BY DEF NextPass, PauseOrResume, CancelRun, serviceVars
<1>2. ServicesTypeOK'
  <2>1. ops' \in Nat
    BY DEF AddressKept, ServicesTypeOK, NextPass, PauseOrResume, CancelRun, serviceVars, Serving, Served
  <2>2. loopAt' \in {"pass", "stop", "serve", "done"}
    BY DEF AddressKept, ServicesTypeOK, NextPass, PauseOrResume, CancelRun, serviceVars, Serving, Served
  <2>3. runCancelled' \in BOOLEAN /\ paused' \in BOOLEAN
    BY DEF AddressKept, ServicesTypeOK, NextPass, PauseOrResume, CancelRun, serviceVars
  <2> QED BY <1>1, <2>1, <2>2, <2>3 DEF AddressKept, ServicesTypeOK
<1>3. Claimed' /\ TableKept'
  BY <1>1 DEF AddressKept, Claimed, TableKept
<1>4. StopKept' /\ RestartKept'
  BY <1>1 DEF AddressKept, StopKept, RestartKept, Down
<1>5. JobsKept'
  BY <1>1 DEF AddressKept, JobsKept, JobKept, Answers, Declined
<1> QED BY <1>2, <1>3, <1>4, <1>5 DEF AddressKept

-----------------------------------------------------------------------------
(* The service table's three updates, for the execution that is current:   *)
(* nothing of another generation is overwritten.                           *)
LEMMA TableOps ==
    ASSUME AddressKept
    PROVE  /\ publish(svc, svc.execs) = [svc EXCEPT !.entry = svc.execs, !.heard = svc.execs]
           /\ withdraw(svc, svc.execs) = [svc EXCEPT !.entry = 0, !.heard = svc.execs]
<1>1. svc.execs \in Nat /\ svc.heard \in Nat /\ svc.entry \in Nat
  BY DEF AddressKept, ServicesTypeOK
<1>2. svc.heard <= svc.execs /\ (svc.entry = 0 \/ svc.entry = svc.execs)
  BY DEF AddressKept, TableKept
<1>3. (IF svc.execs > svc.heard THEN svc.execs ELSE svc.heard) = svc.execs
  BY <1>1, <1>2
<1>4. (IF svc.entry <= svc.execs THEN 0 ELSE svc.entry) = 0
  BY <1>1, <1>2
<1>5. svc.execs >= 0 /\ svc.entry <= svc.execs
  BY <1>1, <1>2
<1>6. publish(svc, svc.execs) = [svc EXCEPT !.entry = svc.execs, !.heard = svc.execs]
  BY <1>3 DEF AddressKept, ServicesTypeOK, publish, heard
<1>7. withdraw(svc, svc.execs) = [svc EXCEPT !.entry = 0, !.heard = svc.execs]
  BY <1>3, <1>4 DEF AddressKept, ServicesTypeOK, withdraw, heard
<1> QED BY <1>6, <1>7

(* prepareAttempt and StartService: the process is there.                  *)
LEMMA Starts ==
    ASSUME AddressKept, StartService
    PROVE  AddressKept'
<1>1. /\ UNCHANGED <<job, nodeState, busy, loopAt, runCancelled, paused, ops>>
      /\ free' \in Nat
      /\ svc.at = "starting" /\ svc' = [svc EXCEPT !.at = "probing", !.up = TRUE]
  BY DEF AddressKept, ServicesTypeOK, StartService
<1>2. ServicesTypeOK'
  BY <1>1 DEF AddressKept, ServicesTypeOK, NodeOutcomes, Unsettled
<1>3. Claimed'
  BY <1>1 DEF AddressKept, ServicesTypeOK, Claimed
<1>4. TableKept'
  BY <1>1 DEF AddressKept, ServicesTypeOK, TableKept
<1>5. StopKept'
  BY <1>1 DEF AddressKept, ServicesTypeOK, StopKept, TableKept, Claimed, Unsettled
<1>6. RestartKept'
  BY <1>1 DEF AddressKept, ServicesTypeOK, RestartKept, Down, StopKept
<1>7. JobsKept'
  BY <1>1 DEF AddressKept, ServicesTypeOK, JobsKept, JobKept, Answers, Declined, Claimed, StopKept, TableKept
<1> QED BY <1>2, <1>3, <1>4, <1>5, <1>6, <1>7 DEF AddressKept

(* The slot, or a cancelled run's end before anything started.             *)
LEMMA TakesSlot ==
    ASSUME AddressKept, AcquireSlot
    PROVE  AddressKept'
<1>1. /\ UNCHANGED <<job, nodeState, busy, loopAt, runCancelled, paused, ops>>
      /\ svc.at = "queued"
  BY DEF AcquireSlot
<1>2. free' \in Nat
  BY DEF AddressKept, ServicesTypeOK, AcquireSlot
<1>3. CASE ~runCancelled
  <2>1. svc' = [svc EXCEPT !.at = "starting", !.slot = TRUE]
    BY <1>3 DEF AcquireSlot
  <2>2. ServicesTypeOK'
    BY <1>1, <1>2, <2>1 DEF AddressKept, ServicesTypeOK
  <2>3. Claimed' /\ TableKept'
    BY <1>1, <2>1 DEF AddressKept, ServicesTypeOK, Claimed, TableKept
  <2>4. StopKept' /\ RestartKept'
    BY <1>1, <2>1 DEF AddressKept, ServicesTypeOK, StopKept, RestartKept, Down
  <2>5. JobsKept'
    BY <1>1, <2>1 DEF AddressKept, ServicesTypeOK, JobsKept, JobKept, Answers, Declined, StopKept, TableKept
  <2> QED BY <2>2, <2>3, <2>4, <2>5 DEF AddressKept
<1>4. CASE runCancelled
  <2>1. svc' = [svc EXCEPT !.entry = 0, !.heard = svc.execs, !.at = "withdrawn", !.end = "cancelled"]
    BY <1>4, TableOps DEF AcquireSlot
  <2>2. svc.execs \in Nat /\ svc.execs <= svc.execs /\ 0 \in Nat /\ "cancelled" \in NodeOutcomes
    BY DEF AddressKept, ServicesTypeOK, NodeOutcomes
  <2>3. ServicesTypeOK'
    BY <1>1, <1>2, <2>1, <2>2 DEF AddressKept, ServicesTypeOK
  <2>4. Claimed'
    BY <1>1, <2>1 DEF AddressKept, ServicesTypeOK, Claimed
  <2>5. TableKept'
    BY <1>1, <2>1, <2>2 DEF AddressKept, ServicesTypeOK, TableKept
  <2>6. StopKept' /\ RestartKept' /\ JobsKept'
    BY <1>1, <1>4, <2>1 DEF AddressKept, ServicesTypeOK, StopKept, RestartKept, JobsKept, Unsettled
  <2> QED BY <2>3, <2>4, <2>5, <2>6 DEF AddressKept
<1> QED BY <1>3, <1>4

(* serviceFailure: nothing was published.                                  *)
LEMMA FailsEarly ==
    ASSUME AddressKept, serviceFailure
    PROVE  AddressKept'
<1>1. /\ UNCHANGED <<job, nodeState, busy, loopAt, runCancelled, paused, ops>>
      /\ free' \in Nat
      /\ svc.at \in {"starting", "probing"}
      /\ \E e \in {"failed", "cancelled"} : svc' = [svc EXCEPT !.at = "stopped", !.up = FALSE, !.end = e]
  BY DEF AddressKept, ServicesTypeOK, serviceFailure, Fails
<1>0. /\ svc'.at = "stopped" /\ svc'.execs = svc.execs /\ svc'.crashed = svc.crashed
      /\ svc'.stop = svc.stop /\ svc.stop = FALSE
  BY <1>1 DEF AddressKept, ServicesTypeOK, StopKept
<1>2. ServicesTypeOK'
  BY <1>1 DEF AddressKept, ServicesTypeOK, NodeOutcomes, Unsettled
<1>3. Claimed'
  BY <1>1 DEF AddressKept, ServicesTypeOK, Claimed
<1>4. TableKept'
  BY <1>1 DEF AddressKept, ServicesTypeOK, TableKept
<1>5. StopKept'
  BY <1>1 DEF AddressKept, ServicesTypeOK, StopKept, TableKept, Claimed, Unsettled
<1>6. RestartKept'
  BY <1>1 DEF AddressKept, ServicesTypeOK, RestartKept, Down, StopKept
<1>7. JobsKept'
  <2> SUFFICES ASSUME ~runCancelled, NEW c \in Consumers PROVE JobKept(c)'
    BY <1>1 DEF JobsKept
  <2>1. JobKept(c)
    BY DEF AddressKept, JobsKept
  <2>2. Answers(c) => Answers(c)'
    BY <1>0, <1>1 DEF Answers
  <2> QED BY <1>0, <1>1, <2>1, <2>2 DEF JobKept, Declined
<1> QED BY <1>2, <1>3, <1>4, <1>5, <1>6, <1>7 DEF AddressKept

(* The process exits by itself, and is remembered as crashed.              *)
LEMMA Crashes ==
    ASSUME AddressKept, ServiceCrash
    PROVE  AddressKept'
<1>1. /\ UNCHANGED <<job, nodeState, busy, loopAt, runCancelled, paused, ops>>
      /\ free' \in Nat
      /\ svc.up /\ svc.at \in {"probing", "published", "ready"}
      /\ svc' = [svc EXCEPT !.up = FALSE, !.crashed = @ \cup {svc.execs}]
  BY DEF AddressKept, ServicesTypeOK, ServiceCrash
<1>2. ServicesTypeOK'
  BY <1>1 DEF AddressKept, ServicesTypeOK, NodeOutcomes, Unsettled
<1>3. Claimed'
  BY <1>1 DEF AddressKept, ServicesTypeOK, Claimed
<1>4. TableKept'
  BY <1>1 DEF AddressKept, ServicesTypeOK, TableKept
<1>5. StopKept'
  BY <1>1 DEF AddressKept, ServicesTypeOK, StopKept, TableKept, Claimed, Unsettled
<1>6. RestartKept'
  BY <1>1 DEF AddressKept, ServicesTypeOK, RestartKept, Down, StopKept
<1>7. JobsKept'
  BY <1>1 DEF AddressKept, ServicesTypeOK, JobsKept, JobKept, Answers, Declined, Claimed, StopKept, TableKept
<1> QED BY <1>2, <1>3, <1>4, <1>5, <1>6, <1>7 DEF AddressKept

(* The probe passed: the address of the current execution.                 *)
LEMMA Publishes ==
    ASSUME AddressKept, Publish
    PROVE  AddressKept'
<1>1. /\ UNCHANGED <<job, nodeState, busy, loopAt, runCancelled, paused, ops>>
      /\ free' \in Nat
      /\ svc.up /\ svc.at = "probing"
      /\ svc' = [svc EXCEPT !.entry = svc.execs, !.heard = svc.execs, !.at = "published"]
  BY TableOps DEF AddressKept, ServicesTypeOK, Publish
<1>2. ServicesTypeOK'
  BY <1>1 DEF AddressKept, ServicesTypeOK, NodeOutcomes, Unsettled
<1>3. Claimed'
  BY <1>1 DEF AddressKept, ServicesTypeOK, Claimed
<1>4. TableKept'
  BY <1>1 DEF AddressKept, ServicesTypeOK, TableKept
<1>5. StopKept'
  BY <1>1 DEF AddressKept, ServicesTypeOK, StopKept, TableKept, Claimed, Unsettled
<1>6. RestartKept'
  BY <1>1 DEF AddressKept, ServicesTypeOK, RestartKept, Down, StopKept
<1>7. JobsKept'
  BY <1>1 DEF AddressKept, ServicesTypeOK, JobsKept, JobKept, Answers, Declined, Claimed, StopKept, TableKept
<1> QED BY <1>2, <1>3, <1>4, <1>5, <1>6, <1>7 DEF AddressKept

(* markReady.                                                              *)
LEMMA BecomesReady ==
    ASSUME AddressKept, markReady
    PROVE  AddressKept'
<1>1. /\ UNCHANGED <<job, nodeState, busy, loopAt, runCancelled, paused, ops>>
      /\ free' \in Nat
      /\ svc.at = "published"
      /\ svc' = [svc EXCEPT !.at = "ready", !.ready = TRUE, !.slot = FALSE]
  BY DEF AddressKept, ServicesTypeOK, markReady
<1>2. ServicesTypeOK'
  BY <1>1 DEF AddressKept, ServicesTypeOK, NodeOutcomes, Unsettled
<1>3. Claimed'
  BY <1>1 DEF AddressKept, ServicesTypeOK, Claimed
<1>4. TableKept'
  BY <1>1 DEF AddressKept, ServicesTypeOK, TableKept
<1>5. StopKept'
  BY <1>1 DEF AddressKept, ServicesTypeOK, StopKept, TableKept, Claimed, Unsettled
<1>6. RestartKept'
  BY <1>1 DEF AddressKept, ServicesTypeOK, RestartKept, Down, StopKept
<1>7. JobsKept'
  BY <1>1 DEF AddressKept, ServicesTypeOK, JobsKept, JobKept, Answers, Declined, Claimed, StopKept, TableKept
<1> QED BY <1>2, <1>3, <1>4, <1>5, <1>6, <1>7 DEF AddressKept

(* exitedEarly: only a process that crashed is found gone.                 *)
LEMMA ExitsEarly ==
    ASSUME AddressKept, ExitedEarly
    PROVE  AddressKept'
<1>1. /\ UNCHANGED <<job, nodeState, busy, loopAt, runCancelled, paused, ops>>
      /\ free' \in Nat
      /\ svc.at \in {"probing", "ready"} /\ ~svc.up
      /\ svc' = [svc EXCEPT !.at = "stopped", !.up = FALSE, !.end = "failed"]
  BY DEF AddressKept, ServicesTypeOK, ExitedEarly, Fails
<1>2. ServicesTypeOK'
  BY <1>1 DEF AddressKept, ServicesTypeOK, NodeOutcomes, Unsettled
<1>3. Claimed'
  BY <1>1 DEF AddressKept, ServicesTypeOK, Claimed
<1>4. TableKept'
  BY <1>1 DEF AddressKept, ServicesTypeOK, TableKept
<1>5. StopKept'
  BY <1>1 DEF AddressKept, ServicesTypeOK, StopKept, TableKept, Claimed, Unsettled
<1>6. RestartKept'
  BY <1>1 DEF AddressKept, ServicesTypeOK, RestartKept, Down, StopKept
<1>7. JobsKept'
  BY <1>1 DEF AddressKept, ServicesTypeOK, JobsKept, JobKept, Answers, Declined, Claimed, StopKept, TableKept
<1> QED BY <1>2, <1>3, <1>4, <1>5, <1>6, <1>7 DEF AddressKept

(* stopNow: no consumer is left with the address.                          *)
LEMMA Stops ==
    ASSUME AddressKept, stopNow
    PROVE  AddressKept'
<1>1. /\ UNCHANGED <<job, nodeState, busy, loopAt, runCancelled, paused, ops>>
      /\ free' \in Nat
      /\ svc.at = "ready" /\ (svc.stop \/ runCancelled)
      /\ \E e \in {"succeeded", "failed"} : svc' = [svc EXCEPT !.at = "stopped", !.up = FALSE, !.end = e]
  BY DEF AddressKept, ServicesTypeOK, stopNow
<1>2. ServicesTypeOK'
  BY <1>1 DEF AddressKept, ServicesTypeOK, NodeOutcomes, Unsettled
<1>3. Claimed'
  BY <1>1 DEF AddressKept, ServicesTypeOK, Claimed
<1>4. TableKept'
  BY <1>1 DEF AddressKept, ServicesTypeOK, TableKept
<1>5. StopKept'
  BY <1>1 DEF AddressKept, ServicesTypeOK, StopKept, TableKept, Claimed, Unsettled
<1>6. RestartKept'
  BY <1>1 DEF AddressKept, ServicesTypeOK, RestartKept, Down, StopKept
<1>7. JobsKept'
  BY <1>1 DEF AddressKept, ServicesTypeOK, JobsKept, JobKept, Answers, Declined, Claimed, StopKept, TableKept
<1> QED BY <1>2, <1>3, <1>4, <1>5, <1>6, <1>7 DEF AddressKept

(* The address goes before the outcome is said.                            *)
LEMMA Withdraws ==
    ASSUME AddressKept, Withdraw
    PROVE  AddressKept'
<1>1. /\ UNCHANGED <<job, nodeState, busy, loopAt, runCancelled, paused, ops>>
      /\ free' \in Nat
      /\ svc.at = "stopped"
      /\ svc' = [svc EXCEPT !.entry = 0, !.heard = svc.execs, !.at = "withdrawn", !.slot = FALSE]
  <2>1. free' \in Nat
    BY DEF AddressKept, ServicesTypeOK, Withdraw
  <2>2. svc' = [svc EXCEPT !.entry = 0, !.heard = svc.execs, !.at = "withdrawn", !.slot = FALSE]
    BY TableOps DEF Withdraw
  <2> QED BY <2>1, <2>2 DEF Withdraw
<1>2. ServicesTypeOK'
  BY <1>1 DEF AddressKept, ServicesTypeOK, NodeOutcomes, Unsettled
<1>3. Claimed'
  BY <1>1 DEF AddressKept, ServicesTypeOK, Claimed
<1>4. TableKept'
  BY <1>1 DEF AddressKept, ServicesTypeOK, TableKept
<1>5. StopKept'
  BY <1>1 DEF AddressKept, ServicesTypeOK, StopKept, TableKept, Claimed, Unsettled
<1>6. RestartKept'
  BY <1>1 DEF AddressKept, ServicesTypeOK, RestartKept, Down, StopKept
<1>7. JobsKept'
  BY <1>1 DEF AddressKept, ServicesTypeOK, JobsKept, JobKept, Answers, Declined, Claimed, StopKept, TableKept
<1> QED BY <1>2, <1>3, <1>4, <1>5, <1>6, <1>7 DEF AddressKept

(* The outcome is recorded; what waits for a stopped service was queued.   *)
LEMMA Reports ==
    ASSUME AddressKept, ReportService
    PROVE  AddressKept'
<1>1. /\ UNCHANGED <<job, loopAt, free, runCancelled, paused, ops>>
      /\ svc.at = "withdrawn" /\ svc' = [svc EXCEPT !.at = "none"]
      /\ nodeState' = [nodeState EXCEPT ![Svc] = svc.end]
      /\ busy' = busy \ {Svc}
  BY DEF ReportService
<1>2. /\ svc.entry = 0 /\ svc.end \in NodeOutcomes /\ svc.end # Unsettled /\ Svc \in busy
      /\ Svc \in ServiceNodes /\ Svc \notin Consumers /\ Consumers \subseteq ServiceNodes
  BY <1>1, ServicesAssumption DEF AddressKept, ServicesTypeOK, TableKept, StopKept, Claimed, ServiceNodes
<1>3. /\ svc'.at = "none" /\ nodeState'[Svc] = svc.end /\ svc'.execs = svc.execs
      /\ svc'.crashed = svc.crashed /\ svc'.pending = svc.pending
      /\ \A c \in Consumers : nodeState'[c] = nodeState[c] /\ (c \in busy' <=> c \in busy)
  BY <1>1, <1>2 DEF AddressKept, ServicesTypeOK
<1>4. ServicesTypeOK'
  BY <1>1, <1>2 DEF AddressKept, ServicesTypeOK
<1>5. Claimed'
  BY <1>1, <1>2, <1>3 DEF AddressKept, Claimed
<1>6. TableKept'
  BY <1>1, <1>2 DEF AddressKept, ServicesTypeOK, TableKept
<1>7. StopKept'
  BY <1>1, <1>2, <1>3 DEF AddressKept, ServicesTypeOK, StopKept
<1>8. RestartKept'
  BY <1>1, <1>3 DEF AddressKept, RestartKept, StopKept, Down
<1>9. JobsKept'
  BY <1>1, <1>2, <1>3 DEF AddressKept, JobsKept, JobKept, Answers, Declined
<1> QED BY <1>4, <1>5, <1>6, <1>7, <1>8, <1>9 DEF AddressKept

-----------------------------------------------------------------------------
(* What a consumer's own step must show: the rest of the invariant is      *)
(* about the service and the other consumers, which it leaves alone.       *)
LEMMA ByConsumer ==
    ASSUME AddressKept, NEW c \in Consumers,
           UNCHANGED <<svc, runCancelled>>,
           NEW j \in JobRecords,
           job' = [job EXCEPT ![c] = j],
           \/ j.at # "none" /\ c \in busy /\ UNCHANGED <<nodeState, busy>>
           \/ /\ j = Quiet /\ busy' = busy \ {c}
              /\ \E e \in NodeOutcomes \ {Unsettled} : nodeState' = [nodeState EXCEPT ![c] = e],
           ServicesTypeOK', ~runCancelled /\ j # Quiet => JobKept(c)'
    PROVE  AddressKept'
<1>1. /\ Svc \notin Consumers /\ Svc # c /\ Svc \in ServiceNodes /\ c \in ServiceNodes
      /\ Consumers \subseteq ServiceNodes
  BY ServicesAssumption DEF ServiceNodes
<1>2. job'[c] = j /\ \A d \in Consumers \ {c} : job'[d] = job[d]
  BY DEF AddressKept, ServicesTypeOK
<1>3. /\ nodeState'[Svc] = nodeState[Svc] /\ (Svc \in busy' <=> Svc \in busy)
      /\ \A d \in Consumers \ {c} : nodeState'[d] = nodeState[d] /\ (d \in busy' <=> d \in busy)
  BY <1>1 DEF AddressKept, ServicesTypeOK
<1>4. \/ j.at # "none" /\ c \in busy /\ c \in busy' /\ nodeState'[c] = nodeState[c]
      \/ j = Quiet /\ c \notin busy' /\ nodeState'[c] # Unsettled
  BY <1>1 DEF AddressKept, ServicesTypeOK
<1>5. Claimed'
  BY <1>2, <1>3, <1>4 DEF AddressKept, Claimed, Quiet
<1>6. TableKept'
  BY DEF AddressKept, TableKept
<1>7. StopKept' /\ Down' = Down
  BY <1>3 DEF AddressKept, StopKept, Down
<1>8. RestartKept'
  <2> SUFFICES ASSUME ~runCancelled, NEW d \in Consumers, nodeState'[d] = Unsettled, d \notin busy', Down
               PROVE  svc.pending
    BY <1>7 DEF RestartKept
  <2>1. d # c
    BY <1>4
  <2> QED BY <1>3, <2>1 DEF AddressKept, RestartKept
<1>9. JobsKept'
  <2> SUFFICES ASSUME ~runCancelled, NEW d \in Consumers PROVE JobKept(d)'
    BY DEF JobsKept
  <2>1. Declined' = Declined
    BY <1>3 DEF Declined
  <2>2. CASE d # c
    BY <1>2, <1>3, <2>1, <2>2 DEF AddressKept, JobsKept, JobKept, Answers
  <2>3. CASE d = c /\ j = Quiet
    BY <1>2, <1>4, <2>3 DEF JobKept, Quiet
  <2> QED BY <2>2, <2>3
<1> QED BY <1>5, <1>6, <1>7, <1>8, <1>9 DEF AddressKept

(* The types of a consumer's step.                                         *)
LEMMA ConsumerTypes ==
    ASSUME ServicesTypeOK, NEW c \in Consumers,
           UNCHANGED <<svc, runCancelled, paused, loopAt, ops>>, free' \in Nat,
           NEW j \in JobRecords,
           job' = [job EXCEPT ![c] = j], busy' \subseteq busy,
           nodeState' = nodeState \/ \E e \in NodeOutcomes \ {Unsettled} : nodeState' = [nodeState EXCEPT ![c] = e]
    PROVE  ServicesTypeOK'
<1>1. nodeState' \in [ServiceNodes -> NodeOutcomes]
  BY DEF ServicesTypeOK
<1>2. job \in [Consumers -> JobRecords] /\ j \in JobRecords
  BY DEF ServicesTypeOK
<1> HIDE DEF JobRecords
<1>3. job' \in [Consumers -> JobRecords]
  BY <1>2
<1> QED BY <1>1, <1>3 DEF ServicesTypeOK

(* A retried consumer that waited: its service answers, or it is skipped.  *)
LEMMA Awaits ==
    ASSUME AddressKept, NEW c \in Consumers, Await(c)
    PROVE  AddressKept'
<1>1. /\ job[c].at = "await" /\ UNCHANGED <<svc, runCancelled, paused, loopAt, ops, free>>
      /\ svc.heard >= job[c].waits \/ runCancelled
  BY DEF Await
<1>2. job[c] \in JobRecords
  BY DEF AddressKept, ServicesTypeOK
<1>3. c \in busy /\ free \in Nat
  BY <1>1 DEF AddressKept, Claimed, ServicesTypeOK
<1> DEFINE gaveUp == job[c].waits > 0 /\ ~runCancelled /\ ~readyAt(svc, job[c].waits)
<1>4. CASE gaveUp
  <2>1. /\ job' = [job EXCEPT ![c] = Quiet] /\ busy' = busy \ {c}
        /\ nodeState' = [nodeState EXCEPT ![c] = "skipped"]
    BY <1>4 DEF Await
  <2>2. "skipped" \in NodeOutcomes \ {Unsettled}
    BY DEF NodeOutcomes, Unsettled
  <2>3. Quiet \in JobRecords
    BY DEF Quiet
  <2>4. ServicesTypeOK'
    BY <1>1, <1>3, <2>1, <2>2, <2>3, ConsumerTypes DEF AddressKept
  <2> QED BY <1>1, <2>1, <2>2, <2>3, <2>4, ByConsumer
<1>5. CASE ~gaveUp
  <2>1. PICK j : j = [job[c] EXCEPT !.at = "queued"]
    OBVIOUS
  <2>2. /\ job' = [job EXCEPT ![c] = j] /\ UNCHANGED <<nodeState, busy>>
    BY <1>5, <2>1 DEF Await
  <2>3. /\ j \in JobRecords
        /\ j.at = "queued" /\ j.waits = job[c].waits /\ j.from = job[c].from
        /\ j.addr = job[c].addr /\ j.alone = job[c].alone
    BY <1>2, <2>1
  <2>4. ServicesTypeOK'
    BY <1>1, <1>3, <2>2, <2>3, ConsumerTypes DEF AddressKept
  <2>5. ASSUME ~runCancelled PROVE JobKept(c)'
    <3>1. job'[c] = j
      BY <2>2 DEF AddressKept, ServicesTypeOK
    <3>2. JobKept(c)
      BY <2>5 DEF AddressKept, JobsKept
    <3>3. svc.heard <= svc.execs /\ svc.heard \in Nat /\ svc.execs \in Nat /\ job[c].waits \in Nat /\ svc.entry \in Nat
      BY <1>2 DEF AddressKept, TableKept, ServicesTypeOK
    <3>4. job[c].waits <= svc.execs
      BY <1>1, <2>5, <3>3
    <3>5. ~(svc.at # "none" /\ svc.stop)
      BY <1>1, <1>3, <3>2, <3>3, <3>4 DEF JobKept
    <3>6. job[c].alone \/ Answers(c)
      <4>1. CASE job[c].waits = 0
        BY <1>1, <3>2, <4>1 DEF JobKept
      <4>2. CASE job[c].waits # 0
        <5>1. readyAt(svc, job[c].waits) /\ job[c].from = job[c].waits
          BY <1>1, <1>5, <2>5, <3>2, <3>3, <4>2 DEF JobKept
        <5>2. svc.entry # 0 /\ svc.entry >= job[c].from
          BY <5>1 DEF readyAt
        <5>3. svc.entry = svc.execs /\ svc.at \in {"published", "ready", "stopped"}
          BY <5>2 DEF AddressKept, TableKept
        <5>4. svc.up \/ svc.execs \in svc.crashed
          BY <2>5, <3>5, <5>2, <5>3 DEF AddressKept, TableKept, StopKept
        <5>5. svc.at = "stopped" => svc.execs \in svc.crashed
          BY <2>5, <3>5, <5>2, <5>3 DEF AddressKept, StopKept
        <5> QED BY <5>2, <5>3, <5>4, <5>5 DEF Answers
      <4> QED BY <4>1, <4>2
    <3>7. Answers(c) => Answers(c)'
      BY <1>1, <2>3, <3>1 DEF Answers
    <3>8. Declined' = Declined
      BY <1>1, <2>2 DEF Declined
    <3> QED BY <1>1, <1>3, <2>2, <2>3, <3>1, <3>2, <3>5, <3>6, <3>7, <3>8 DEF JobKept
  <2> QED BY <1>1, <1>3, <2>2, <2>3, <2>4, <2>5, ByConsumer
<1> QED BY <1>4, <1>5

(* serviceEnv: the address at that moment is the current execution's.      *)
LEMMA Executes ==
    ASSUME AddressKept, NEW c \in Consumers, ExecuteConsumer(c)
    PROVE  AddressKept'
<1>1. /\ job[c].at = "queued" /\ ~runCancelled /\ free > 0 /\ free' = free - 1
      /\ UNCHANGED <<svc, nodeState, busy, runCancelled, paused, loopAt, ops>>
  BY DEF ExecuteConsumer
<1>2. /\ job[c] \in JobRecords
      /\ svc.entry \in Nat /\ svc.execs \in Nat
  BY DEF AddressKept, ServicesTypeOK
<1>3. c \in busy /\ free' \in Nat
  BY <1>1 DEF AddressKept, Claimed, ServicesTypeOK
<1>4. PICK j : j = [job[c] EXCEPT !.at = "executing", !.addr = svc.entry]
  OBVIOUS
<1>5. job' = [job EXCEPT ![c] = j]
  BY <1>4 DEF ExecuteConsumer
<1>6. /\ j \in JobRecords
      /\ j.at = "executing" /\ j.waits = job[c].waits /\ j.from = job[c].from
      /\ j.addr = svc.entry /\ j.alone = job[c].alone
  BY <1>2, <1>4
<1>7. ServicesTypeOK'
  BY <1>1, <1>3, <1>5, <1>6, ConsumerTypes DEF AddressKept
<1>8. JobKept(c)'
  <2>1. job'[c] = j
    BY <1>5 DEF AddressKept, ServicesTypeOK
  <2>2. JobKept(c)
    BY <1>1 DEF AddressKept, JobsKept
  <2>3. Declined' = Declined
    BY <1>1 DEF Declined
  <2>4. ~(svc.at # "none" /\ svc.stop) /\ (job[c].alone \/ Answers(c))
    BY <1>1, <1>3, <2>2 DEF JobKept
  <2>5. CASE job[c].alone
    <3>1. Declined /\ svc.at = "none" /\ job[c].waits = 0
      BY <1>3, <2>2, <2>5 DEF JobKept, Declined, AddressKept, Claimed
    <3>2. svc.entry = 0
      BY <3>1 DEF AddressKept, TableKept
    <3> QED BY <1>1, <1>6, <2>1, <2>3, <2>5, <3>1, <3>2 DEF JobKept
  <2>6. CASE ~job[c].alone /\ svc.entry = 0
    <3>1. \E gen \in svc.crashed : gen >= job[c].from
      BY <1>2, <2>4, <2>6 DEF Answers, AddressKept, TableKept
    <3> QED BY <1>1, <1>6, <2>1, <2>4, <2>6, <3>1 DEF JobKept
  <2>7. CASE ~job[c].alone /\ svc.entry # 0
    <3>1. svc.entry = svc.execs /\ svc.at \in {"published", "ready", "stopped"}
      BY <2>7 DEF AddressKept, TableKept
    <3>2. svc.at = "stopped" => svc.execs \in svc.crashed
      BY <1>1, <2>4, <2>7 DEF AddressKept, StopKept
    <3>3. svc.at \in {"published", "ready"} => svc.up \/ svc.execs \in svc.crashed
      BY DEF AddressKept, TableKept
    <3> QED BY <1>1, <1>6, <2>1, <2>4, <2>7, <3>1, <3>2, <3>3 DEF JobKept
  <2> QED BY <2>5, <2>6, <2>7
<1> QED BY <1>1, <1>3, <1>5, <1>6, <1>7, <1>8, ByConsumer

(* A consumer's goroutine ends.                                            *)
LEMMA ConsumerFinishes ==
    ASSUME AddressKept, NEW c \in Consumers, CancelConsumer(c) \/ FinishConsumer(c)
    PROVE  AddressKept'
<1>1. /\ UNCHANGED <<svc, runCancelled, paused, loopAt, ops>>
      /\ job' = [job EXCEPT ![c] = Quiet] /\ busy' = busy \ {c}
  BY DEF CancelConsumer, FinishConsumer
<1>2. free' \in Nat
  BY DEF CancelConsumer, FinishConsumer, AddressKept, ServicesTypeOK
<1>3. \E e \in NodeOutcomes \ {Unsettled} : nodeState' = [nodeState EXCEPT ![c] = e]
  <2>1. {"cancelled", "succeeded", "failed"} \subseteq NodeOutcomes \ {Unsettled}
    BY DEF NodeOutcomes, Unsettled
  <2> QED BY <2>1 DEF CancelConsumer, FinishConsumer
<1>4. Quiet \in JobRecords
  BY DEF Quiet
<1>5. ServicesTypeOK'
  BY <1>1, <1>2, <1>3, <1>4, ConsumerTypes DEF AddressKept
<1> QED BY <1>1, <1>3, <1>4, <1>5, ByConsumer

-----------------------------------------------------------------------------
(* stopIdleServices: the service is told to stop when nobody is left.      *)
LEMMA StopsIdle ==
    ASSUME AddressKept, stopIdleServices
    PROVE  AddressKept'
<1>1. /\ UNCHANGED <<job, nodeState, busy, free, runCancelled, paused, ops>>
      /\ loopAt' = "serve"
  BY DEF stopIdleServices
<1>2. CASE svc' = svc
  <2>1. ServicesTypeOK'
    BY <1>1, <1>2 DEF AddressKept, ServicesTypeOK
  <2>2. Claimed' /\ TableKept'
    BY <1>1, <1>2 DEF AddressKept, Claimed, TableKept
  <2>3. StopKept' /\ RestartKept'
    BY <1>1, <1>2 DEF AddressKept, StopKept, RestartKept, Down
  <2>4. JobsKept'
    BY <1>1, <1>2 DEF AddressKept, JobsKept, JobKept, Answers, Declined
  <2> QED BY <2>1, <2>2, <2>3, <2>4 DEF AddressKept
<1>3. CASE svc' # svc
  <2>1. /\ svc.stops /\ svc.ready /\ Idle
        /\ svc' = [svc EXCEPT !.ready = FALSE, !.stop = TRUE, !.stops = FALSE]
    BY <1>3 DEF stopIdleServices
  <2>2. \A c \in Consumers : nodeState[c] # Unsettled /\ c \notin busy /\ job[c].at = "none"
    BY <2>1 DEF Idle, AddressKept, Claimed
  <2>3. ServicesTypeOK'
    BY <1>1, <2>1 DEF AddressKept, ServicesTypeOK
  <2>4. Claimed' /\ TableKept'
    BY <1>1, <2>1 DEF AddressKept, ServicesTypeOK, Claimed, TableKept
  <2>5. StopKept'
    BY <1>1, <2>1 DEF AddressKept, ServicesTypeOK, StopKept
  <2>6. RestartKept' /\ JobsKept'
    BY <1>1, <2>2 DEF RestartKept, JobsKept, JobKept
  <2> QED BY <2>3, <2>4, <2>5, <2>6 DEF AddressKept
<1> QED BY <1>2, <1>3

(* handleStepSkip.                                                         *)
LEMMA Skips ==
    ASSUME AddressKept, NEW n \in ServiceNodes, SkipNode(n)
    PROVE  AddressKept'
<1>1. /\ UNCHANGED <<svc, job, busy, free, runCancelled, paused>>
      /\ n \notin busy /\ nodeState[n] = Unsettled
      /\ nodeState' = [nodeState EXCEPT ![n] = "skipped_manual"]
      /\ loopAt' = "pass" /\ ops' = ops - 1 /\ ops > 0
  BY DEF SkipNode, Serving, Served
<1>2. "skipped_manual" \in NodeOutcomes /\ "skipped_manual" # Unsettled /\ ops' \in Nat
  BY <1>1 DEF NodeOutcomes, Unsettled, AddressKept, ServicesTypeOK
<1>3. ServicesTypeOK'
  BY <1>1, <1>2 DEF AddressKept, ServicesTypeOK
<1>4. /\ Svc \in ServiceNodes /\ Consumers \subseteq ServiceNodes
      /\ nodeState'[n] = "skipped_manual" /\ \A m \in ServiceNodes \ {n} : nodeState'[m] = nodeState[m]
  BY <1>1 DEF AddressKept, ServicesTypeOK, ServiceNodes
<1>5. Claimed'
  BY <1>1, <1>4 DEF AddressKept, Claimed
<1>6. TableKept'
  BY <1>1 DEF AddressKept, TableKept
<1>7. StopKept'
  BY <1>1, <1>2, <1>4 DEF AddressKept, StopKept
<1>8. Down' => Down
  BY <1>1, <1>4 DEF Down
<1>9. RestartKept'
  BY <1>1, <1>2, <1>4, <1>8 DEF AddressKept, RestartKept
<1>10. Declined => Declined'
  BY <1>1, <1>4 DEF Declined
<1>11. JobsKept'
  BY <1>1, <1>10 DEF AddressKept, JobsKept, JobKept, Answers
<1> QED BY <1>3, <1>5, <1>6, <1>7, <1>9, <1>11 DEF AddressKept

(* handleStepRetry of the service: a new generation.                       *)
LEMMA RetriesService ==
    ASSUME AddressKept, RetryService
    PROVE  AddressKept'
<1>1. /\ UNCHANGED <<job, free, runCancelled, paused>>
      /\ Svc \notin busy /\ nodeState[Svc] = "failed"
      /\ nodeState' = [nodeState EXCEPT ![Svc] = Unsettled]
      /\ busy' = busy \cup {Svc}
      /\ loopAt' = "pass" /\ ops' = ops - 1 /\ ops > 0
  BY DEF RetryService, Serving, Served
<1>2. svc' = [svc EXCEPT !.ready = FALSE, !.execs = @ + 1, !.at = "queued", !.stops = TRUE,
                         !.stop = FALSE, !.end = Unsettled]
  BY DEF RetryService, Begun, Unready, AddressKept, ServicesTypeOK
<1>3. /\ Unsettled \in NodeOutcomes /\ ops' \in Nat /\ svc.execs + 1 \in Nat /\ Svc \in ServiceNodes
      /\ Svc \notin Consumers /\ Consumers \subseteq ServiceNodes
  BY <1>1, ServicesAssumption DEF NodeOutcomes, AddressKept, ServicesTypeOK, ServiceNodes
<1>4. svc.at = "none" /\ svc.entry = 0 /\ ~svc.up /\ ~svc.slot /\ svc.execs \in Nat /\ svc.heard \in Nat
      /\ svc.heard <= svc.execs
  BY <1>1 DEF AddressKept, Claimed, TableKept, ServicesTypeOK
<1>5. /\ svc'.at = "queued" /\ svc'.stop = FALSE /\ svc'.ready = FALSE /\ svc'.execs = svc.execs + 1
      /\ svc'.crashed = svc.crashed /\ svc'.entry = 0 /\ svc'.up = svc.up /\ svc'.slot = svc.slot
      /\ svc'.heard = svc.heard
  BY <1>2, <1>4 DEF AddressKept, ServicesTypeOK
<1>6. nodeState'[Svc] = Unsettled /\ \A c \in Consumers : nodeState'[c] = nodeState[c] /\ (c \in busy' <=> c \in busy)
  BY <1>1, <1>3 DEF AddressKept, ServicesTypeOK
<1>7. ServicesTypeOK'
  BY <1>1, <1>2, <1>3 DEF AddressKept, ServicesTypeOK
<1>8. Claimed'
  BY <1>1, <1>5, <1>6 DEF AddressKept, Claimed
<1>9. TableKept'
  BY <1>4, <1>5 DEF TableKept
<1>10. StopKept' /\ RestartKept'
  BY <1>5 DEF StopKept, RestartKept, Down
<1>11. JobsKept'
  <2> SUFFICES ASSUME ~runCancelled, NEW c \in Consumers PROVE JobKept(c)'
    BY <1>1 DEF JobsKept
  <2>1. JobKept(c)
    BY DEF AddressKept, JobsKept
  <2>2. ~(c \in busy /\ job[c].alone)
    BY <1>1, <2>1 DEF JobKept, Declined, serviceRan
  <2>3. Answers(c) => Answers(c)'
    BY <1>1, <1>4, <1>5 DEF Answers
  <2> QED BY <1>1, <1>4, <1>5, <1>6, <2>1, <2>2, <2>3 DEF JobKept
<1> QED BY <1>7, <1>8, <1>9, <1>10, <1>11 DEF AddressKept

(* reviveServicesLocked: what it leaves alone, that a service told to stop *)
(* is queued for a restart, and that the generation it names is one that   *)
(* will be announced.                                                      *)
LEMMA Revival ==
    ASSUME AddressKept
    PROVE  LET s == reviveServices.s
               gen == reviveServices.gen
           IN  /\ s \in SvcRecords
               /\ s.at = svc.at /\ s.up = svc.up /\ s.stops = svc.stops /\ s.stop = svc.stop
               /\ s.execs = svc.execs /\ s.entry = svc.entry /\ s.heard = svc.heard
               /\ s.slot = svc.slot /\ s.end = svc.end /\ s.crashed = svc.crashed
               /\ s.ready => svc.ready /\ ~Restarted
               /\ svc.pending => s.pending
               /\ Svc \in busy /\ ~svc.stops => s.pending /\ gen = svc.execs + 1
               /\ gen \in Nat
               /\ Declined => gen = 0
               /\ gen = 0 => Declined \/ (Svc \in busy /\ svc.stops /\ svc.ready)
<1>1. /\ svc \in SvcRecords
      /\ svc.execs \in Nat /\ svc.execs + 1 \in Nat /\ svc.execs + 1 # 0
  BY DEF AddressKept, ServicesTypeOK
<1>2. Svc \in busy => svc.execs > 0 /\ svc.execs # 0
  BY <1>1 DEF AddressKept, Claimed, TableKept
<1>3. CASE Svc \in busy /\ svc.stops /\ svc.ready
  <2>1. reviveServices = [s |-> svc, gen |-> 0]
    BY <1>3 DEF reviveServices
  <2>2. reviveServices.s = svc /\ reviveServices.gen = 0 /\ ~Restarted /\ ~Declined
    BY <1>3, <2>1 DEF Restarted, Declined
  <2>3. /\ 0 \in Nat /\ reviveServices.gen \in Nat
        /\ ~(Svc \in busy /\ ~svc.stops)
    BY <1>3, <2>2
  <2> QED BY <1>1, <1>3, <2>2, <2>3
<1>4. CASE Svc \in busy /\ svc.stops /\ ~svc.ready
  <2>1. reviveServices = [s |-> svc, gen |-> svc.execs]
    BY <1>4 DEF reviveServices
  <2>2. reviveServices.s = svc /\ reviveServices.gen = svc.execs /\ ~Restarted /\ ~Declined
    BY <1>4, <2>1 DEF Restarted, Declined
  <2> QED BY <1>1, <1>2, <1>4, <2>2
<1>5. CASE Svc \in busy /\ ~svc.stops
  <2>1. reviveServices = [s |-> [svc EXCEPT !.pending = TRUE], gen |-> svc.execs + 1]
    BY <1>5 DEF reviveServices
  <2>2. /\ reviveServices.s = [svc EXCEPT !.pending = TRUE] /\ reviveServices.gen = svc.execs + 1
        /\ ~Restarted /\ ~Declined
    BY <1>5, <2>1 DEF Restarted, Declined
  <2> QED BY <1>1, <1>5, <2>2
<1>6. CASE Svc \notin busy /\ serviceRan(nodeState[Svc])
  <2>0. nodeState[Svc] # Unsettled
    BY <1>6 DEF serviceRan, Unsettled
  <2>1. reviveServices = [s |-> Unready(svc), gen |-> svc.execs + 1]
    BY <1>6, <2>0 DEF reviveServices
  <2>2. /\ reviveServices.s = [svc EXCEPT !.ready = FALSE] /\ reviveServices.gen = svc.execs + 1
        /\ ~Declined
    BY <1>6, <2>1 DEF Unready, Declined
  <2> QED BY <1>1, <1>6, <2>2
<1>7. CASE Svc \notin busy /\ nodeState[Svc] = Unsettled
  <2>1. ~serviceRan(nodeState[Svc])
    BY <1>7 DEF serviceRan, Unsettled
  <2>2. reviveServices = [s |-> svc, gen |-> svc.execs + 1]
    BY <1>7, <2>1 DEF reviveServices
  <2>3. reviveServices.s = svc /\ reviveServices.gen = svc.execs + 1 /\ ~Restarted /\ ~Declined
    BY <1>7, <2>1, <2>2 DEF Restarted, Declined
  <2> QED BY <1>1, <1>7, <2>3
<1>8. CASE Declined
  <2>1. reviveServices = [s |-> svc, gen |-> 0]
    BY <1>8 DEF reviveServices, Declined
  <2>2. reviveServices.s = svc /\ reviveServices.gen = 0 /\ ~Restarted /\ Svc \notin busy
    BY <1>8, <2>1 DEF Restarted, Declined
  <2> QED BY <1>1, <1>8, <2>2
<1>9. svc.stops \in BOOLEAN /\ svc.ready \in BOOLEAN
  BY <1>1
<1> QED BY <1>3, <1>4, <1>5, <1>6, <1>7, <1>8, <1>9 DEF Declined

(* handleStepRetry of a consumer: it waits for an execution that is to     *)
(* come, goes on with one that is ready, or does without.                  *)
LEMMA RetriesConsumer ==
    ASSUME AddressKept, NEW c \in Consumers, RetryConsumer(c)
    PROVE  AddressKept'
<1>1. PICK g : g = reviveServices.gen
  OBVIOUS
<1>2. PICK s : s = reviveServices.s
  OBVIOUS
<1>3. /\ s \in SvcRecords
      /\ s.at = svc.at /\ s.up = svc.up /\ s.stops = svc.stops /\ s.stop = svc.stop
      /\ s.execs = svc.execs /\ s.entry = svc.entry /\ s.heard = svc.heard
      /\ s.slot = svc.slot /\ s.end = svc.end /\ s.crashed = svc.crashed
      /\ s.ready => svc.ready /\ ~Restarted
      /\ svc.pending => s.pending
      /\ Svc \in busy /\ ~svc.stops => s.pending /\ g = svc.execs + 1
      /\ g \in Nat
      /\ Declined => g = 0
      /\ g = 0 => Declined \/ (Svc \in busy /\ svc.stops /\ svc.ready)
  BY <1>1, <1>2, Revival
<1>4. PICK j : j = [Quiet EXCEPT !.at = "await", !.waits = g,
                                 !.from = IF g = 0 THEN svc.execs ELSE g, !.alone = Declined]
  OBVIOUS
<1>5. /\ ~runCancelled /\ c \notin busy /\ nodeState[c] = "failed"
      /\ svc' = s /\ job' = [job EXCEPT ![c] = j]
      /\ nodeState' = [n \in ServiceNodes |->
                          IF n = c \/ (n = Svc /\ Restarted) THEN Unsettled ELSE nodeState[n]]
      /\ busy' = busy \cup {c} /\ loopAt' = "pass" /\ ops' = ops - 1 /\ ops > 0
      /\ UNCHANGED <<free, runCancelled, paused>>
  BY <1>1, <1>2, <1>4 DEF RetryConsumer, Serving, Served
<1>6. svc.execs \in Nat /\ Unsettled \in NodeOutcomes /\ ops' \in Nat
  BY <1>5 DEF AddressKept, ServicesTypeOK, NodeOutcomes
<1>7. /\ j.at = "await" /\ j.waits = g /\ j.addr = 0 /\ j.alone = Declined
      /\ j.from = IF g = 0 THEN svc.execs ELSE g
  BY <1>4 DEF Quiet
<1>8. Declined \in BOOLEAN
  BY DEF Declined
<1>9. j \in JobRecords
  BY <1>3, <1>4, <1>6, <1>8 DEF Quiet
<1>10. /\ Svc \in ServiceNodes /\ Svc # c /\ c \in ServiceNodes /\ Consumers \subseteq ServiceNodes
       /\ Svc \notin Consumers
  BY ServicesAssumption DEF ServiceNodes
<1>11. /\ job'[c] = j /\ nodeState'[c] = Unsettled /\ c \in busy'
       /\ nodeState'[Svc] = (IF Restarted THEN Unsettled ELSE nodeState[Svc])
       /\ (Svc \in busy' <=> Svc \in busy)
       /\ \A d \in Consumers \ {c} : /\ job'[d] = job[d] /\ nodeState'[d] = nodeState[d]
                                     /\ (d \in busy' <=> d \in busy)
  BY <1>5, <1>10 DEF AddressKept, ServicesTypeOK
<1>12. ServicesTypeOK'
  <2>1. nodeState' \in [ServiceNodes -> NodeOutcomes]
    BY <1>5, <1>6 DEF AddressKept, ServicesTypeOK
  <2>2. job \in [Consumers -> JobRecords] /\ j \in JobRecords
    BY <1>9 DEF AddressKept, ServicesTypeOK
  <2> HIDE DEF JobRecords
  <2>3. job' \in [Consumers -> JobRecords]
    BY <1>5, <2>2
  <2>4. busy' \subseteq ServiceNodes /\ loopAt' \in {"pass", "stop", "serve", "done"}
    BY <1>5, <1>10 DEF AddressKept, ServicesTypeOK
  <2> QED BY <1>3, <1>5, <1>6, <2>1, <2>3, <2>4 DEF AddressKept, ServicesTypeOK
<1>13. Restarted => Svc \notin busy /\ svc.at = "none"
  BY DEF Restarted, AddressKept, Claimed
<1>14. Claimed'
  BY <1>3, <1>5, <1>7, <1>11, <1>13 DEF AddressKept, Claimed
<1>15. TableKept'
  BY <1>3, <1>5 DEF AddressKept, TableKept
<1>16. StopKept'
  BY <1>3, <1>5, <1>11, <1>13 DEF AddressKept, StopKept
<1>17. Down' => Down
  BY <1>3, <1>5, <1>11, <1>13 DEF Down, Unsettled
<1>18. RestartKept'
  BY <1>3, <1>5, <1>11, <1>17 DEF AddressKept, RestartKept
<1>19. Declined' <=> Declined
  BY <1>11, <1>13 DEF Declined, Restarted
<1>20. \A d \in Consumers \ {c} : JobKept(d)'
  BY <1>3, <1>5, <1>11, <1>19 DEF AddressKept, JobsKept, JobKept, Answers
<1>21. JobKept(c)'
  <2>1. svc.at # "none" /\ svc.stop => g > svc.execs
    BY <1>3, <1>6 DEF AddressKept, Claimed, StopKept
  <2>2. g # 0 => j.from = j.waits
    BY <1>7
  <2>3. ASSUME g = 0 PROVE j.alone \/ Answers(c)'
    <3>1. CASE Declined
      BY <1>7, <3>1
    <3>2. CASE ~Declined
      <4>1. Svc \in busy /\ svc.stops /\ svc.ready /\ svc.at \in {"ready", "stopped", "withdrawn"}
        BY <1>3, <2>3, <3>2 DEF AddressKept, Claimed, StopKept
      <4>2. svc.up \/ svc.execs \in svc.crashed
        BY <1>5, <4>1 DEF AddressKept, TableKept, StopKept
      <4>3. svc.at \in {"stopped", "withdrawn"} => svc.execs \in svc.crashed
        BY <1>5, <4>1 DEF AddressKept, StopKept
      <4>4. j.from = svc.execs /\ svc.execs >= svc.execs
        BY <1>6, <1>7, <2>3
      <4> QED BY <1>3, <1>5, <1>11, <4>1, <4>2, <4>3, <4>4 DEF Answers
    <3> QED BY <3>1, <3>2
  <2> QED BY <1>3, <1>5, <1>7, <1>11, <1>19, <2>1, <2>2, <2>3 DEF JobKept
<1>22. JobsKept'
  BY <1>20, <1>21 DEF JobsKept
<1> QED BY <1>12, <1>14, <1>15, <1>16, <1>18, <1>22 DEF AddressKept

(* handleRerunFrom: a consumer, with what it needs, or everything.         *)
LEMMA Reruns ==
    ASSUME AddressKept, NEW n \in ServiceNodes, RerunFrom(n)
    PROVE  AddressKept'
<1>1. /\ Svc \in ServiceNodes /\ Consumers \subseteq ServiceNodes /\ Svc \notin Consumers
      /\ n = Svc \/ n \in Consumers
  BY ServicesAssumption DEF ServiceNodes
<1>2. /\ UNCHANGED <<job, busy, free, runCancelled, paused>>
      /\ n \notin busy /\ loopAt' = "pass" /\ ops' = ops - 1 /\ ops > 0 /\ ops' \in Nat
  BY DEF RerunFrom, Serving, Served, ServiceNodes, AddressKept, ServicesTypeOK
<1>3. Restarted => Svc \notin busy /\ svc.at = "none"
  BY DEF Restarted, AddressKept, Claimed
<1>4. CASE n = Svc
  <2>1. busy = {}
    BY <1>4 DEF RerunFrom, AddressKept, ServicesTypeOK
  <2>2. svc' = [svc EXCEPT !.ready = FALSE] /\ nodeState' = [m \in ServiceNodes |-> Unsettled]
    BY <1>4 DEF RerunFrom, Unready
  <2>3. svc.at = "none" /\ \A c \in Consumers : job[c].at = "none"
    BY <1>1, <2>1 DEF AddressKept, Claimed
  <2>4. /\ svc'.at = "none" /\ svc'.ready = FALSE /\ svc'.up = svc.up /\ svc'.slot = svc.slot
        /\ svc'.execs = svc.execs /\ svc'.entry = svc.entry /\ svc'.heard = svc.heard
        /\ svc'.crashed = svc.crashed
    BY <2>2, <2>3 DEF AddressKept, ServicesTypeOK
  <2>5. ServicesTypeOK'
    BY <1>2, <2>2 DEF AddressKept, ServicesTypeOK, NodeOutcomes
  <2>6. Claimed'
    BY <1>1, <1>2, <2>1, <2>3, <2>4 DEF Claimed
  <2>7. TableKept'
    BY <2>3, <2>4 DEF AddressKept, TableKept
  <2>8. StopKept'
    BY <2>4 DEF StopKept
  <2>9. RestartKept'
    BY <1>1, <2>2, <2>4 DEF RestartKept, Down, Unsettled
  <2>10. JobsKept'
    BY <1>2, <2>1, <2>3 DEF JobsKept, JobKept
  <2> QED BY <2>5, <2>6, <2>7, <2>8, <2>9, <2>10 DEF AddressKept
<1>5. CASE n \in Consumers
  <2>1. PICK s : s = reviveServices.s
    OBVIOUS
  <2>2. /\ s \in SvcRecords
        /\ s.at = svc.at /\ s.up = svc.up /\ s.stops = svc.stops /\ s.stop = svc.stop
        /\ s.execs = svc.execs /\ s.entry = svc.entry /\ s.heard = svc.heard
        /\ s.slot = svc.slot /\ s.end = svc.end /\ s.crashed = svc.crashed
        /\ s.ready => svc.ready /\ ~Restarted
        /\ svc.pending => s.pending
        /\ Svc \in busy /\ ~svc.stops => s.pending
    BY <2>1, Revival
  <2>3. /\ n # Svc /\ svc' = s
        /\ nodeState' = [m \in ServiceNodes |->
                            IF m \in {n} \/ (m = Svc /\ Restarted) THEN Unsettled ELSE nodeState[m]]
    BY <1>1, <1>5, <2>1 DEF RerunFrom
  <2>4. /\ nodeState'[n] = Unsettled
        /\ nodeState'[Svc] = (IF Restarted THEN Unsettled ELSE nodeState[Svc])
        /\ \A d \in Consumers \ {n} : nodeState'[d] = nodeState[d]
    BY <1>1, <2>3
  <2>5. ServicesTypeOK'
    <3>1. nodeState' \in [ServiceNodes -> NodeOutcomes]
      BY <2>3 DEF AddressKept, ServicesTypeOK, NodeOutcomes
    <3> QED BY <1>2, <2>2, <2>3, <3>1 DEF AddressKept, ServicesTypeOK
  <2>6. Claimed'
    BY <1>2, <1>3, <2>2, <2>3, <2>4 DEF AddressKept, Claimed
  <2>7. TableKept'
    BY <2>2, <2>3 DEF AddressKept, TableKept
  <2>8. StopKept'
    BY <1>2, <1>3, <2>2, <2>3, <2>4 DEF AddressKept, StopKept
  <2>9. Down' => svc.at # "none" /\ svc.stop
    <3>1. nodeState'[Svc] = "succeeded" => nodeState[Svc] = "succeeded" /\ ~Restarted
      BY <2>4 DEF Unsettled
    <3>2. svc.at = "none" /\ nodeState[Svc] = "succeeded" => Restarted
      BY DEF Restarted, serviceRan, AddressKept, Claimed
    <3> QED BY <2>2, <2>3, <3>1, <3>2 DEF Down
  <2>10. RestartKept'
    <3>1. Down' => s.pending
      BY <2>2, <2>9 DEF AddressKept, Claimed, StopKept
    <3> QED BY <2>3, <3>1 DEF RestartKept
  <2>11. Declined' <=> Declined
    BY <1>2, <2>4, <1>3 DEF Declined, Restarted
  <2>12. JobsKept'
    BY <1>2, <2>2, <2>3, <2>11 DEF AddressKept, JobsKept, JobKept, Answers
  <2> QED BY <2>5, <2>6, <2>7, <2>8, <2>10, <2>12 DEF AddressKept
<1> QED BY <1>1, <1>4, <1>5

(* One pass: who it chooses has the service, and who it passes over has    *)
(* its restart queued.                                                     *)
LEMMA Passes ==
    ASSUME AddressKept, Pass
    PROVE  AddressKept'
<1> DEFINE S == revivePending
           before == IF Revives THEN [nodeState EXCEPT ![Svc] = Unsettled]
                                ELSE nodeState
           open == {n \in ServiceNodes : before[n] = Unsettled /\ n \notin busy}
           blocked == {c \in open \ {Svc} : ~Revives /\ Blocks}
           able == {n \in open \ blocked :
                        n = Svc \/ before[Svc] # Unsettled \/ S.ready}
           chosen == IF paused \/ runCancelled THEN {} ELSE able
           after == [n \in ServiceNodes |->
                        CASE n \in open /\ runCancelled -> "cancelled"
                          [] n \in blocked /\ ~runCancelled -> Inherited
                          [] OTHER -> before[n]]
<1>1. /\ svc' = IF Svc \in chosen THEN Begun(S) ELSE S
      /\ job' = [c \in Consumers |->
                    IF c \in chosen
                    THEN [Quiet EXCEPT !.at = "queued", !.from = S.execs]
                    ELSE job[c]]
      /\ busy' = busy \cup chosen
      /\ nodeState' = after
      /\ loopAt' \in {"done", "stop"}
      /\ UNCHANGED <<free, runCancelled, paused, ops>>
  BY DEF Pass
<1>2. /\ Svc \in ServiceNodes /\ Svc \notin Consumers /\ Consumers \subseteq ServiceNodes
      /\ ServiceNodes = Consumers \cup {Svc}
  BY ServicesAssumption DEF ServiceNodes
<1>3. Revives => /\ Svc \notin busy /\ svc.at = "none" /\ ~runCancelled /\ serviceRan(nodeState[Svc])
  BY DEF Revives, AddressKept, Claimed
<1>4. /\ before \in [ServiceNodes -> NodeOutcomes]
      /\ before[Svc] = (IF Revives THEN Unsettled ELSE nodeState[Svc])
      /\ \A c \in Consumers : before[c] = nodeState[c]
  BY <1>2 DEF AddressKept, ServicesTypeOK, NodeOutcomes
<1>5. /\ S.at = svc.at /\ S.up = svc.up /\ S.stops = svc.stops /\ S.stop = svc.stop
      /\ S.execs = svc.execs /\ S.entry = svc.entry /\ S.heard = svc.heard
      /\ S.slot = svc.slot /\ S.end = svc.end /\ S.crashed = svc.crashed
      /\ S.ready <=> svc.ready /\ ~Revives
      /\ S.pending <=> svc.pending /\ ~runCancelled /\ Svc \in busy
      /\ S \in SvcRecords
  BY DEF revivePending, AddressKept, ServicesTypeOK
<1> HIDE DEF S, before
<1>6. \A n \in ServiceNodes : n \in open <=> before[n] = Unsettled /\ n \notin busy
  OBVIOUS
<1>7. /\ chosen \subseteq open /\ chosen \cap blocked = {} /\ (runCancelled => chosen = {})
      /\ blocked \subseteq open \ {Svc}
      /\ \A c \in Consumers : c \in chosen => before[Svc] # Unsettled \/ S.ready
      /\ \A c \in Consumers : c \in open /\ c \notin blocked => Revives \/ ~Blocks
      /\ open \subseteq ServiceNodes
  BY <1>2
<1>8. Inherited \in NodeOutcomes /\ Inherited # Unsettled /\ "cancelled" \in NodeOutcomes /\ "cancelled" # Unsettled
  BY DEF Inherited, NodeOutcomes, Unsettled
<1>9. /\ \A n \in ServiceNodes : n \notin open => after[n] = before[n]
      /\ \A n \in ServiceNodes : n \in chosen => after[n] = before[n]
      /\ \A n \in ServiceNodes : after[n] # before[n] => after[n] \in {"cancelled", Inherited}
      /\ ~runCancelled => after[Svc] = before[Svc]
  BY <1>2, <1>7
<1>10. after \in [ServiceNodes -> NodeOutcomes]
  BY <1>4, <1>8
<1> HIDE DEF open, blocked, able, chosen, after
<1>11. ASSUME NEW c \in Consumers, c \in chosen
       PROVE  /\ svc.ready /\ svc.at \in {"ready", "stopped", "withdrawn"} /\ Svc \in busy
              /\ ~runCancelled /\ ~svc.stop
  <2>1. ~runCancelled /\ c \in open /\ c \notin blocked /\ c \notin busy /\ nodeState[c] = Unsettled
    BY <1>2, <1>4, <1>6, <1>7, <1>11
  <2>2. before[Svc] = Unsettled
    <3> SUFFICES ASSUME before[Svc] # Unsettled PROVE FALSE
      OBVIOUS
    <3>1. ~Revives /\ nodeState[Svc] # Unsettled
      BY <1>4
    <3>2. nodeState[Svc] = "succeeded"
      BY <1>7, <2>1, <3>1 DEF Blocks
    <3>3. svc.at = "none" /\ Svc \notin busy
      BY <3>1 DEF AddressKept, Claimed
    <3>4. svc.pending
      BY <2>1, <3>2, <3>3 DEF AddressKept, RestartKept, Down
    <3> QED BY <2>1, <3>1, <3>2, <3>3, <3>4 DEF Revives, serviceRan
  <2>3. svc.ready /\ ~Revives
    BY <1>5, <1>7, <1>11, <2>2
  <2>4. nodeState[Svc] = Unsettled
    BY <1>4, <2>2, <2>3
  <2>5. svc.at \in {"ready", "stopped", "withdrawn"}
    BY <2>3, <2>4 DEF AddressKept, StopKept
  <2> QED BY <2>1, <2>3, <2>5 DEF AddressKept, StopKept, Claimed
<1>12. /\ Svc \in busy' <=> Svc \in busy \/ Svc \in chosen
       /\ \A c \in Consumers : c \in busy' <=> c \in busy \/ c \in chosen
  BY <1>1
<1>13. \A c \in Consumers : /\ c \in chosen => job'[c] = [Quiet EXCEPT !.at = "queued", !.from = svc.execs]
                            /\ c \notin chosen => job'[c] = job[c]
  BY <1>1, <1>5
<1>14. [Quiet EXCEPT !.at = "queued", !.from = svc.execs] \in JobRecords
  BY DEF Quiet, AddressKept, ServicesTypeOK
<1>15. /\ job' \in [Consumers -> JobRecords]
       /\ busy' \subseteq ServiceNodes
  <2> DEFINE q == [Quiet EXCEPT !.at = "queued", !.from = svc.execs]
  <2>1. q \in JobRecords /\ job \in [Consumers -> JobRecords] /\ job' = [c \in Consumers |-> IF c \in chosen THEN q ELSE job[c]]
    BY <1>1, <1>5, <1>14 DEF AddressKept, ServicesTypeOK
  <2> HIDE DEF JobRecords, q
  <2>2. job' \in [Consumers -> JobRecords]
    BY <2>1
  <2>3. busy' \subseteq ServiceNodes
    BY <1>1, <1>7 DEF AddressKept, ServicesTypeOK
  <2> QED BY <2>2, <2>3
<1>16. \A c \in Consumers : c \in chosen => /\ job'[c].at = "queued" /\ job'[c].waits = 0
                                            /\ job'[c].from = svc.execs /\ job'[c].alone = FALSE
  BY <1>13 DEF Quiet
<1>17. \A n \in ServiceNodes : nodeState'[n] = Unsettled => before[n] = Unsettled
  BY <1>1, <1>8, <1>9
<1>18. \A n \in ServiceNodes : n \in busy \/ n \in chosen => nodeState'[n] = before[n]
  BY <1>1, <1>6, <1>9
<1>19. CASE Svc \in chosen
  <2>1. Svc \in open /\ Svc \notin busy /\ svc.at = "none" /\ before[Svc] = Unsettled /\ ~runCancelled
    BY <1>2, <1>6, <1>7, <1>19 DEF AddressKept, Claimed
  <2>2. ~S.ready
    BY <1>4, <1>5, <2>1 DEF AddressKept, StopKept
  <2>3. svc' = [S EXCEPT !.execs = @ + 1, !.at = "queued", !.stops = TRUE, !.stop = FALSE, !.end = Unsettled]
    BY <1>1, <1>19 DEF Begun
  <2>4. /\ svc'.at = "queued" /\ svc'.stop = FALSE /\ svc'.execs = svc.execs + 1 /\ ~svc'.ready
        /\ svc'.up = svc.up /\ svc'.entry = svc.entry /\ svc'.heard = svc.heard /\ svc'.slot = svc.slot
        /\ svc'.crashed = svc.crashed
    BY <1>5, <2>2, <2>3
  <2>5. \A c \in Consumers : c \notin chosen
    BY <1>11, <2>1
  <2>6. ServicesTypeOK'
    <3>1. svc.execs + 1 \in Nat /\ Unsettled \in NodeOutcomes
      BY DEF AddressKept, ServicesTypeOK, NodeOutcomes
    <3>2. svc' \in SvcRecords
      BY <1>5, <2>3, <3>1
    <3> QED BY <1>1, <1>10, <1>15, <3>2 DEF AddressKept, ServicesTypeOK
  <2>7. Claimed'
    BY <1>2, <1>4, <1>12, <1>13, <1>18, <1>19, <2>1, <2>4, <2>5 DEF AddressKept, Claimed
  <2>8. svc.entry = 0 /\ ~svc.up /\ ~svc.slot /\ svc.heard <= svc.execs /\ svc.execs \in Nat /\ svc.heard \in Nat
    BY <2>1 DEF AddressKept, TableKept, ServicesTypeOK
  <2>9. TableKept'
    BY <2>4, <2>8 DEF TableKept
  <2>10. StopKept' /\ RestartKept'
    BY <2>4 DEF StopKept, RestartKept, Down
  <2>11. JobsKept'
    <3> SUFFICES ASSUME NEW c \in Consumers PROVE JobKept(c)'
      BY DEF JobsKept
    <3>1. JobKept(c) /\ job'[c] = job[c] /\ (c \in busy' <=> c \in busy)
      BY <1>12, <1>13, <2>1, <2>5 DEF AddressKept, JobsKept
    <3>2. ~Declined
      BY <1>3, <1>4, <2>1 DEF Declined
    <3>3. Answers(c) => Answers(c)'
      BY <2>1, <2>4, <3>1 DEF Answers
    <3> QED BY <2>1, <2>4, <2>8, <3>1, <3>2, <3>3 DEF JobKept
  <2> QED BY <2>6, <2>7, <2>9, <2>10, <2>11 DEF AddressKept
<1>20. CASE Svc \notin chosen
  <2>1. svc' = S /\ (Svc \in busy' <=> Svc \in busy)
    BY <1>1, <1>12, <1>20
  <2>2. ServicesTypeOK'
    BY <1>1, <1>5, <1>10, <1>15, <2>1 DEF AddressKept, ServicesTypeOK
  <2>3. Claimed'
    <3>1. Svc \in busy => nodeState'[Svc] = Unsettled
      BY <1>2, <1>3, <1>4, <1>18 DEF AddressKept, Claimed
    <3>2. \A c \in Consumers : c \in busy' => nodeState'[c] = Unsettled
      BY <1>2, <1>4, <1>6, <1>7, <1>12, <1>18 DEF AddressKept, Claimed
    <3>3. \A c \in Consumers : c \in busy' <=> job'[c].at # "none"
      BY <1>12, <1>13, <1>16 DEF AddressKept, Claimed
    <3>4. Svc \in busy' <=> svc'.at # "none"
      BY <1>5, <2>1 DEF AddressKept, Claimed
    <3> QED BY <2>1, <3>1, <3>2, <3>3, <3>4 DEF Claimed
  <2>4. TableKept'
    BY <1>5, <2>1 DEF AddressKept, TableKept
  <2>5. StopKept'
    <3>1. svc.ready /\ ~Revives /\ svc.at = "none" /\ nodeState[Svc] # Unsettled => nodeState'[Svc] # Unsettled
      BY <1>2, <1>4, <1>17
    <3> QED BY <1>1, <1>5, <2>1, <3>1 DEF AddressKept, StopKept
  <2>6. RestartKept'
    <3> SUFFICES ASSUME ~runCancelled, NEW c \in Consumers, nodeState'[c] = Unsettled, c \notin busy', Down'
                 PROVE  S.pending
      BY <1>1, <2>1 DEF RestartKept
    <3>1. nodeState[c] = Unsettled /\ c \notin busy
      BY <1>2, <1>4, <1>12, <1>17
    <3>2. CASE svc.at # "none" /\ svc.stop
      BY <1>5, <3>1, <3>2 DEF AddressKept, RestartKept, Down, Claimed
    <3>3. CASE svc.at = "none" /\ nodeState'[Svc] = "succeeded"
      <4>1. nodeState[Svc] = "succeeded" /\ ~Revives
        BY <1>1, <1>4, <1>9, <3>3 DEF Unsettled
      <4>2. svc.pending /\ Svc \notin busy
        BY <3>1, <3>3, <4>1 DEF AddressKept, RestartKept, Down, Claimed
      <4> QED BY <4>1, <4>2 DEF Revives, serviceRan
    <3> QED BY <1>5, <2>1, <3>2, <3>3 DEF Down
  <2>7. JobsKept'
    <3> SUFFICES ASSUME ~runCancelled, NEW c \in Consumers PROVE JobKept(c)'
      BY <1>1 DEF JobsKept
    <3>1. CASE c \in chosen
      <4>1. svc.up \/ svc.execs \in svc.crashed
        BY <1>11, <3>1 DEF AddressKept, TableKept, StopKept
      <4>2. svc.at \in {"stopped", "withdrawn"} => svc.execs \in svc.crashed
        BY <1>11, <3>1 DEF AddressKept, StopKept
      <4>3. svc.execs \in Nat /\ svc.execs >= svc.execs
        BY DEF AddressKept, ServicesTypeOK
      <4>4. Answers(c)'
        BY <1>5, <1>11, <1>16, <2>1, <3>1, <4>1, <4>2, <4>3 DEF Answers
      <4> QED BY <1>5, <1>11, <1>16, <2>1, <3>1, <4>4 DEF JobKept
    <3>2. CASE c \notin chosen
      <4>1. JobKept(c) /\ job'[c] = job[c] /\ (c \in busy' <=> c \in busy)
        BY <1>12, <1>13, <3>2 DEF AddressKept, JobsKept
      <4>2. Declined => Declined'
        BY <1>1, <1>2, <1>3, <1>4, <1>9, <2>1 DEF Declined
      <4>3. Answers(c) => Answers(c)'
        BY <1>5, <2>1, <4>1 DEF Answers
      <4> QED BY <1>5, <2>1, <4>1, <4>2, <4>3 DEF JobKept
    <3> QED BY <3>1, <3>2
  <2> QED BY <2>2, <2>3, <2>4, <2>5, <2>6, <2>7 DEF AddressKept
<1> QED BY <1>19, <1>20

-----------------------------------------------------------------------------
(* The slots.                                                              *)

Executing == {c \in Consumers : job[c].at = "executing"}
ServiceSlot == IF svc.slot THEN 1 ELSE 0

(* A step that starts and ends no consumer's execution keeps their number. *)
LEMMA SameExecuting ==
    ASSUME \A c \in Consumers : job'[c].at = "executing" <=> job[c].at = "executing"
    PROVE  Executing' = Executing
BY DEF Executing

(* One consumer more, or one less.                                         *)
LEMMA OneExecutes ==
    ASSUME NEW c \in Consumers, \A d \in Consumers \ {c} : job'[d].at = job[d].at
    PROVE  /\ Cardinality(Executing) \in Nat /\ Cardinality(Executing') \in Nat
           /\ job[c].at # "executing" /\ job'[c].at = "executing" =>
                 Cardinality(Executing') = Cardinality(Executing) + 1
           /\ job[c].at = "executing" /\ job'[c].at # "executing" =>
                 Cardinality(Executing') = Cardinality(Executing) - 1
<1>1. IsFiniteSet(Executing) /\ IsFiniteSet(Executing')
  BY ServicesAssumption, FS_Subset DEF Executing
<1>2. Cardinality(Executing) \in Nat /\ Cardinality(Executing') \in Nat
  BY <1>1, FS_CardinalityType
<1>3. ASSUME job[c].at # "executing", job'[c].at = "executing"
      PROVE  Cardinality(Executing') = Cardinality(Executing) + 1
  <2>1. Executing' = Executing \cup {c} /\ c \notin Executing
    BY <1>3 DEF Executing
  <2> QED BY <1>1, <2>1, FS_AddElement
<1>4. ASSUME job[c].at = "executing", job'[c].at # "executing"
      PROVE  Cardinality(Executing') = Cardinality(Executing) - 1
  <2>1. Executing' = Executing \ {c} /\ c \in Executing
    BY <1>4 DEF Executing
  <2> QED BY <1>1, <2>1, FS_RemoveElement
<1> QED BY <1>2, <1>3, <1>4

(* Every slot is taken, or given back, exactly once.                       *)
LEMMA SlotsStep ==
    ASSUME AddressKept, ServiceSlotOnce, [ServicesNext]_serviceVars
    PROVE  ServiceSlotOnce'
<1>1. /\ Slots \in Nat /\ free \in Nat /\ svc.slot \in BOOLEAN /\ ServiceSlot \in {0, 1}
      /\ Cardinality(Executing) \in Nat /\ free + Cardinality(Executing) + ServiceSlot = Slots
  <2>1. IsFiniteSet(Executing)
    BY ServicesAssumption, FS_Subset DEF Executing
  <2>2. Cardinality(Executing) \in Nat
    BY <2>1, FS_CardinalityType
  <2>3. Slots \in Nat /\ free \in Nat /\ svc.slot \in BOOLEAN /\ ServiceSlot \in {0, 1}
    BY ServicesAssumption DEF AddressKept, ServicesTypeOK, ServiceSlot
  <2> QED BY <2>2, <2>3 DEF ServiceSlotOnce, Executing, ServiceSlot
<1>2. SUFFICES free' + Cardinality(Executing') + ServiceSlot' = Slots
  BY DEF ServiceSlotOnce, Executing, ServiceSlot
<1>3. ASSUME free' = free, svc'.slot = svc.slot,
             \A c \in Consumers : job'[c].at = "executing" <=> job[c].at = "executing"
      PROVE  free' + Cardinality(Executing') + ServiceSlot' = Slots
  <2>1. Executing' = Executing
    BY <1>3, SameExecuting
  <2>2. ServiceSlot' = ServiceSlot
    BY <1>3 DEF ServiceSlot
  <2> QED BY <1>1, <1>3, <2>1, <2>2
<1>4. svc \in SvcRecords
  BY DEF AddressKept, ServicesTypeOK
<1>5. CASE NextPass \/ PauseOrResume \/ CancelRun \/ UNCHANGED serviceVars
  <2>1. UNCHANGED <<svc, job, free>>
    BY <1>5 DEF NextPass, PauseOrResume, CancelRun, serviceVars
  <2> QED BY <1>3, <2>1
<1>6. CASE StartService \/ serviceFailure \/ ServiceCrash \/ ExitedEarly \/ stopNow \/ ReportService \/ stopIdleServices
  <2>1. UNCHANGED <<job, free>>
    BY <1>6 DEF StartService, serviceFailure, ServiceCrash, ExitedEarly, stopNow, ReportService, stopIdleServices
  <2>2. svc'.slot = svc.slot
    BY <1>4, <1>6 DEF StartService, serviceFailure, Fails, ServiceCrash, ExitedEarly, stopNow, ReportService,
                      stopIdleServices
  <2> QED BY <1>3, <2>1, <2>2
<1>7. CASE Publish
  <2>1. svc'.slot = svc.slot /\ UNCHANGED <<job, free>>
    BY <1>4, <1>7, TableOps DEF Publish
  <2> QED BY <1>3, <2>1
<1>8. CASE AcquireSlot
  <2>1. svc.slot = FALSE /\ UNCHANGED job
    BY <1>1, <1>8 DEF AcquireSlot, AddressKept, TableKept
  <2>2. CASE runCancelled
    <3>1. free' = free /\ svc'.slot = svc.slot
      BY <1>4, <1>8, <2>2, TableOps DEF AcquireSlot
    <3> QED BY <1>3, <2>1, <3>1
  <2>3. CASE ~runCancelled
    <3>1. free > 0 /\ free' = free - 1 /\ svc'.slot = TRUE
      BY <1>4, <1>8, <2>3 DEF AcquireSlot
    <3>2. Executing' = Executing /\ ServiceSlot = 0 /\ ServiceSlot' = 1
      BY <2>1, <3>1 DEF Executing, ServiceSlot
    <3> QED BY <1>1, <3>1, <3>2
  <2> QED BY <2>2, <2>3
<1>9. CASE markReady
  <2>1. svc.slot /\ svc'.slot = FALSE /\ free' = free + 1 /\ UNCHANGED job
    BY <1>1, <1>4, <1>9 DEF markReady, AddressKept, TableKept
  <2>2. Executing' = Executing /\ ServiceSlot = 1 /\ ServiceSlot' = 0
    BY <2>1 DEF Executing, ServiceSlot
  <2> QED BY <1>1, <2>1, <2>2
<1>10. CASE Withdraw
  <2>1. svc'.slot = FALSE /\ UNCHANGED job /\ free' = (IF svc.slot THEN free + 1 ELSE free)
    BY <1>4, <1>10, TableOps DEF Withdraw
  <2>2. Executing' = Executing /\ ServiceSlot' = 0
    BY <2>1 DEF Executing, ServiceSlot
  <2> QED BY <1>1, <2>1, <2>2 DEF ServiceSlot
<1>11. CASE RetryService \/ \E n \in ServiceNodes : SkipNode(n) \/ RerunFrom(n)
  <2>1. UNCHANGED <<job, free>>
    BY <1>11 DEF RetryService, SkipNode, RerunFrom
  <2>2. svc'.slot = svc.slot
    <3>1. CASE RetryService
      BY <1>4, <3>1 DEF RetryService, Begun, Unready
    <3>2. ASSUME NEW n \in ServiceNodes, SkipNode(n) PROVE svc'.slot = svc.slot
      BY <3>2 DEF SkipNode
    <3>3. ASSUME NEW n \in ServiceNodes, RerunFrom(n) PROVE svc'.slot = svc.slot
      <4>1. svc' = Unready(svc) \/ svc' = reviveServices.s
        BY <3>3 DEF RerunFrom
      <4>2. Unready(svc).slot = svc.slot
        BY <1>4 DEF Unready
      <4>3. reviveServices.s.slot = svc.slot
        BY Revival
      <4> QED BY <4>1, <4>2, <4>3
    <3> QED BY <1>11, <3>1, <3>2, <3>3
  <2> QED BY <1>3, <2>1, <2>2
<1>12. ASSUME NEW c \in Consumers, RetryConsumer(c)
       PROVE  free' + Cardinality(Executing') + ServiceSlot' = Slots
  <2>1. svc' = reviveServices.s /\ free' = free /\ c \notin busy
    BY <1>12 DEF RetryConsumer
  <2>2. svc'.slot = svc.slot
    BY <2>1, Revival
  <2>3. job[c].at = "none"
    BY <2>1 DEF AddressKept, Claimed
  <2>4. job'[c].at = "await" /\ \A d \in Consumers \ {c} : job'[d] = job[d]
    BY <1>12 DEF RetryConsumer, Quiet, AddressKept, ServicesTypeOK
  <2> QED BY <1>3, <2>1, <2>2, <2>3, <2>4
<1>13. CASE Pass
  <2>1. free' = free
    BY <1>13 DEF Pass
  <2>2. svc'.slot = svc.slot
    <3>1. svc' = revivePending \/ svc' = Begun(revivePending)
      BY <1>13 DEF Pass
    <3>2. revivePending.slot = svc.slot
      BY <1>4 DEF revivePending
    <3>3. Begun(revivePending).slot = svc.slot
      BY <1>4 DEF revivePending, Begun
    <3> QED BY <3>1, <3>2, <3>3
  <2>3. \A c \in Consumers : job'[c] = job[c] \/ (c \notin busy /\ job'[c].at = "queued")
    BY <1>13 DEF Pass, Quiet
  <2>4. \A c \in Consumers : c \notin busy => job[c].at = "none"
    BY DEF AddressKept, Claimed
  <2> QED BY <1>3, <2>1, <2>2, <2>3, <2>4
<1>14. ASSUME NEW c \in Consumers, Await(c) \/ CancelConsumer(c)
       PROVE  free' + Cardinality(Executing') + ServiceSlot' = Slots
  <2>1. UNCHANGED <<svc, free>>
    BY <1>14 DEF Await, CancelConsumer
  <2>2. job[c].at \in {"await", "queued"}
    BY <1>14 DEF Await, CancelConsumer
  <2>3. job'[c].at \in {"none", "queued"} /\ \A d \in Consumers \ {c} : job'[d] = job[d]
    BY <1>14 DEF Await, CancelConsumer, Quiet, AddressKept, ServicesTypeOK
  <2> QED BY <1>3, <2>1, <2>2, <2>3
<1>15. ASSUME NEW c \in Consumers, ExecuteConsumer(c)
       PROVE  free' + Cardinality(Executing') + ServiceSlot' = Slots
  <2>1. UNCHANGED svc /\ free' = free - 1 /\ free > 0 /\ job[c].at = "queued"
    BY <1>15 DEF ExecuteConsumer
  <2>2. job'[c].at = "executing" /\ \A d \in Consumers \ {c} : job'[d] = job[d]
    BY <1>15 DEF ExecuteConsumer, AddressKept, ServicesTypeOK
  <2>3. Cardinality(Executing') = Cardinality(Executing) + 1 /\ ServiceSlot' = ServiceSlot
    BY <2>1, <2>2, OneExecutes DEF ServiceSlot
  <2> QED BY <1>1, <2>1, <2>3
<1>16. ASSUME NEW c \in Consumers, FinishConsumer(c)
       PROVE  free' + Cardinality(Executing') + ServiceSlot' = Slots
  <2>1. UNCHANGED svc /\ free' = free + 1 /\ job[c].at = "executing"
    BY <1>16 DEF FinishConsumer
  <2>2. job'[c].at = "none" /\ \A d \in Consumers \ {c} : job'[d] = job[d]
    BY <1>16 DEF FinishConsumer, Quiet, AddressKept, ServicesTypeOK
  <2>3. Cardinality(Executing') = Cardinality(Executing) - 1 /\ ServiceSlot' = ServiceSlot
    BY <2>1, <2>2, OneExecutes DEF ServiceSlot
  <2> QED BY <1>1, <2>1, <2>3
<1>17. CASE ServicesDone
  BY <1>5, <1>17 DEF ServicesDone
<1> QED
  <2>1. CASE ServiceLoop \/ ServiceGoroutine
    BY <1>5, <1>6, <1>7, <1>8, <1>9, <1>10, <1>13, <2>1 DEF ServiceLoop, ServiceGoroutine
  <2>2. CASE ServiceControl
    BY <1>5, <1>11, <1>12, <2>2 DEF ServiceControl
  <2>3. ASSUME NEW c \in Consumers, ConsumerGoroutine(c)
        PROVE  free' + Cardinality(Executing') + ServiceSlot' = Slots
    BY <1>14, <1>15, <1>16, <2>3 DEF ConsumerGoroutine
  <2> QED BY <1>5, <1>6, <1>17, <2>1, <2>2, <2>3 DEF ServicesNext

-----------------------------------------------------------------------------
(* Nothing runs, and every slot is free.                                   *)
LEMMA ServicesStart ==
    ServicesInit => AddressKept /\ ServiceSlotOnce
<1> SUFFICES ASSUME ServicesInit PROVE AddressKept /\ ServiceSlotOnce
  OBVIOUS
<1>1. Slots \in Nat /\ Ops \in Nat /\ Svc \notin Consumers
  BY ServicesAssumption
<1>2. ServicesTypeOK
  <2>1. svc \in SvcRecords
    BY DEF ServicesInit, NodeOutcomes, Unsettled
  <2>2. job \in [Consumers -> JobRecords]
    BY DEF ServicesInit, Quiet
  <2> QED BY <1>1, <2>1, <2>2 DEF ServicesInit, ServicesTypeOK, NodeOutcomes
<1>3. Claimed
  BY DEF ServicesInit, Claimed, Quiet, ServiceNodes
<1>4. TableKept
  BY DEF ServicesInit, TableKept
<1>5. StopKept
  BY DEF ServicesInit, StopKept
<1>6. RestartKept
  BY DEF ServicesInit, RestartKept, Down, Unsettled, ServiceNodes
<1>7. JobsKept
  BY DEF ServicesInit, JobsKept, JobKept, Quiet
<1>8. ServiceSlotOnce
  <2>1. {c \in Consumers : job[c].at = "executing"} = {}
    BY DEF ServicesInit, Quiet
  <2>2. Cardinality({}) = 0
    BY FS_EmptySet
  <2>3. svc.slot = FALSE /\ free = Slots
    BY DEF ServicesInit
  <2>4. Cardinality({c \in Consumers : job[c].at = "executing"}) = 0
    BY <2>1, <2>2
  <2> QED BY <1>1, <2>3, <2>4 DEF ServiceSlotOnce
<1> QED BY <1>2, <1>3, <1>4, <1>5, <1>6, <1>7, <1>8 DEF AddressKept

(* Every action keeps the invariant.                                       *)
LEMMA ServicesStep ==
    ASSUME AddressKept, [ServicesNext]_serviceVars
    PROVE  AddressKept'
<1>1. CASE ServiceLoop
  BY <1>1, Passes, StopsIdle, LoopMoves DEF ServiceLoop
<1>2. CASE ServiceGoroutine \/ serviceFailure \/ ServiceCrash
  BY <1>2, TakesSlot, Starts, Publishes, BecomesReady, ExitsEarly, Stops, Withdraws, Reports,
     FailsEarly, Crashes DEF ServiceGoroutine
<1>3. CASE ServiceControl
  BY <1>3, RetriesConsumer, RetriesService, Reruns, Skips, LoopMoves DEF ServiceControl
<1>4. ASSUME NEW c \in Consumers, ConsumerGoroutine(c) PROVE AddressKept'
  BY <1>4, Awaits, Executes, ConsumerFinishes DEF ConsumerGoroutine
<1>5. CASE CancelRun \/ ServicesDone \/ UNCHANGED serviceVars
  BY <1>5, LoopMoves DEF ServicesDone
<1> QED BY <1>1, <1>2, <1>3, <1>4, <1>5 DEF ServicesNext

(* A consumer in execution has the service whose address it was given, and *)
(* no slot is lost or given twice (service.go), for every number of        *)
(* consumers, slots and control requests: whatever the order in which the  *)
(* loop stops an idle service, requests revive it, generations are         *)
(* announced and withdrawn, processes crash and consumers come and go.     *)
THEOREM ConsumersKeepTheirService ==
    ServicesSpec => []ServicesHold
<1>1. ServicesInit => AddressKept /\ ServiceSlotOnce
  BY ServicesStart
<1>2. AddressKept /\ ServiceSlotOnce /\ [ServicesNext]_serviceVars => AddressKept' /\ ServiceSlotOnce'
  BY ServicesStep, SlotsStep
<1>3. AddressKept /\ ServiceSlotOnce => ServicesHold
  BY DEF AddressKept, JobsKept, JobKept, ServicesHold, ServiceOutlivesConsumers
<1> QED BY <1>1, <1>2, <1>3, PTL DEF ServicesSpec
=============================================================================
