------------------------------- MODULE Archive -------------------------------
(***************************************************************************)
(* The log archive of one run: attempts and the run's end enqueue files,   *)
(* workers upload each one as an object and a pointer to it, Close drains  *)
(* the queue within a grace, and `senro logs fetch` reads a run back,      *)
(* ledger first.                                                           *)
(***************************************************************************)
EXTENDS Naturals, Sequences, SequencesExt, FiniteSets

CONSTANTS
  Streams,       \* one log file per attempt
  Late,          \* those an abandoned step archives whenever it gets there
  ArchiveQueue,  \* the queue's capacity
  ArchiveWorkers \* the workers

Ledger == "events.jsonl"
Files  == Streams \cup {Ledger}
Idler  == "idle"

\* A log file is neither the ledger nor nothing.
ASSUME ArchiveAssumption == Ledger \notin Streams /\ Idler \notin Streams

VARIABLES
  jobs,        \* the channel
  archOpen,    \* close(jobs) has not happened
  worker,      \* worker -> the file it is uploading
  half,        \* files whose object is stored and whose pointer is not
  pointed,     \* files whose pointer is stored
  off,         \* the degrader has given the store up
  noticed,     \* a degradation was reported
  cancelledUp, \* Close has cancelled the uploads
  toArchive,   \* files not yet handed to the archiver
  lostJobs,    \* files the full queue refused
  closing,     \* Close: "no", "draining", "cancelled", "returned"
  panicked,    \* a send on the closed channel
  readerAt,    \* the fetch: "idle", "ledger", "streams", "ok", "nothing"
  fetched, absent

archiveVars == <<jobs, archOpen, worker, half, pointed, off, noticed, cancelledUp, toArchive,
                 lostJobs, closing, panicked, readerAt, fetched, absent>>

ArchiveInit ==
  /\ jobs = <<>> /\ archOpen = TRUE /\ worker = [w \in ArchiveWorkers |-> Idler]
  /\ half = {} /\ pointed = {} /\ off = FALSE /\ noticed = FALSE /\ cancelledUp = FALSE
  /\ toArchive = Files /\ lostJobs = {} /\ closing = "no" /\ panicked = FALSE
  /\ readerAt = "idle" /\ fetched = {} /\ absent = {}

\* enqueue: nothing once the store is given up, else a send that never blocks:
\* a full queue loses the file that was to be sent, and a closed one panics.
enqueue(f) ==
  /\ toArchive' = toArchive \ {f}
  /\ IF off THEN UNCHANGED <<jobs, lostJobs, noticed, panicked>>
     ELSE IF ~archOpen THEN panicked' = TRUE /\ UNCHANGED <<jobs, lostJobs, noticed>>
     ELSE IF Len(jobs) < ArchiveQueue
            THEN jobs' = Append(jobs, f) /\ UNCHANGED <<lostJobs, noticed, panicked>>
            ELSE lostJobs' = lostJobs \cup {f} /\ noticed' = TRUE /\ UNCHANGED <<jobs, panicked>>

\* archiveAttempt: an attempt has settled.
archiveAttempt(f) ==
  /\ f \in Streams \cap toArchive /\ ~panicked /\ (closing = "no" \/ f \in Late)
  /\ enqueue(f)
  /\ UNCHANGED <<archOpen, worker, half, pointed, off, cancelledUp, closing, readerAt, fetched, absent>>

\* Run has closed the ledger: it is the last file, and Close follows.
ArchiveLedger ==
  /\ closing = "no" /\ Ledger \in toArchive /\ Streams \cap toArchive \subseteq Late /\ ~panicked
  /\ enqueue(Ledger)
  /\ UNCHANGED <<archOpen, worker, half, pointed, off, cancelledUp, closing, readerAt, fetched, absent>>

CloseArchiver ==
  /\ closing = "no" /\ Ledger \notin toArchive /\ ~panicked
  /\ archOpen' = FALSE /\ closing' = "draining"
  /\ UNCHANGED <<jobs, worker, half, pointed, off, noticed, cancelledUp, toArchive, lostJobs,
                 panicked, readerAt, fetched, absent>>

\* work: a worker takes the next job, or drops it when the store is known down.
takeJob(w) ==
  /\ worker[w] = Idler /\ jobs # <<>> /\ ~panicked
  /\ worker' = [worker EXCEPT ![w] = IF off THEN Idler ELSE Head(jobs)]
  /\ jobs' = Tail(jobs)
  /\ UNCHANGED <<archOpen, half, pointed, off, noticed, cancelledUp, toArchive, lostJobs, closing,
                 panicked, readerAt, fetched, absent>>

\* PutFile: the object, then the pointer.
putObject(w) ==
  /\ worker[w] # Idler /\ worker[w] \notin half /\ ~cancelledUp /\ ~panicked
  /\ half' = half \cup {worker[w]}
  /\ UNCHANGED <<jobs, archOpen, worker, pointed, off, noticed, cancelledUp, toArchive, lostJobs,
                 closing, panicked, readerAt, fetched, absent>>

putPointer(w) ==
  /\ worker[w] \in half /\ ~cancelledUp /\ ~panicked
  /\ pointed' = pointed \cup {worker[w]} /\ worker' = [worker EXCEPT ![w] = Idler]
  /\ UNCHANGED <<jobs, archOpen, half, off, noticed, cancelledUp, toArchive, lostJobs, closing,
                 panicked, readerAt, fetched, absent>>

\* A failed upload gives the store up (classify), and so does a cancelled one.
failUpload(w) ==
  /\ worker[w] # Idler /\ ~panicked
  /\ off' = TRUE /\ noticed' = TRUE /\ worker' = [worker EXCEPT ![w] = Idler]
  /\ UNCHANGED <<jobs, archOpen, half, pointed, cancelledUp, toArchive, lostJobs, closing, panicked,
                 readerAt, fetched, absent>>

\* Close returns once the workers are done, cancelling them at its grace.
EmptyQueue == jobs = <<>>
drainedUp == jobs = <<>> /\ \A w \in ArchiveWorkers : worker[w] = Idler

GraceWithoutCancel ==
  /\ closing = "draining" /\ ~drainedUp /\ ~panicked
  /\ closing' = "cancelled"
  /\ UNCHANGED <<jobs, archOpen, worker, half, pointed, off, noticed, cancelledUp, toArchive,
                 lostJobs, panicked, readerAt, fetched, absent>>

graceExpires ==
  /\ closing = "draining" /\ ~drainedUp /\ ~panicked
  /\ closing' = "cancelled" /\ cancelledUp' = TRUE
  /\ UNCHANGED <<jobs, archOpen, worker, half, pointed, off, noticed, toArchive, lostJobs, panicked,
                 readerAt, fetched, absent>>

closeReturns ==
  /\ closing \in {"draining", "cancelled"} /\ drainedUp /\ ~panicked
  /\ noticed' = (noticed \/ closing = "cancelled")
  /\ closing' = "returned"
  /\ UNCHANGED <<jobs, archOpen, worker, half, pointed, off, cancelledUp, toArchive, lostJobs,
                 panicked, readerAt, fetched, absent>>

-----------------------------------------------------------------------------
(* senro logs fetch: the ledger names the streams there are to ask for.     *)

FetchLedger ==
  /\ readerAt = "idle" /\ closing # "no"
  /\ IF Ledger \in pointed THEN readerAt' = "streams" /\ fetched' = {Ledger}
     ELSE readerAt' = "nothing" /\ fetched' = fetched
  /\ UNCHANGED <<jobs, archOpen, worker, half, pointed, off, noticed, cancelledUp, toArchive,
                 lostJobs, closing, panicked, absent>>

FetchStream(f) ==
  /\ readerAt = "streams" /\ f \in Streams \ (fetched \cup absent)
  /\ IF f \in pointed THEN fetched' = fetched \cup {f} /\ absent' = absent
     ELSE absent' = absent \cup {f} /\ fetched' = fetched
  /\ readerAt' = IF Streams \subseteq fetched' \cup absent' THEN "ok" ELSE "streams"
  /\ UNCHANGED <<jobs, archOpen, worker, half, pointed, off, noticed, cancelledUp, toArchive,
                 lostJobs, closing, panicked>>

ArchiveWork == \E w \in ArchiveWorkers : takeJob(w) \/ putObject(w) \/ putPointer(w) \/ failUpload(w)
ArchiveEnd  == closing = "returned" /\ UNCHANGED archiveVars

ArchiveNext ==
  \/ \E f \in Streams : archiveAttempt(f) \/ FetchStream(f)
  \/ ArchiveLedger \/ CloseArchiver \/ ArchiveWork \/ graceExpires \/ closeReturns
  \/ FetchLedger \/ ArchiveEnd

\* Workers and the run's own goroutine run; an upload ends, at the latest when
\* its context is cancelled, and a grace expires.
ArchiveFairness ==
  /\ \A w \in ArchiveWorkers : WF_archiveVars(takeJob(w))
  /\ \A w \in ArchiveWorkers : WF_archiveVars(cancelledUp /\ failUpload(w))
  /\ WF_archiveVars(ArchiveLedger) /\ WF_archiveVars(CloseArchiver)
  /\ WF_archiveVars(graceExpires) /\ WF_archiveVars(closeReturns)
  /\ \A f \in Streams : WF_archiveVars(archiveAttempt(f))

ArchiveSpec == ArchiveInit /\ [][ArchiveNext]_archiveVars /\ ArchiveFairness

-----------------------------------------------------------------------------
\* A pointer in the archive names an object that is there, whenever an upload
\* fails or Close cancels it; and once Close has returned without a
\* degradation, every file the run handed over is there: what fetch calls
\* absent was then never archived (archiver.go:27, cmd_logs.go:499). Only a
\* stream its abandoned step archives later may still be missing.
ArchiveIsHonest ==
  /\ pointed \subseteq half
  /\ closing = "returned" /\ ~noticed => Files \ Late \subseteq pointed

\* A run ends whatever the store does (archiver.go:28: "without 'a run cannot
\* finish until its uploads do'").
CloseReturns == <>(closing = "returned" \/ panicked)

\* archiver.go:24: "every failure there degrades rather than propagating"; a
\* step abandoned by the shutdown archives its logs after Close.
ArchiveNeverPanics == ~panicked

\* archiver.go:18: overrunning the queue "loses the oldest logs"; the ledger is
\* the newest, and without it no stream can be fetched.
LedgerOutlivesTheQueue == Ledger \notin lostJobs
=============================================================================
