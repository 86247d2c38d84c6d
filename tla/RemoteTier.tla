----------------------------- MODULE RemoteTier -----------------------------
(***************************************************************************)
(* The shared cache behind the local one (internal/remotecache): objects,  *)
(* action entries and scratch entries, each tier local first.              *)
(*                                                                         *)
(* A client is one run.  Runs on one host share its local store; each has  *)
(* a degrader of its own, and a remote call that fails for any reason but  *)
(* a missing object turns the remote tier off for the rest of that run.    *)
(* The store itself is a bucket or a registry: a registry takes the blob   *)
(* first and is asked for it by the tag that is written last.              *)
(***************************************************************************)
EXTENDS Naturals, Sequences, FiniteSets

CONSTANTS
    Clients,        \* runs
    Hostings,       \* which machine each run may be on: functions from Clients
    ReadOnlyClients \* runs whose credentials only read

VARIABLES
    lobj, lent, lscr,   \* a host's objects, entry and scratch entry
    robj, rblob,        \* what the store answers for, and the blobs it holds
    rent, rscr,         \* the shared entry and the shared scratch entry
    tier,               \* a client
    backend,            \* "s3" or "oci"
    hostOf              \* the machine each client runs on

tierVars == <<lobj, lent, lscr, robj, rblob, rent, rscr, tier, backend, hostOf>>

HostSet == {hostOf[c] : c \in Clients}

NoOne == <<>>
Claim == <<"claim">>        \* a scratch file that is still empty

\* What a run of the step leaves: a workspace any run would, a log of its own.
Products(c) == <<<<"body">>, <<"log", c>>>>
Warm(c) == <<"scratch", c>>
RefsOf(entry) == {entry[i] : i \in 1..Len(entry)}

TierInit ==
    /\ hostOf \in Hostings
    /\ lobj = [h \in HostSet |-> {}]
    /\ lent = [h \in HostSet |-> NoOne]
    /\ lscr = [h \in HostSet |-> NoOne]
    /\ robj = {} /\ rblob = {} /\ rent = NoOne /\ rscr = NoOne
    /\ tier = [c \in Clients |->
                  [at |-> "scratch", off |-> FALSE, todo |-> <<>>, exact |-> FALSE,
                   next |-> "none"]]
    /\ backend \in {"s3", "oci"}

Local(c) == hostOf[c]
Does(c, at) == tier[c].at = at
stillLive(c) == ~tier[c].off
To(c, at) == tier' = [tier EXCEPT ![c].at = at]

\* Mutant: a failed call is reported and the tier stays in use.
NoticeOnly(t, c) == t

\* degrader.disable: the remote failed for this run.
disable(t, c) == [t EXCEPT ![c].off = TRUE]

RemoteFails(c, at) == tier' = disable([tier EXCEPT ![c].at = at], c)

SharesScratch == backend = "s3"

-----------------------------------------------------------------------------
(* TieredScratch.Restore.                                                  *)

\* scratch.Dir.Restore: an entry whose content is gone is a miss.
LocalWarm(c) == lscr[Local(c)] # NoOne /\ lscr[Local(c)] \in lobj[Local(c)]

restoreScratch(c) ==
    /\ Does(c, "scratch")
    /\ IF LocalWarm(c)
          THEN tier' = [tier EXCEPT ![c].at = "lookup", ![c].exact = TRUE]
          ELSE To(c, IF SharesScratch /\ stillLive(c) THEN "ask" ELSE "lookup")
    /\ UNCHANGED <<lobj, lent, lscr, robj, rblob, rent, rscr, backend, hostOf>>

\* scratchDocs.get and fill: the content, then the local pointer (Adopt).
askScratch(c) ==
    /\ Does(c, "ask")
    /\ LET found == rscr # NoOne /\ rscr \in robj IN
          \/ /\ found
             /\ lobj' = [lobj EXCEPT ![Local(c)] = @ \cup {rscr}]
             /\ lscr' = [lscr EXCEPT ![Local(c)] = IF @ = NoOne THEN rscr ELSE @]
             /\ tier' = [tier EXCEPT ![c].at = "lookup", ![c].exact = TRUE]
          \/ ~found /\ To(c, "lookup") /\ UNCHANGED <<lobj, lscr>>
          \/ RemoteFails(c, "lookup") /\ UNCHANGED <<lobj, lscr>>
    /\ UNCHANGED <<lent, robj, rblob, rent, rscr, backend, hostOf>>

-----------------------------------------------------------------------------
(* TieredEntries.Lookup and TieredObjects.Get.                             *)

Serve(c, entry) == tier' = [tier EXCEPT ![c].at = "fetch", ![c].todo = entry]

lookupEntry(c) ==
    /\ Does(c, "lookup")
    /\ IF lent[Local(c)] # NoOne
          THEN Serve(c, lent[Local(c)])
          ELSE To(c, IF stillLive(c) THEN "shared" ELSE "execute")
    /\ UNCHANGED <<lobj, lent, lscr, robj, rblob, rent, rscr, backend, hostOf>>

\* Entries.Lookup: a remote hit is saved locally before it is served.
lookupShared(c) ==
    /\ Does(c, "shared")
    /\ \/ /\ rent # NoOne
          /\ lent' = [lent EXCEPT ![Local(c)] = rent]
          /\ Serve(c, rent)
       \/ rent = NoOne /\ To(c, "execute") /\ UNCHANGED lent
       \/ RemoteFails(c, "execute") /\ UNCHANGED lent
    /\ UNCHANGED <<lobj, lscr, robj, rblob, rent, rscr, backend, hostOf>>

\* Forget is local: a shared entry is never taken back by one machine.
forget(c) == lent' = [lent EXCEPT ![Local(c)] = NoOne]

\* One object of the hit: local, filled from the store, or a miss.
getObject(c) ==
    /\ Does(c, "fetch") /\ tier[c].todo # <<>>
    /\ LET o == Head(tier[c].todo)
           got == [tier EXCEPT ![c].todo = Tail(@)] IN
          \/ /\ o \in lobj[Local(c)]
             /\ tier' = got /\ UNCHANGED <<lobj, lent>>
          \/ /\ o \notin lobj[Local(c)] /\ stillLive(c) /\ o \in robj
             /\ lobj' = [lobj EXCEPT ![Local(c)] = @ \cup {o}]
             /\ tier' = got /\ UNCHANGED lent
          \/ /\ o \notin lobj[Local(c)] /\ (~stillLive(c) \/ o \notin robj)
             /\ forget(c) /\ To(c, "execute") /\ UNCHANGED lobj
          \/ /\ o \notin lobj[Local(c)] /\ stillLive(c)
             /\ forget(c) /\ RemoteFails(c, "execute") /\ UNCHANGED lobj
    /\ UNCHANGED <<lscr, robj, rblob, rent, rscr, backend, hostOf>>

served(c) ==
    /\ Does(c, "fetch") /\ tier[c].todo = <<>>
    /\ To(c, "warm")
    /\ UNCHANGED <<lobj, lent, lscr, robj, rblob, rent, rscr, backend, hostOf>>

-----------------------------------------------------------------------------
(* TieredObjects.Put and TieredEntries.Save.                               *)

executeStep(c) ==
    /\ Does(c, "execute")
    /\ tier' = [tier EXCEPT ![c].at = "put", ![c].todo = Products(c), ![c].next = "save"]
    /\ UNCHANGED <<lobj, lent, lscr, robj, rblob, rent, rscr, backend, hostOf>>

putLocal(c) ==
    /\ Does(c, "put") /\ tier[c].todo # <<>>
    /\ lobj' = [lobj EXCEPT ![Local(c)] = @ \cup {Head(tier[c].todo)}]
    /\ To(c, "upload")
    /\ UNCHANGED <<lent, lscr, robj, rblob, rent, rscr, backend, hostOf>>

NextPut(c) == [tier EXCEPT ![c].todo = Tail(@), ![c].at = "put"]

\* upload asks first; a read-only run sends nothing.
askObject(c) ==
    /\ Does(c, "upload")
    /\ \/ /\ (~stillLive(c) \/ c \in ReadOnlyClients \/ Head(tier[c].todo) \in robj)
          /\ tier' = NextPut(c)
       \/ /\ stillLive(c) /\ c \notin ReadOnlyClients /\ Head(tier[c].todo) \notin robj
          /\ To(c, "send")
       \/ /\ stillLive(c)
          /\ tier' = disable(NextPut(c), c)
    /\ UNCHANGED <<lobj, lent, lscr, robj, rblob, rent, rscr, backend, hostOf>>

\* Objects.UploadEncoded: one PUT to a bucket; to a registry the blob, if
\* it has none, before the manifest.
sendObject(c) ==
    /\ Does(c, "send")
    /\ LET o == Head(tier[c].todo) IN
          \/ /\ backend = "s3" \/ o \in rblob
             /\ robj' = robj \cup {o} /\ rblob' = rblob \cup {o}
             /\ tier' = NextPut(c)
          \/ /\ backend = "oci" /\ o \notin rblob
             /\ rblob' = rblob \cup {o} /\ UNCHANGED <<robj, tier>>
          \/ /\ tier' = disable(NextPut(c), c)
             /\ UNCHANGED <<robj, rblob>>
    /\ UNCHANGED <<lobj, lent, lscr, rent, rscr, backend, hostOf>>

isStored(c) ==
    /\ Does(c, "put") /\ tier[c].todo = <<>>
    /\ To(c, tier[c].next)
    /\ UNCHANGED <<lobj, lent, lscr, robj, rblob, rent, rscr, backend, hostOf>>

\* The local entry is what the run is told of; the shared one follows.
saveEntry(c) ==
    /\ Does(c, "save")
    /\ lent' = [lent EXCEPT ![Local(c)] = Products(c)]
    /\ To(c, IF stillLive(c) /\ c \notin ReadOnlyClients THEN "publish" ELSE "warm")
    /\ UNCHANGED <<lobj, lscr, robj, rblob, rent, rscr, backend, hostOf>>

publishEntry(c) ==
    /\ Does(c, "publish")
    /\ \/ rent' = Products(c) /\ To(c, "warm")
       \/ RemoteFails(c, "warm") /\ UNCHANGED rent
    /\ UNCHANGED <<lobj, lent, lscr, robj, rblob, rscr, backend, hostOf>>

-----------------------------------------------------------------------------
(* TieredScratch.Save, at the end of a run that restored no exact match.   *)

\* scratch.Dir.Save: the claim decides who stores.
saveWarm(c) ==
    /\ Does(c, "warm")
    /\ \/ tier[c].exact /\ To(c, "end") /\ UNCHANGED lscr
       \/ /\ ~tier[c].exact /\ lscr[Local(c)] = NoOne
          /\ lscr' = [lscr EXCEPT ![Local(c)] = Claim]
          /\ tier' = [tier EXCEPT ![c].at = "put", ![c].todo = <<Warm(c)>>,
                                  ![c].next = "adopt"]
       \/ ~tier[c].exact /\ lscr[Local(c)] # NoOne /\ To(c, "point") /\ UNCHANGED lscr
    /\ UNCHANGED <<lobj, lent, robj, rblob, rent, rscr, backend, hostOf>>

\* The digest into the claimed file.
adoptWarm(c) ==
    /\ Does(c, "adopt")
    /\ lscr' = [lscr EXCEPT ![Local(c)] = Warm(c)]
    /\ To(c, "point")
    /\ UNCHANGED <<lobj, lent, robj, rblob, rent, rscr, backend, hostOf>>

\* The pointer is published even by a run that did not store.
lookupWarm(c) ==
    /\ Does(c, "point")
    /\ To(c, IF SharesScratch /\ stillLive(c) /\ c \notin ReadOnlyClients /\ lscr[Local(c)] # Claim
                THEN "head" ELSE "end")
    /\ UNCHANGED <<lobj, lent, lscr, robj, rblob, rent, rscr, backend, hostOf>>

\* scratchDocs.put: a key that exists is done; the asking and the writing
\* are two calls.
headWarm(c) ==
    /\ Does(c, "head")
    /\ \/ To(c, IF rscr # NoOne THEN "end" ELSE "write")
       \/ RemoteFails(c, "end")
    /\ UNCHANGED <<lobj, lent, lscr, robj, rblob, rent, rscr, backend, hostOf>>

writeWarm(c) ==
    /\ Does(c, "write")
    /\ \/ rscr' = lscr[Local(c)] /\ To(c, "end")
       \/ RemoteFails(c, "end") /\ UNCHANGED rscr
    /\ UNCHANGED <<lobj, lent, lscr, robj, rblob, rent, backend, hostOf>>

-----------------------------------------------------------------------------
TierStep(c) ==
    \/ restoreScratch(c) \/ askScratch(c) \/ lookupEntry(c) \/ lookupShared(c)
    \/ getObject(c) \/ served(c) \/ executeStep(c) \/ putLocal(c) \/ askObject(c)
    \/ sendObject(c) \/ isStored(c) \/ saveEntry(c) \/ publishEntry(c) \/ saveWarm(c)
    \/ adoptWarm(c) \/ lookupWarm(c) \/ headWarm(c) \/ writeWarm(c)

TierDone == (\A c \in Clients : tier[c].at = "end") /\ UNCHANGED tierVars

TierNext == (\E c \in Clients : TierStep(c)) \/ TierDone

TierSpec == TierInit /\ [][TierNext]_tierVars

-----------------------------------------------------------------------------
(* What the shared store names it holds: an entry another machine may be   *)
(* served refers only to objects the store answers for, and every object   *)
(* it answers for has its content, whatever failed on the way and however  *)
(* many runs upload at once (tier.go, entries.go, ociobjects.go store).    *)
SharedEntriesResolve ==
    /\ rent # NoOne => RefsOf(rent) \subseteq robj
    /\ robj \subseteq rblob

(* remotecache/scratch.go says of a scratch pointer a run publishes that   *)
(* "the content itself is already remote".                                 *)
SharedScratchResolves == rscr # NoOne => rscr \in robj
=============================================================================
