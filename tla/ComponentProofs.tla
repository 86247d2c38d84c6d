--------------------------- MODULE ComponentProofs ---------------------------
(***************************************************************************)
(* Proofs about the stores and the servers of a run, and what its clients  *)
(* and executors make of it: the shared cache (RemoteTier), the push to a  *)
(* registry (Registry), a scratch cache (Scratch), the attach server       *)
(* (AttachServer), the browser's server and page (WebUI), the terminal's   *)
(* log pane (LogPane), containers (ContainerExec), remote functions        *)
(* (FuncRemote) and the shared ssh connection (SSHHost).  Each section     *)
(* names its component's inductive invariant, shows that every step keeps  *)
(* it, and ends with what it gives.  Nothing is assumed of the number of   *)
(* clients, runs, steps, callers, tabs, calls or sessions.                 *)
(***************************************************************************)
EXTENDS MCComponents, SequenceTheorems, FiniteSetTheorems, TLAPS

-----------------------------------------------------------------------------
(* The shared cache.                                                       *)

Objects == {<<"body">>} \cup {<<"log", c>> : c \in Clients} \cup {<<"scratch", c>> : c \in Clients}
TierAts == {"scratch", "ask", "lookup", "shared", "fetch", "execute", "put", "upload", "send", "save",
            "publish", "warm", "adopt", "point", "head", "write", "end"}
Flags == {TRUE, FALSE}
Reasons == {"none", "save", "adopt"}
TierRec == [at : TierAts, off : Flags, todo : Seq(Objects), exact : Flags, next : Reasons]
TierTypes ==
  /\ tier \in [Clients -> TierRec]
  /\ lent \in [HostSet -> Seq(Objects)] /\ rent \in Seq(Objects)

\* What a run that may still write has put is in the store r.
SentIs(c, a, o, td, nx, r) ==
  /\ a \in {"upload", "send"} => td # <<>>
  /\ a \in {"put", "upload", "send"} => nx # "none"
  /\ a = "publish" => c \notin ReadOnlyClients /\ ~o
  /\ ~o /\ c \notin ReadOnlyClients =>
       /\ a \in {"put", "upload", "send"} /\ nx = "save" => RefsOf(Products(c)) \ RefsOf(td) \subseteq r
       /\ a \in {"save", "publish"} => RefsOf(Products(c)) \subseteq r
Sent(c) == SentIs(c, tier[c].at, tier[c].off, tier[c].todo, tier[c].next, robj)

TierKept == TierTypes /\ (\A c \in Clients : Sent(c)) /\ SharedEntriesResolve

\* One client moves: where it is now, whether its remote tier is off, what it has
\* to put and what for.
TierMoves(c, a, o, td, nx) ==
  /\ tier' \in [Clients -> TierRec]
  /\ \A d \in Clients \ {c} : tier'[d] = tier[d]
  /\ tier'[c].at = a /\ tier'[c].off = o /\ tier'[c].todo = td /\ tier'[c].next = nx

\* To, RemoteFails and the updates of the tier, field by field.
LEMMA TierRowMoves ==
  ASSUME tier \in [Clients -> TierRec], NEW c \in Clients, NEW a \in TierAts, NEW td \in Seq(Objects),
         NEW nx \in Reasons
  PROVE  /\ tier' = [tier EXCEPT ![c].at = a] => TierMoves(c, a, tier[c].off, tier[c].todo, tier[c].next)
         /\ tier' = disable([tier EXCEPT ![c].at = a], c) => TierMoves(c, a, TRUE, tier[c].todo, tier[c].next)
         /\ tier' = [tier EXCEPT ![c].at = a, ![c].exact = TRUE] => TierMoves(c, a, tier[c].off, tier[c].todo, tier[c].next)
         /\ tier' = [tier EXCEPT ![c].at = a, ![c].todo = td] => TierMoves(c, a, tier[c].off, td, tier[c].next)
         /\ tier' = [tier EXCEPT ![c].todo = td] => TierMoves(c, tier[c].at, tier[c].off, td, tier[c].next)
         /\ tier' = [tier EXCEPT ![c].todo = td, ![c].at = a] => TierMoves(c, a, tier[c].off, td, tier[c].next)
         /\ tier' = disable([tier EXCEPT ![c].todo = td, ![c].at = a], c) => TierMoves(c, a, TRUE, td, tier[c].next)
         /\ tier' = [tier EXCEPT ![c].at = a, ![c].todo = td, ![c].next = nx] => TierMoves(c, a, tier[c].off, td, nx)
<1> DEFINE t == tier[c]
<1>0. t \in TierRec /\ TRUE \in Flags
  BY DEF Flags
<1> HIDE DEF t, Flags, Objects, TierAts, Reasons
<1>1. ASSUME tier' = [tier EXCEPT ![c].at = a] PROVE TierMoves(c, a, tier[c].off, tier[c].todo, tier[c].next)
  <2> DEFINE t1 == [t EXCEPT !.at = a]
  <2>1. tier' = [tier EXCEPT ![c] = t1]
    BY <1>1 DEF t, disable
  <2>2. /\ t1 \in TierRec
        /\ t1.at = a /\ t1.off = t.off /\ t1.todo = t.todo /\ t1.next = t.next
    BY <1>0 DEF TierRec
  <2> HIDE DEF t1
  <2>3. tier' \in [Clients -> TierRec] /\ tier'[c] = t1 /\ \A d \in Clients \ {c} : tier'[d] = tier[d]
    BY <2>1, <2>2
  <2> QED
    BY <2>2, <2>3 DEF TierMoves, t
<1>2. ASSUME tier' = disable([tier EXCEPT ![c].at = a], c) PROVE TierMoves(c, a, TRUE, tier[c].todo, tier[c].next)
  <2> DEFINE t1 == [t EXCEPT !.at = a]
             t2 == [t1 EXCEPT !.off = TRUE]
  <2>1. tier' = [tier EXCEPT ![c] = t2]
    BY <1>2 DEF t, disable
  <2>2. /\ t1 \in TierRec
        /\ t1.at = a /\ t1.off = t.off /\ t1.todo = t.todo /\ t1.next = t.next
    BY <1>0 DEF TierRec
  <2> HIDE DEF t1
  <2>3. /\ t2 \in TierRec
        /\ t2.at = t1.at /\ t2.off = TRUE /\ t2.todo = t1.todo /\ t2.next = t1.next
    BY <1>0, <2>2 DEF TierRec
  <2> HIDE DEF t2
  <2>4. tier' \in [Clients -> TierRec] /\ tier'[c] = t2 /\ \A d \in Clients \ {c} : tier'[d] = tier[d]
    BY <2>1, <2>3
  <2> QED
    BY <2>2, <2>3, <2>4 DEF TierMoves, t
<1>3. ASSUME tier' = [tier EXCEPT ![c].at = a, ![c].exact = TRUE] PROVE TierMoves(c, a, tier[c].off, tier[c].todo, tier[c].next)
  <2> DEFINE t1 == [t EXCEPT !.at = a]
             t2 == [t1 EXCEPT !.exact = TRUE]
  <2>1. tier' = [tier EXCEPT ![c] = t2]
    BY <1>3 DEF t, disable
  <2>2. /\ t1 \in TierRec
        /\ t1.at = a /\ t1.off = t.off /\ t1.todo = t.todo /\ t1.next = t.next
    BY <1>0 DEF TierRec
  <2> HIDE DEF t1
  <2>3. /\ t2 \in TierRec
        /\ t2.at = t1.at /\ t2.off = t1.off /\ t2.todo = t1.todo /\ t2.next = t1.next
    BY <1>0, <2>2 DEF TierRec
  <2> HIDE DEF t2
  <2>4. tier' \in [Clients -> TierRec] /\ tier'[c] = t2 /\ \A d \in Clients \ {c} : tier'[d] = tier[d]
    BY <2>1, <2>3
  <2> QED
    BY <2>2, <2>3, <2>4 DEF TierMoves, t
<1>4. ASSUME tier' = [tier EXCEPT ![c].at = a, ![c].todo = td] PROVE TierMoves(c, a, tier[c].off, td, tier[c].next)
  <2> DEFINE t1 == [t EXCEPT !.at = a]
             t2 == [t1 EXCEPT !.todo = td]
  <2>1. tier' = [tier EXCEPT ![c] = t2]
    BY <1>4 DEF t, disable
  <2>2. /\ t1 \in TierRec
        /\ t1.at = a /\ t1.off = t.off /\ t1.todo = t.todo /\ t1.next = t.next
    BY <1>0 DEF TierRec
  <2> HIDE DEF t1
  <2>3. /\ t2 \in TierRec
        /\ t2.at = t1.at /\ t2.off = t1.off /\ t2.todo = td /\ t2.next = t1.next
    BY <1>0, <2>2 DEF TierRec
  <2> HIDE DEF t2
  <2>4. tier' \in [Clients -> TierRec] /\ tier'[c] = t2 /\ \A d \in Clients \ {c} : tier'[d] = tier[d]
    BY <2>1, <2>3
  <2> QED
    BY <2>2, <2>3, <2>4 DEF TierMoves, t
<1>5. ASSUME tier' = [tier EXCEPT ![c].todo = td] PROVE TierMoves(c, tier[c].at, tier[c].off, td, tier[c].next)
  <2> DEFINE t1 == [t EXCEPT !.todo = td]
  <2>1. tier' = [tier EXCEPT ![c] = t1]
    BY <1>5 DEF t, disable
  <2>2. /\ t1 \in TierRec
        /\ t1.at = t.at /\ t1.off = t.off /\ t1.todo = td /\ t1.next = t.next
    BY <1>0 DEF TierRec
  <2> HIDE DEF t1
  <2>3. tier' \in [Clients -> TierRec] /\ tier'[c] = t1 /\ \A d \in Clients \ {c} : tier'[d] = tier[d]
    BY <2>1, <2>2
  <2> QED
    BY <2>2, <2>3 DEF TierMoves, t
<1>6. ASSUME tier' = [tier EXCEPT ![c].todo = td, ![c].at = a] PROVE TierMoves(c, a, tier[c].off, td, tier[c].next)
  <2> DEFINE t1 == [t EXCEPT !.todo = td]
             t2 == [t1 EXCEPT !.at = a]
  <2>1. tier' = [tier EXCEPT ![c] = t2]
    BY <1>6 DEF t, disable
  <2>2. /\ t1 \in TierRec
        /\ t1.at = t.at /\ t1.off = t.off /\ t1.todo = td /\ t1.next = t.next
    BY <1>0 DEF TierRec
  <2> HIDE DEF t1
  <2>3. /\ t2 \in TierRec
        /\ t2.at = a /\ t2.off = t1.off /\ t2.todo = t1.todo /\ t2.next = t1.next
    BY <1>0, <2>2 DEF TierRec
  <2> HIDE DEF t2
  <2>4. tier' \in [Clients -> TierRec] /\ tier'[c] = t2 /\ \A d \in Clients \ {c} : tier'[d] = tier[d]
    BY <2>1, <2>3
  <2> QED
    BY <2>2, <2>3, <2>4 DEF TierMoves, t
<1>7. ASSUME tier' = disable([tier EXCEPT ![c].todo = td, ![c].at = a], c) PROVE TierMoves(c, a, TRUE, td, tier[c].next)
  <2> DEFINE t1 == [t EXCEPT !.todo = td]
             t2 == [t1 EXCEPT !.at = a]
             t3 == [t2 EXCEPT !.off = TRUE]
  <2>1. tier' = [tier EXCEPT ![c] = t3]
    BY <1>7 DEF t, disable
  <2>2. /\ t1 \in TierRec
        /\ t1.at = t.at /\ t1.off = t.off /\ t1.todo = td /\ t1.next = t.next
    BY <1>0 DEF TierRec
  <2> HIDE DEF t1
  <2>3. /\ t2 \in TierRec
        /\ t2.at = a /\ t2.off = t1.off /\ t2.todo = t1.todo /\ t2.next = t1.next
    BY <1>0, <2>2 DEF TierRec
  <2> HIDE DEF t2
  <2>4. /\ t3 \in TierRec
        /\ t3.at = t2.at /\ t3.off = TRUE /\ t3.todo = t2.todo /\ t3.next = t2.next
    BY <1>0, <2>3 DEF TierRec
  <2> HIDE DEF t3
  <2>5. tier' \in [Clients -> TierRec] /\ tier'[c] = t3 /\ \A d \in Clients \ {c} : tier'[d] = tier[d]
    BY <2>1, <2>4
  <2> QED
    BY <2>2, <2>3, <2>4, <2>5 DEF TierMoves, t
<1>8. ASSUME tier' = [tier EXCEPT ![c].at = a, ![c].todo = td, ![c].next = nx] PROVE TierMoves(c, a, tier[c].off, td, nx)
  <2> DEFINE t1 == [t EXCEPT !.at = a]
             t2 == [t1 EXCEPT !.todo = td]
             t3 == [t2 EXCEPT !.next = nx]
  <2>1. tier' = [tier EXCEPT ![c] = t3]
    BY <1>8 DEF t, disable
  <2>2. /\ t1 \in TierRec
        /\ t1.at = a /\ t1.off = t.off /\ t1.todo = t.todo /\ t1.next = t.next
    BY <1>0 DEF TierRec
  <2> HIDE DEF t1
  <2>3. /\ t2 \in TierRec
        /\ t2.at = t1.at /\ t2.off = t1.off /\ t2.todo = td /\ t2.next = t1.next
    BY <1>0, <2>2 DEF TierRec
  <2> HIDE DEF t2
  <2>4. /\ t3 \in TierRec
        /\ t3.at = t2.at /\ t3.off = t2.off /\ t3.todo = t2.todo /\ t3.next = nx
    BY <1>0, <2>3 DEF TierRec
  <2> HIDE DEF t3
  <2>5. tier' \in [Clients -> TierRec] /\ tier'[c] = t3 /\ \A d \in Clients \ {c} : tier'[d] = tier[d]
    BY <2>1, <2>4
  <2> QED
    BY <2>2, <2>3, <2>4, <2>5 DEF TierMoves, t
<1> QED
  BY <1>1, <1>2, <1>3, <1>4, <1>5, <1>6, <1>7, <1>8

\* A client moves, the store only grows, and an entry that is published resolves.
LEMMA TierMoved ==
  ASSUME TierKept, NEW c \in Clients, NEW a, NEW o, NEW td, NEW nx, TierMoves(c, a, o, td, nx),
         SentIs(c, a, o, td, nx, robj'), robj \subseteq robj', robj' \subseteq rblob',
         hostOf' = hostOf, lent' \in [HostSet -> Seq(Objects)],
         rent' = rent \/ (rent' = Products(c) /\ RefsOf(Products(c)) \subseteq robj')
  PROVE  TierKept'
<1>1. \A d \in Clients : Sent(d)'
  <2>1. Sent(c)'
    BY DEF Sent, TierMoves
  <2>2. ASSUME NEW d \in Clients \ {c} PROVE Sent(d)'
    <3>1. Sent(d) /\ tier'[d] = tier[d]
      BY <2>2 DEF TierMoves, TierKept
    <3> QED
      BY <3>1 DEF Sent, SentIs
  <2> QED
    BY <2>1, <2>2
<1>2. rent' \in Seq(Objects)
  <2>1. Products(c) \in Seq(Objects)
    BY DEF Products, Objects
  <2> QED
    BY <2>1 DEF TierKept, TierTypes
<1>3. TierTypes'
  BY <1>2 DEF TierTypes, TierMoves, HostSet
<1>4. SharedEntriesResolve'
  BY DEF SharedEntriesResolve, TierKept
<1> QED
  BY <1>1, <1>3, <1>4 DEF TierKept

\* What a sequence still refers to when its head is gone.
LEMMA RefsOfTail ==
  ASSUME NEW S, NEW s \in Seq(S), s # <<>>
  PROVE  RefsOf(s) \subseteq {Head(s)} \cup RefsOf(Tail(s)) /\ Tail(s) \in Seq(S)
<1>1. /\ Len(s) \in Nat /\ Len(s) > 0 /\ Tail(s) \in Seq(S) /\ Len(Tail(s)) = Len(s) - 1 /\ Head(s) = s[1]
      /\ \A i \in 1..Len(Tail(s)) : Tail(s)[i] = s[i + 1]
  BY HeadTailProperties, LenProperties, EmptySeq
<1>2. ASSUME NEW i \in 1..Len(s) PROVE s[i] \in {Head(s)} \cup RefsOf(Tail(s))
  <2>1. CASE i = 1
    BY <2>1, <1>1
  <2>2. CASE i # 1
    <3>1. i - 1 \in 1..Len(Tail(s)) /\ (i - 1) + 1 = i
      BY <1>1, <2>2
    <3>2. Tail(s)[i - 1] = s[i]
      BY <1>1, <3>1
    <3> QED
      BY <3>1, <3>2 DEF RefsOf
  <2> QED
    BY <2>1, <2>2
<1> QED
  BY <1>1, <1>2 DEF RefsOf

\* The steps of a client that write nothing to the store.
LEMMA TierReads ==
  ASSUME TierKept, NEW c \in Clients,
         \/ restoreScratch(c) \/ askScratch(c) \/ lookupEntry(c) \/ lookupShared(c) \/ getObject(c)
         \/ served(c) \/ executeStep(c) \/ putLocal(c) \/ isStored(c) \/ saveEntry(c) \/ saveWarm(c)
         \/ adoptWarm(c) \/ lookupWarm(c) \/ headWarm(c) \/ writeWarm(c)
  PROVE  TierKept'
<1> DEFINE t == tier[c]
<1>0. /\ tier \in [Clients -> TierRec] /\ t \in TierRec /\ Sent(c) /\ hostOf[c] \in HostSet
      /\ t.at \in TierAts /\ t.todo \in Seq(Objects) /\ t.next \in Reasons
      /\ lent \in [HostSet -> Seq(Objects)] /\ rent \in Seq(Objects) /\ robj \subseteq rblob
      /\ Products(c) \in Seq(Objects) /\ <<Warm(c)>> \in Seq(Objects) /\ <<>> \in Seq(Objects)
  BY DEF TierKept, TierTypes, TierRec, HostSet, SharedEntriesResolve, Products, Warm, Objects
<1> HIDE DEF Objects
<1>1. UNCHANGED <<robj, rblob, rent, hostOf>>
  BY DEF restoreScratch, askScratch, lookupEntry, lookupShared, getObject, served, executeStep, putLocal,
         isStored, saveEntry, saveWarm, adoptWarm, lookupWarm, headWarm, writeWarm
<1>2. lent' \in [HostSet -> Seq(Objects)]
  BY <1>0 DEF restoreScratch, askScratch, lookupEntry, lookupShared, getObject, served, executeStep, putLocal,
         isStored, saveEntry, saveWarm, adoptWarm, lookupWarm, headWarm, writeWarm, forget, NoOne, Local
<1> SUFFICES \E a, o, td, nx : TierMoves(c, a, o, td, nx) /\ SentIs(c, a, o, td, nx, robj)
  BY <1>0, <1>1, <1>2, TierMoved
<1> HIDE DEF t
\* Everywhere but on the way of the products to the store there is nothing to know.
<1>3. ASSUME NEW a \in {"scratch", "ask", "lookup", "shared", "fetch", "execute", "warm", "adopt", "point",
                         "head", "write", "end"}, NEW o, NEW td, NEW nx
      PROVE  a \in TierAts /\ SentIs(c, a, o, td, nx, robj)
  BY DEF SentIs, TierAts
<1>4. ASSUME NEW a \in {"ask", "lookup", "shared", "fetch", "execute", "warm", "adopt", "point", "head", "write", "end"},
             To(c, a) \/ RemoteFails(c, a)
      PROVE  \E o, td, nx : TierMoves(c, a, o, td, nx) /\ SentIs(c, a, o, td, nx, robj)
  <2>1. TierMoves(c, a, t.off, t.todo, t.next) \/ TierMoves(c, a, TRUE, t.todo, t.next)
    BY <1>0, <1>3, <1>4, TierRowMoves DEF To, RemoteFails, t
  <2> QED
    BY <2>1, <1>3
<1>5. CASE restoreScratch(c) \/ askScratch(c)
  <2>1. CASE tier' = [tier EXCEPT ![c].at = "lookup", ![c].exact = TRUE]
    <3>1. TierMoves(c, "lookup", t.off, t.todo, t.next)
      BY <1>0, <1>3, <2>1, TierRowMoves DEF t
    <3> QED
      BY <3>1, <1>3
  <2>2. tier' = [tier EXCEPT ![c].at = "lookup", ![c].exact = TRUE] \/ To(c, "lookup") \/ To(c, "ask") \/ RemoteFails(c, "lookup")
    BY <1>5 DEF restoreScratch, askScratch
  <2> QED
    BY <2>1, <2>2, <1>4
<1>6. CASE lookupEntry(c) \/ lookupShared(c)
  <2>1. ASSUME NEW e \in Seq(Objects), Serve(c, e)
        PROVE  \E a, o, td, nx : TierMoves(c, a, o, td, nx) /\ SentIs(c, a, o, td, nx, robj)
    <3>1. TierMoves(c, "fetch", t.off, e, t.next)
      BY <1>0, <1>3, <2>1, TierRowMoves DEF t, Serve
    <3> QED
      BY <3>1, <1>3
  <2>2. \/ Serve(c, rent) \/ Serve(c, lent[hostOf[c]])
        \/ To(c, "shared") \/ To(c, "execute") \/ RemoteFails(c, "execute")
    BY <1>6 DEF lookupEntry, lookupShared, Local
  <2>3. lent[hostOf[c]] \in Seq(Objects)
    BY <1>0
  <2> QED
    BY <1>0, <2>1, <2>2, <2>3, <1>4
<1>7. CASE getObject(c) \/ served(c)
  <2>1. CASE t.todo # <<>> /\ tier' = [tier EXCEPT ![c].todo = Tail(@)] /\ t.at = "fetch"
    <3>1. Tail(t.todo) \in Seq(Objects)
      BY <1>0, <2>1, RefsOfTail
    <3>2. tier' = [tier EXCEPT ![c].todo = Tail(t.todo)]
      BY <2>1 DEF t
    <3>3. TierMoves(c, "fetch", t.off, Tail(t.todo), t.next)
      BY <1>0, <2>1, <3>1, <3>2, TierRowMoves DEF t
    <3> QED
      BY <3>3, <1>3
  <2>2. \/ t.todo # <<>> /\ tier' = [tier EXCEPT ![c].todo = Tail(@)] /\ t.at = "fetch"
        \/ To(c, "warm") \/ To(c, "execute") \/ RemoteFails(c, "execute")
    BY <1>7 DEF getObject, served, Does, t
  <2> QED
    BY <2>1, <2>2, <1>4
<1>8. CASE executeStep(c)
  <2>1. tier' = [tier EXCEPT ![c].at = "put", ![c].todo = Products(c), ![c].next = "save"]
    BY <1>8 DEF executeStep
  <2>2. "put" \in TierAts /\ "save" \in Reasons
    BY DEF TierAts, Reasons
  <2>3. TierMoves(c, "put", t.off, Products(c), "save")
    BY <1>0, <2>1, <2>2, TierRowMoves DEF t
  <2>4. SentIs(c, "put", t.off, Products(c), "save", robj)
    BY DEF SentIs
  <2> QED
    BY <2>3, <2>4
<1>9. CASE putLocal(c)
  <2>1. t.at = "put" /\ t.todo # <<>> /\ To(c, "upload") /\ "upload" \in TierAts
    BY <1>9 DEF putLocal, Does, t, TierAts
  <2>2. TierMoves(c, "upload", t.off, t.todo, t.next)
    BY <1>0, <2>1, TierRowMoves DEF To, t
  <2>3. SentIs(c, "upload", t.off, t.todo, t.next, robj)
    BY <1>0, <2>1 DEF Sent, SentIs, t
  <2> QED
    BY <2>2, <2>3
<1>10. CASE isStored(c)
  <2>1. t.at = "put" /\ t.todo = <<>> /\ To(c, t.next)
    BY <1>10 DEF isStored, Does, t
  <2>2. t.next \in {"save", "adopt"}
    BY <1>0, <2>1 DEF Sent, SentIs, Reasons, t
  <2>3. TierMoves(c, t.next, t.off, t.todo, t.next)
    BY <1>0, <2>1, <2>2, TierRowMoves DEF To, t, TierAts
  <2>4. RefsOf(t.todo) = {}
    BY <2>1 DEF RefsOf
  <2>5. SentIs(c, t.next, t.off, t.todo, t.next, robj)
    BY <1>0, <2>1, <2>2, <2>4 DEF Sent, SentIs, t
  <2> QED
    BY <2>3, <2>5
<1>11. CASE saveEntry(c)
  <2>1. t.at = "save" /\ (To(c, "warm") \/ (To(c, "publish") /\ ~t.off /\ c \notin ReadOnlyClients))
    BY <1>11 DEF saveEntry, Does, stillLive, t
  <2>2. CASE To(c, "publish") /\ ~t.off /\ c \notin ReadOnlyClients
    <3>1. TierMoves(c, "publish", t.off, t.todo, t.next)
      BY <1>0, <2>2, TierRowMoves DEF To, t, TierAts
    <3>2. SentIs(c, "publish", t.off, t.todo, t.next, robj)
      BY <1>0, <2>1, <2>2 DEF Sent, SentIs, t
    <3> QED
      BY <3>1, <3>2
  <2> QED
    BY <2>1, <2>2, <1>4
<1>12. CASE saveWarm(c)
  <2>1. CASE tier' = [tier EXCEPT ![c].at = "put", ![c].todo = <<Warm(c)>>, ![c].next = "adopt"]
    <3>1. "put" \in TierAts /\ "adopt" \in Reasons
      BY DEF TierAts, Reasons
    <3>2. TierMoves(c, "put", t.off, <<Warm(c)>>, "adopt")
      BY <1>0, <2>1, <3>1, TierRowMoves DEF t
    <3>3. SentIs(c, "put", t.off, <<Warm(c)>>, "adopt", robj)
      BY DEF SentIs
    <3> QED
      BY <3>2, <3>3
  <2>2. \/ tier' = [tier EXCEPT ![c].at = "put", ![c].todo = <<Warm(c)>>, ![c].next = "adopt"]
        \/ To(c, "end") \/ To(c, "point")
    BY <1>12 DEF saveWarm
  <2> QED
    BY <2>1, <2>2, <1>4
<1>13. CASE adoptWarm(c) \/ lookupWarm(c) \/ headWarm(c) \/ writeWarm(c)
  <2>1. To(c, "point") \/ To(c, "head") \/ To(c, "end") \/ To(c, "write") \/ RemoteFails(c, "end")
    BY <1>13 DEF adoptWarm, lookupWarm, headWarm, writeWarm
  <2> QED
    BY <2>1, <1>4
<1> QED
  BY <1>5, <1>6, <1>7, <1>8, <1>9, <1>10, <1>11, <1>12, <1>13

\* An object on its way to the store: it is there already, it gets there, or the
\* remote tier is off for the run.
LEMMA TierWrites ==
  ASSUME TierKept, NEW c \in Clients, askObject(c) \/ sendObject(c) \/ publishEntry(c)
  PROVE  TierKept'
<1> DEFINE t == tier[c]
<1>0. /\ tier \in [Clients -> TierRec] /\ t \in TierRec /\ Sent(c)
      /\ t.at \in TierAts /\ t.todo \in Seq(Objects) /\ t.next \in Reasons
      /\ lent \in [HostSet -> Seq(Objects)] /\ rent \in Seq(Objects) /\ robj \subseteq rblob
      /\ lent' = lent /\ hostOf' = hostOf
  BY DEF TierKept, TierTypes, TierRec, SharedEntriesResolve, askObject, sendObject, publishEntry
<1> HIDE DEF Objects, t
<1>1. ASSUME t.at \in {"upload", "send"},
             \/ tier' = disable(NextPut(c), c)
             \/ tier' = NextPut(c) /\ (t.off \/ c \in ReadOnlyClients \/ Head(t.todo) \in robj'),
             robj \subseteq robj', robj' \subseteq rblob', rent' = rent
      PROVE  TierKept'
  <2>1. t.todo # <<>>
    BY <1>0, <1>1 DEF Sent, SentIs, t
  <2>2. Tail(t.todo) \in Seq(Objects) /\ RefsOf(t.todo) \subseteq {Head(t.todo)} \cup RefsOf(Tail(t.todo))
    BY <1>0, <2>1, RefsOfTail
  <2>3. NextPut(c) = [tier EXCEPT ![c].todo = Tail(t.todo), ![c].at = "put"] /\ "put" \in TierAts
    BY DEF NextPut, t, TierAts
  <2>4. t.next # "none" /\ (~t.off /\ c \notin ReadOnlyClients /\ t.next = "save"
                              => RefsOf(Products(c)) \ RefsOf(t.todo) \subseteq robj)
    BY <1>0, <1>1 DEF Sent, SentIs, t
  <2>5. CASE tier' = NextPut(c) /\ (t.off \/ c \in ReadOnlyClients \/ Head(t.todo) \in robj')
    <3>1. TierMoves(c, "put", t.off, Tail(t.todo), t.next)
      BY <1>0, <2>2, <2>3, <2>5, TierRowMoves DEF t
    <3>2. SentIs(c, "put", t.off, Tail(t.todo), t.next, robj')
      BY <1>1, <2>2, <2>4, <2>5 DEF SentIs
    <3> QED
      BY <1>0, <1>1, <3>1, <3>2, TierMoved
  <2>6. CASE tier' = disable(NextPut(c), c)
    <3>1. TierMoves(c, "put", TRUE, Tail(t.todo), t.next)
      BY <1>0, <2>2, <2>3, <2>6, TierRowMoves DEF t
    <3>2. SentIs(c, "put", TRUE, Tail(t.todo), t.next, robj')
      BY <2>4 DEF SentIs
    <3> QED
      BY <1>0, <1>1, <3>1, <3>2, TierMoved
  <2> QED
    BY <1>1, <2>5, <2>6
<1>2. CASE askObject(c)
  <2>1. t.at = "upload" /\ UNCHANGED <<robj, rblob, rent>>
    BY <1>2 DEF askObject, Does, t
  <2>2. CASE To(c, "send")
    <3>1. TierMoves(c, "send", t.off, t.todo, t.next)
      BY <1>0, <2>2, TierRowMoves DEF To, t, TierAts
    <3>2. SentIs(c, "send", t.off, t.todo, t.next, robj')
      BY <1>0, <2>1 DEF Sent, SentIs, t
    <3> QED
      BY <1>0, <2>1, <3>1, <3>2, TierMoved
  <2>3. \/ To(c, "send") \/ tier' = disable(NextPut(c), c)
        \/ tier' = NextPut(c) /\ (t.off \/ c \in ReadOnlyClients \/ Head(t.todo) \in robj)
    BY <1>2 DEF askObject, stillLive, t
  <2>4. CASE tier' = NextPut(c) /\ (t.off \/ c \in ReadOnlyClients \/ Head(t.todo) \in robj)
    BY <2>4, <1>0, <1>1, <2>1
  <2>5. CASE tier' = disable(NextPut(c), c)
    BY <2>5, <1>0, <1>1, <2>1
  <2> QED
    BY <2>2, <2>3, <2>4, <2>5
<1>3. CASE sendObject(c)
  <2>1. t.at = "send" /\ UNCHANGED <<rent>>
    BY <1>3 DEF sendObject, Does, t
  <2>2. CASE robj' = robj \cup {Head(t.todo)} /\ rblob' = rblob \cup {Head(t.todo)} /\ tier' = NextPut(c)
    BY <2>2, <1>0, <1>1, <2>1
  <2>3. CASE robj' = robj /\ tier' = tier /\ rblob \subseteq rblob'
    <3>1. TierMoves(c, t.at, t.off, t.todo, t.next)
      BY <1>0, <2>3 DEF TierMoves, t
    <3>2. SentIs(c, t.at, t.off, t.todo, t.next, robj')
      BY <1>0, <2>3 DEF Sent, t
    <3> QED
      BY <1>0, <2>1, <2>3, <3>1, <3>2, TierMoved
  <2>4. CASE tier' = disable(NextPut(c), c) /\ UNCHANGED <<robj, rblob>>
    BY <2>4, <1>0, <1>1, <2>1
  <2> QED
    BY <1>3, <2>2, <2>3, <2>4 DEF sendObject, t
<1>4. CASE publishEntry(c)
  <2>1. t.at = "publish" /\ UNCHANGED <<robj, rblob>>
        /\ ((rent' = Products(c) /\ To(c, "warm")) \/ (RemoteFails(c, "warm") /\ rent' = rent))
    BY <1>4 DEF publishEntry, Does, t
  <2>2. RefsOf(Products(c)) \subseteq robj
    BY <1>0, <2>1 DEF Sent, SentIs, t
  <2>3. TierMoves(c, "warm", t.off, t.todo, t.next) \/ TierMoves(c, "warm", TRUE, t.todo, t.next)
    BY <1>0, <2>1, TierRowMoves DEF To, RemoteFails, t, TierAts
  <2>4. \A o : SentIs(c, "warm", o, t.todo, t.next, robj')
    BY DEF SentIs
  <2> QED
    BY <1>0, <2>1, <2>2, <2>3, <2>4, TierMoved
<1> QED
  BY <1>2, <1>3, <1>4

\* The inductive invariant of the shared cache holds.
LEMMA TierHolds == TierSpec => []TierKept
<1>1. TierInit => TierKept
  <2> SUFFICES ASSUME TierInit PROVE TierKept
    OBVIOUS
  <2>1. <<>> \in Seq(Objects) /\ FALSE \in Flags /\ "scratch" \in TierAts /\ "none" \in Reasons
    BY DEF Flags, TierAts, Reasons
  <2>2. TierTypes
    BY <2>1 DEF TierInit, TierTypes, TierRec, NoOne
  <2>3. ASSUME NEW c \in Clients PROVE Sent(c)
    BY <2>3 DEF TierInit, Sent, SentIs
  <2>4. SharedEntriesResolve
    BY DEF TierInit, SharedEntriesResolve, NoOne
  <2> QED
    BY <2>2, <2>3, <2>4 DEF TierKept
<1>2. TierKept /\ [TierNext]_tierVars => TierKept'
  <2> SUFFICES ASSUME TierKept, [TierNext]_tierVars PROVE TierKept'
    OBVIOUS
  <2>1. CASE UNCHANGED tierVars
    BY <2>1 DEF tierVars, TierKept, TierTypes, Sent, SentIs, SharedEntriesResolve, HostSet, RefsOf
  <2>2. ASSUME NEW c \in Clients, TierStep(c) PROVE TierKept'
    BY <2>2, TierReads, TierWrites DEF TierStep
  <2> QED
    BY <2>1, <2>2 DEF TierNext, TierDone
<1> QED
  BY <1>1, <1>2, PTL DEF TierSpec
-----------------------------------------------------------------------------
(* Pushing to a registry or a bucket.                                      *)

PushAts == {"has", "session", "upload", "ensure", "ensured", "manifest", "put", "ok", "fail"}
GivenUp == {"denied", "exhausted", "cancelled"}
PushRec == [at : PushAts, blob : Blobs, session : Nat, tries : Nat, why : GivenUp \cup {""}]
RegistryTypes ==
  /\ push \in [Pushers -> PushRec]
  /\ blobAt \in [Blobs -> {"absent", "committing", "held"}]
  /\ shelf \in {"registry", "bucket"} /\ tagged \in Flags /\ inBucket \in Flags

\* Sessions are numbered in the order of their opening, one state each.
SessionsNumbered(S) ==
  /\ IsFiniteSet(S) /\ S \subseteq (Nat \X {"open", "taken"})
  /\ \A x \in S : x[1] \in 1..Cardinality(S)
  /\ \A x, y \in S : x[1] = y[1] => x = y

\* Whoever is about to send bytes has a session nobody else sends to.
OwnSession(P, S) ==
  /\ \A p \in Pushers : P[p].at = "upload" => <<P[p].session, "open">> \in S
  /\ \A p, q \in Pushers : P[p].at = "upload" /\ P[q].at = "upload" /\ P[p].session = P[q].session => p = q

\* What a pusher at a place has behind it.
PushIs(a, w, bucket, manifest) ==
  /\ a = "fail" => w \in GivenUp
  /\ shelf = "bucket" => a \in {"put", "ok", "fail"}
  /\ a = "put" => shelf = "bucket"
  /\ a = "ok" /\ shelf = "bucket" => bucket
  /\ a = "ok" /\ shelf # "bucket" => manifest

RegistryKept ==
  /\ RegistryTypes /\ SessionsNumbered(sessions) /\ OwnSession(push, sessions)
  /\ \A p \in Pushers : PushIs(push[p].at, push[p].why, inBucket, tagged)
  /\ tagged => \A b \in Blobs : blobAt[b] = "held"
  /\ ~misused

\* A pusher goes to a, with the reason w and the session ss.
PusherGoes(p, a, w, ss) ==
  /\ push' \in [Pushers -> PushRec]
  /\ \A q \in Pushers \ {p} : push'[q] = push[q]
  /\ push'[p].at = a /\ push'[p].why = w /\ push'[p].session = ss

\* The updates of a pusher, field by field.
LEMMA PusherMoves ==
  ASSUME push \in [Pushers -> PushRec], NEW p \in Pushers, NEW a \in PushAts, NEW w \in GivenUp, NEW n \in Nat,
         NEW b \in Blobs
  PROVE  /\ push' = [push EXCEPT ![p].at = a] => PusherGoes(p, a, push[p].why, push[p].session)
         /\ push' = [push EXCEPT ![p].at = a, ![p].why = w] => PusherGoes(p, a, w, push[p].session)
         /\ push' = [push EXCEPT ![p].at = a, ![p].tries = n] => PusherGoes(p, a, push[p].why, push[p].session)
         /\ push' = [push EXCEPT ![p].at = a, ![p].session = n] => PusherGoes(p, a, push[p].why, n)
         /\ push' = [push EXCEPT ![p].at = a, ![p].blob = b, ![p].tries = n]
               => PusherGoes(p, a, push[p].why, push[p].session)
<1> DEFINE t == push[p]
           t1 == [t EXCEPT !.at = a]
           t2 == [t1 EXCEPT !.why = w]
           t3 == [t1 EXCEPT !.tries = n]
           t4 == [t1 EXCEPT !.session = n]
           t5 == [t1 EXCEPT !.blob = b]
           t6 == [t5 EXCEPT !.tries = n]
<1>0. t \in PushRec
  OBVIOUS
<1> HIDE DEF t
<1>1. t1 \in PushRec /\ t1.at = a /\ t1.why = t.why /\ t1.session = t.session
  BY <1>0 DEF PushRec
<1> HIDE DEF t1
<1>2. t2 \in PushRec /\ t2.at = t1.at /\ t2.why = w /\ t2.session = t1.session
  BY <1>1 DEF PushRec
<1>3. t3 \in PushRec /\ t3.at = t1.at /\ t3.why = t1.why /\ t3.session = t1.session
  BY <1>1 DEF PushRec
<1>4. t4 \in PushRec /\ t4.at = t1.at /\ t4.why = t1.why /\ t4.session = n
  BY <1>1 DEF PushRec
<1>5. t5 \in PushRec /\ t5.at = t1.at /\ t5.why = t1.why /\ t5.session = t1.session
  BY <1>1 DEF PushRec
<1> HIDE DEF t5
<1>6. t6 \in PushRec /\ t6.at = t5.at /\ t6.why = t5.why /\ t6.session = t5.session
  BY <1>5 DEF PushRec
<1> HIDE DEF t2, t3, t4, t6
<1>7. ASSUME NEW r \in PushRec, push' = [push EXCEPT ![p] = r]
      PROVE  PusherGoes(p, r.at, r.why, r.session)
  BY <1>7 DEF PusherGoes
<1>8. push' = [push EXCEPT ![p].at = a] => push' = [push EXCEPT ![p] = t1]
  BY DEF t, t1
<1>9. push' = [push EXCEPT ![p].at = a, ![p].why = w] => push' = [push EXCEPT ![p] = t2]
  BY DEF t, t1, t2
<1>10. push' = [push EXCEPT ![p].at = a, ![p].tries = n] => push' = [push EXCEPT ![p] = t3]
  BY DEF t, t1, t3
<1>11. push' = [push EXCEPT ![p].at = a, ![p].session = n] => push' = [push EXCEPT ![p] = t4]
  BY DEF t, t1, t4
<1>12. push' = [push EXCEPT ![p].at = a, ![p].blob = b, ![p].tries = n] => push' = [push EXCEPT ![p] = t6]
  BY DEF t, t1, t5, t6
<1>13. PusherGoes(p, t1.at, t1.why, t1.session) => PusherGoes(p, a, push[p].why, push[p].session)
  BY <1>1 DEF t
<1>14. PusherGoes(p, t2.at, t2.why, t2.session) => PusherGoes(p, a, w, push[p].session)
  BY <1>1, <1>2 DEF t
<1>15. PusherGoes(p, t3.at, t3.why, t3.session) => PusherGoes(p, a, push[p].why, push[p].session)
  BY <1>1, <1>3 DEF t
<1>16. PusherGoes(p, t4.at, t4.why, t4.session) => PusherGoes(p, a, push[p].why, n)
  BY <1>1, <1>4 DEF t
<1>17. PusherGoes(p, t6.at, t6.why, t6.session) => PusherGoes(p, a, push[p].why, push[p].session)
  BY <1>1, <1>5, <1>6 DEF t
<1> QED
  BY <1>1, <1>2, <1>3, <1>4, <1>6, <1>7, <1>8, <1>9, <1>10, <1>11, <1>12, <1>13, <1>14, <1>15, <1>16, <1>17

\* What a step of pusher p may make of the store.
StoreGrows(p) ==
  /\ shelf' = shelf /\ tagged' \in Flags /\ inBucket' \in Flags
  /\ blobAt' \in [Blobs -> {"absent", "committing", "held"}]
  /\ tagged => tagged'
  /\ inBucket => inBucket'
  /\ tagged' => \A b \in Blobs : blobAt'[b] = "held"
  /\ ~misused'
  /\ SessionsNumbered(sessions')
  /\ \A q \in Pushers \ {p} : push[q].at = "upload" => <<push[q].session, "open">> \in sessions'

\* The store grows and one pusher moves.
LEMMA RegistryMoved ==
  ASSUME RegistryKept, NEW p \in Pushers, NEW a, NEW w, NEW ss, PusherGoes(p, a, w, ss), StoreGrows(p),
         PushIs(a, w, inBucket', tagged'),
         a = "upload" => /\ <<ss, "open">> \in sessions'
                         /\ \A q \in Pushers \ {p} : push[q].at = "upload" => push[q].session # ss
  PROVE  RegistryKept'
<1>1. RegistryTypes'
  BY DEF RegistryTypes, RegistryKept, StoreGrows, PusherGoes
<1>2. OwnSession(push, sessions)'
  <2>1. ASSUME NEW q \in Pushers, push'[q].at = "upload" PROVE <<push'[q].session, "open">> \in sessions'
    BY <2>1 DEF PusherGoes, StoreGrows
  <2>2. ASSUME NEW q \in Pushers, NEW r \in Pushers, push'[q].at = "upload", push'[r].at = "upload",
               push'[q].session = push'[r].session
        PROVE  q = r
    BY <2>2 DEF PusherGoes, RegistryKept, OwnSession
  <2> QED
    BY <2>1, <2>2 DEF OwnSession
<1>3. ASSUME NEW q \in Pushers PROVE PushIs(push[q].at, push[q].why, inBucket, tagged)'
  <2>1. CASE q = p
    BY <2>1 DEF PusherGoes, PushIs, StoreGrows
  <2>2. CASE q # p
    <3>1. PushIs(push[q].at, push[q].why, inBucket, tagged) /\ push'[q] = push[q]
      BY <2>2 DEF RegistryKept, PusherGoes
    <3> QED
      BY <3>1 DEF PushIs, StoreGrows
  <2> QED
    BY <2>1, <2>2
<1> QED
  BY <1>1, <1>2, <1>3 DEF RegistryKept, StoreGrows

\* A store that is left alone, and one in which only the collector moved.
LEMMA StoreLeft ==
  ASSUME RegistryKept, NEW p, shelf' = shelf, UNCHANGED serverVars
  PROVE  StoreGrows(p)
<1>1. UNCHANGED <<blobAt, tagged, inBucket, sessions, misused>>
  BY DEF serverVars
<1> QED
  BY <1>1 DEF StoreGrows, RegistryKept, RegistryTypes, SessionsNumbered, OwnSession

\* An attempt that failed: the pusher begins the request, or the whole upload,
\* again, or gives up for a reason of its own.
LEMMA AttemptFails ==
  ASSUME RegistryKept, NEW p \in Pushers, push[p].at \notin {"ok", "fail"}, StoreGrows(p),
         NEW why \in {"transport", "busy", "denied", "cancelled", "raced"}, failed(p, why)
  PROVE  RegistryKept'
<1> DEFINE t == push[p]
<1>0. /\ push \in [Pushers -> PushRec] /\ t \in PushRec /\ PushIs(t.at, t.why, inBucket, tagged)
      /\ t.at \in PushAts /\ t.tries \in Nat
  BY DEF RegistryKept, RegistryTypes, PushRec
<1>5. /\ t.tries + 1 \in Nat /\ "fail" \in PushAts /\ "exhausted" \in GivenUp /\ "object" \in Blobs
      /\ shelf' = shelf
  BY <1>0 DEF StoreGrows, PushAts, GivenUp, Blobs
<1> HIDE DEF t
<1>1. CASE push' = [push EXCEPT ![p].at = FromTheTop(t.at), ![p].tries = t.tries + 1]
  <2>1. FromTheTop(t.at) \in PushAts /\ FromTheTop(t.at) \notin {"upload", "ok", "fail"}
    BY <1>0 DEF FromTheTop, PushAts, t
  <2>2. PusherGoes(p, FromTheTop(t.at), t.why, t.session)
    BY <1>0, <1>5, <1>1, <2>1, PusherMoves DEF t
  <2>3. PushIs(FromTheTop(t.at), t.why, inBucket', tagged')
    BY <1>0, <1>5, <2>1 DEF PushIs, FromTheTop
  <2> QED
    BY <2>1, <2>2, <2>3, RegistryMoved
<1>2. ASSUME NEW w \in GivenUp, push' = [push EXCEPT ![p].at = "fail", ![p].why = w]
      PROVE  RegistryKept'
  <2>1. PusherGoes(p, "fail", w, t.session)
    BY <1>0, <1>5, <1>2, PusherMoves DEF t
  <2>2. PushIs("fail", w, inBucket', tagged')
    BY DEF PushIs
  <2> QED
    BY <2>1, <2>2, RegistryMoved
<1>3. \/ push' = [push EXCEPT ![p].at = FromTheTop(t.at), ![p].tries = t.tries + 1]
      \/ push' = [push EXCEPT ![p].at = "fail", ![p].why = "exhausted"]
      \/ push' = [push EXCEPT ![p].at = "fail", ![p].why = why] /\ why \in GivenUp
  BY DEF failed, again, retryable, t, GivenUp
<1> QED
  BY <1>5, <1>1, <1>2, <1>3

\* A session that is opened has the next number.
LEMMA SessionOpens ==
  ASSUME NEW S, SessionsNumbered(S)
  PROVE  /\ Cardinality(S) + 1 \in Nat
         /\ \A x \in S : x[1] # Cardinality(S) + 1
         /\ SessionsNumbered(S \cup {<<Cardinality(S) + 1, "open">>})
<1> DEFINE n == Cardinality(S)
           e == <<n + 1, "open">>
           T == S \cup {e}
<1>1. n \in Nat /\ IsFiniteSet(S)
  BY FS_CardinalityType DEF SessionsNumbered
<1>2. \A x \in S : x[1] \in 1..n
  BY DEF SessionsNumbered
<1>3. \A x \in S : x[1] # n + 1
  BY <1>1, <1>2
<1>4. e \notin S
  BY <1>3
<1>5. IsFiniteSet(T) /\ Cardinality(T) = n + 1
  BY <1>1, <1>4, FS_AddElement
<1>6. T \subseteq (Nat \X {"open", "taken"})
  BY <1>1 DEF SessionsNumbered
<1>7. \A x \in T : x[1] \in 1..(n + 1)
  BY <1>1, <1>2
<1>8. \A x, y \in T : x[1] = y[1] => x = y
  BY <1>3 DEF SessionsNumbered
<1> HIDE DEF T, n
<1>9. SessionsNumbered(T)
  BY <1>5, <1>6, <1>7, <1>8 DEF SessionsNumbered
<1> QED
  BY <1>1, <1>3, <1>9 DEF T, n

\* A session that takes its bytes keeps its number.
LEMMA SessionTakes ==
  ASSUME NEW S, SessionsNumbered(S), NEW i, <<i, "open">> \in S
  PROVE  SessionsNumbered((S \ {<<i, "open">>}) \cup {<<i, "taken">>})
<1> DEFINE n == Cardinality(S)
           R == S \ {<<i, "open">>}
           T == R \cup {<<i, "taken">>}
<1>1. n \in Nat /\ IsFiniteSet(S) /\ i \in 1..n /\ i \in Nat
  BY FS_CardinalityType DEF SessionsNumbered
<1>2. IsFiniteSet(R) /\ Cardinality(R) = n - 1
  BY <1>1, FS_RemoveElement
<1>3. \A x \in R : x[1] # i
  <2>1. ASSUME NEW x \in R, x[1] = i PROVE FALSE
    <3>1. x \in S /\ x # <<i, "open">>
      OBVIOUS
    <3>2. <<i, "open">>[1] = i
      OBVIOUS
    <3> QED
      BY <2>1, <3>1, <3>2 DEF SessionsNumbered
  <2> QED
    BY <2>1
<1>4. <<i, "taken">> \notin R
  BY <1>3
<1>5. IsFiniteSet(T) /\ Cardinality(T) = Cardinality(R) + 1
  BY <1>2, <1>4, FS_AddElement
<1>6. Cardinality(T) = n
  BY <1>1, <1>2, <1>5
<1>7. T \subseteq (Nat \X {"open", "taken"})
  BY <1>1 DEF SessionsNumbered
<1>8. \A x \in T : x[1] \in 1..n
  BY <1>1 DEF SessionsNumbered
<1>9. \A x, y \in T : x[1] = y[1] => x = y
  BY <1>3 DEF SessionsNumbered
<1> HIDE DEF T, n
<1>10. SessionsNumbered(T)
  BY <1>5, <1>6, <1>7, <1>8, <1>9 DEF SessionsNumbered
<1> QED
  BY <1>10 DEF T

\* The requests of a push, each with its answer or without.
LEMMA PusherActs ==
  ASSUME RegistryKept, NEW p \in Pushers, PushStep(p)
  PROVE  RegistryKept'
<1> DEFINE t == push[p]
<1>0. /\ push \in [Pushers -> PushRec] /\ t \in PushRec /\ PushIs(t.at, t.why, inBucket, tagged)
      /\ t.at \in PushAts /\ t.session \in Nat /\ t.blob \in Blobs
      /\ SessionsNumbered(sessions) /\ OwnSession(push, sessions) /\ ~misused /\ shelf \in {"registry", "bucket"}
  BY DEF RegistryKept, RegistryTypes, PushRec
<1> HIDE DEF t
<1>1. /\ "object" \in Blobs /\ "config" \in Blobs /\ "fail" \in PushAts /\ "ok" \in PushAts /\ 1 \in Nat
      /\ "denied" \in GivenUp /\ {"ensure", "session", "upload", "ensured", "manifest"} \subseteq PushAts
  BY DEF Blobs, PushAts, GivenUp
\* A step within the push: it is no upload that begins and no end.
<1>2. ASSUME StoreGrows(p), NEW a \in {"ensure", "session", "ensured", "manifest"}, shelf = "registry",
             PusherGoes(p, a, t.why, t.session)
      PROVE  RegistryKept'
  <2>1. PushIs(a, t.why, inBucket', tagged')
    BY <1>2 DEF PushIs
  <2> QED
    BY <1>2, <2>1, RegistryMoved
<1>3. t.at \notin {"put", "ok", "fail"} => shelf = "registry"
  BY <1>0 DEF PushIs
<1>4. CASE hasBlob(p)
  <2>1. t.at = "has" /\ shelf' = shelf /\ UNCHANGED serverVars
    BY <1>4 DEF hasBlob, t
  <2>2. StoreGrows(p)
    BY <2>1, StoreLeft
  <2>3. failed(p, "transport") \/ Onward(p, "ensure") \/ Onward(p, "session")
    BY <1>4 DEF hasBlob, answerComes
  <2>4. ASSUME NEW a \in {"ensure", "session"}, Onward(p, a) PROVE RegistryKept'
    <3>1. PusherGoes(p, a, t.why, t.session)
      BY <1>0, <1>1, <2>4, PusherMoves DEF Onward, t
    <3> QED
      BY <1>2, <1>3, <2>1, <2>2, <2>4, <3>1
  <2> QED
    BY <2>1, <2>2, <2>3, <2>4, AttemptFails DEF t
<1>5. CASE startUpload(p)
  <2> DEFINE id == Cardinality(sessions) + 1
  <2>1. /\ t.at = "session" /\ sessions' = sessions \cup {<<id, "open">>}
        /\ UNCHANGED <<shelf, blobAt, tagged, inBucket, misused>>
    BY <1>5 DEF startUpload, t
  <2>2. id \in Nat /\ (\A x \in sessions : x[1] # id) /\ SessionsNumbered(sessions')
    BY <1>0, <2>1, SessionOpens
  <2> HIDE DEF id
  <2>3. StoreGrows(p)
    BY <2>1, <2>2, <1>0 DEF StoreGrows, RegistryKept, RegistryTypes, OwnSession
  <2>4. failed(p, "transport") \/ push' = [push EXCEPT ![p].at = "upload", ![p].session = id]
    BY <1>5 DEF startUpload, answerComes, id
  <2>5. CASE push' = [push EXCEPT ![p].at = "upload", ![p].session = id]
    <3>1. PusherGoes(p, "upload", t.why, id)
      BY <1>0, <1>1, <2>2, <2>5, PusherMoves DEF t
    <3>2. PushIs("upload", t.why, inBucket', tagged')
      BY <1>3, <2>1 DEF PushIs
    <3>3. ASSUME NEW q \in Pushers \ {p}, push[q].at = "upload" PROVE push[q].session # id
      <4>1. <<push[q].session, "open">> \in sessions
        BY <1>0, <3>3 DEF OwnSession
      <4> QED
        BY <4>1, <2>2
    <3>4. <<id, "open">> \in sessions'
      BY <2>1
    <3> QED
      BY <2>3, <3>1, <3>2, <3>3, <3>4, RegistryMoved
  <2> QED
    BY <2>1, <2>3, <2>4, <2>5, AttemptFails DEF t
<1>6. CASE putBlob(p)
  <2> DEFINE id == t.session
             b == t.blob
  <2>1. t.at = "upload" /\ UNCHANGED <<shelf, tagged, inBucket>>
    BY <1>6 DEF putBlob, t
  <2>2. <<id, "open">> \in sessions
    BY <1>0, <2>1 DEF OwnSession, t
  <2>3. /\ sessions' = (sessions \ {<<id, "open">>}) \cup {<<id, "taken">>}
        /\ misused' = (misused \/ <<id, "open">> \notin sessions)
        /\ blobAt' = [blobAt EXCEPT ![b] = IF @ = "absent" THEN "committing" ELSE @]
        /\ answerComes(p, Onward(p, IF b = "object" THEN "ensure" ELSE "ensured"))
    BY <1>6, <2>2 DEF putBlob, t
  <2>4. SessionsNumbered(sessions') /\ ~misused'
    BY <1>0, <2>2, <2>3, SessionTakes
  <2>5. ASSUME NEW q \in Pushers \ {p}, push[q].at = "upload" PROVE <<push[q].session, "open">> \in sessions'
    <3>1. <<push[q].session, "open">> \in sessions /\ push[q].session # id
      BY <1>0, <2>1, <2>5 DEF OwnSession, t
    <3> QED
      BY <2>3, <3>1
  <2>6. /\ blobAt' \in [Blobs -> {"absent", "committing", "held"}]
        /\ \A x \in Blobs : blobAt[x] = "held" => blobAt'[x] = "held"
    BY <1>0, <2>3 DEF RegistryKept, RegistryTypes
  <2>7. StoreGrows(p)
    BY <2>1, <2>4, <2>5, <2>6 DEF StoreGrows, RegistryKept, RegistryTypes
  <2>8. ASSUME NEW a \in {"ensure", "ensured"}, Onward(p, a) PROVE RegistryKept'
    <3>1. PusherGoes(p, a, t.why, t.session)
      BY <1>0, <1>1, <2>8, PusherMoves DEF Onward, t
    <3> QED
      BY <1>2, <1>3, <2>1, <2>7, <2>8, <3>1
  <2>9. failed(p, "transport") \/ Onward(p, "ensure") \/ Onward(p, "ensured")
    BY <2>3 DEF answerComes
  <2> QED
    BY <2>1, <2>7, <2>8, <2>9, AttemptFails DEF t
<1>7. CASE putChallenged(p) \/ TokenExpires(p)
  <2>1. push' = push /\ shelf' = shelf /\ UNCHANGED serverVars
    BY <1>7 DEF putChallenged, TokenExpires
  <2>2. UNCHANGED <<blobAt, tagged, inBucket, sessions, misused>>
    BY <2>1 DEF serverVars
  <2> QED
    BY <2>1, <2>2 DEF RegistryKept, RegistryTypes, OwnSession, PushIs, SessionsNumbered
<1>8. CASE ensureConfig(p) \/ ensured(p)
  <2>1. t.at \in {"ensure", "ensured"} /\ shelf' = shelf /\ UNCHANGED serverVars
    BY <1>8 DEF ensureConfig, ensured, t
  <2>2. StoreGrows(p)
    BY <2>1, StoreLeft
  <2>3. CASE Onward(p, "manifest")
    <3>1. PusherGoes(p, "manifest", t.why, t.session)
      BY <1>0, <1>1, <2>3, PusherMoves DEF Onward, t
    <3> QED
      BY <1>2, <1>3, <2>1, <2>2, <3>1
  <2>4. CASE push' = [push EXCEPT ![p].at = "session", ![p].blob = "config", ![p].tries = 1]
    <3>1. PusherGoes(p, "session", t.why, t.session)
      BY <1>0, <1>1, <2>4, PusherMoves DEF t
    <3> QED
      BY <1>2, <1>3, <2>1, <2>2, <3>1
  <2> QED
    BY <1>8, <2>3, <2>4 DEF ensureConfig, ensured
<1>9. CASE putManifest(p)
  <2>1. t.at = "manifest" /\ UNCHANGED <<shelf, blobAt, inBucket, sessions, misused>>
    BY <1>9 DEF putManifest, t
  <2>2. CASE (\A b \in Blobs : blobAt[b] = "held") /\ tagged' = TRUE /\ answerComes(p, Goes(p, "ok"))
    <3>1. StoreGrows(p)
      BY <1>0, <2>1, <2>2 DEF StoreGrows, RegistryKept, RegistryTypes, OwnSession, Flags
    <3>2. CASE Goes(p, "ok")
      <4>1. PusherGoes(p, "ok", t.why, t.session)
        BY <1>0, <1>1, <3>2, PusherMoves DEF Goes, t
      <4>2. PushIs("ok", t.why, inBucket', tagged')
        BY <1>3, <2>1, <2>2 DEF PushIs
      <4> QED
        BY <3>1, <4>1, <4>2, RegistryMoved
    <3> QED
      BY <2>1, <2>2, <3>1, <3>2, AttemptFails DEF answerComes, t
  <2>3. CASE failed(p, "raced") /\ UNCHANGED tagged
    <3>1. StoreGrows(p)
      BY <2>1, <2>3, StoreLeft DEF serverVars
    <3> QED
      BY <2>1, <2>3, <3>1, AttemptFails DEF t
  <2> QED
    BY <1>9, <2>2, <2>3 DEF putManifest
<1>10. CASE putBucket(p)
  <2>1. t.at = "put" /\ inBucket' = TRUE /\ UNCHANGED <<shelf, blobAt, tagged, sessions, misused>>
    BY <1>10 DEF putBucket, t
  <2>2. shelf = "bucket"
    BY <1>0, <2>1 DEF PushIs
  <2>3. StoreGrows(p)
    BY <1>0, <2>1 DEF StoreGrows, RegistryKept, RegistryTypes, OwnSession, Flags
  <2>4. CASE Goes(p, "ok")
    <3>1. PusherGoes(p, "ok", t.why, t.session)
      BY <1>0, <1>1, <2>4, PusherMoves DEF Goes, t
    <3>2. PushIs("ok", t.why, inBucket', tagged')
      BY <2>1, <2>2 DEF PushIs
    <3> QED
      BY <2>3, <3>1, <3>2, RegistryMoved
  <2> QED
    BY <1>10, <2>1, <2>3, <2>4, AttemptFails DEF putBucket, answerComes, t
<1>11. CASE requestFails(p)
  <2>1. t.at \notin {"ok", "fail"} /\ shelf' = shelf /\ UNCHANGED serverVars
    BY <1>11 DEF requestFails, t
  <2>2. StoreGrows(p)
    BY <2>1, StoreLeft
  <2> QED
    BY <1>11, <2>1, <2>2, AttemptFails DEF requestFails, t
<1>12. CASE tokenFails(p)
  <2>1. /\ shelf = "registry" /\ shelf' = shelf /\ UNCHANGED serverVars
        /\ push' = [push EXCEPT ![p].at = "fail", ![p].why = "denied"]
    BY <1>12 DEF tokenFails
  <2>2. StoreGrows(p)
    BY <2>1, StoreLeft
  <2>3. PusherGoes(p, "fail", "denied", t.session)
    BY <1>0, <1>1, <2>1, PusherMoves DEF t
  <2>4. PushIs("fail", "denied", inBucket', tagged')
    BY <1>1, <2>1 DEF PushIs
  <2> QED
    BY <2>2, <2>3, <2>4, RegistryMoved
<1> QED
  BY <1>4, <1>5, <1>6, <1>7, <1>8, <1>9, <1>10, <1>11, <1>12 DEF PushStep

\* The inductive invariant of a push holds.
LEMMA RegistryHolds == RegistrySpec => []RegistryKept
<1>1. RegistryInit => RegistryKept
  <2> SUFFICES ASSUME RegistryInit PROVE RegistryKept
    OBVIOUS
  <2>1. RegistryTypes
    BY DEF RegistryInit, RegistryTypes, PushRec, PushAts, Blobs, Flags
  <2>2. sessions = {} /\ SessionsNumbered({})
    BY FS_EmptySet DEF RegistryInit, SessionsNumbered
  <2>3. OwnSession(push, sessions)
    BY DEF RegistryInit, OwnSession
  <2>4. ASSUME NEW p \in Pushers PROVE PushIs(push[p].at, push[p].why, inBucket, tagged)
    BY <2>4 DEF RegistryInit, PushIs
  <2> QED
    BY <2>1, <2>2, <2>3, <2>4 DEF RegistryKept, RegistryInit
<1>2. RegistryKept /\ [RegistryNext]_registryVars => RegistryKept'
  <2> SUFFICES ASSUME RegistryKept, [RegistryNext]_registryVars PROVE RegistryKept'
    OBVIOUS
  <2>1. CASE UNCHANGED registryVars
    BY <2>1 DEF registryVars, RegistryKept, RegistryTypes, OwnSession, PushIs, SessionsNumbered
  <2>2. ASSUME NEW b \in Blobs, CommitBlob(b) \/ Collect(b) PROVE RegistryKept'
    <3>1. UNCHANGED <<shelf, tagged, inBucket, sessions, push, misused>>
      BY <2>2 DEF CommitBlob, Collect
    <3>2. blobAt' \in [Blobs -> {"absent", "committing", "held"}]
      BY <2>2 DEF CommitBlob, Collect, RegistryKept, RegistryTypes
    <3>3. tagged' => \A x \in Blobs : blobAt'[x] = "held"
      BY <2>2, <3>1 DEF CommitBlob, Collect, RegistryKept, RegistryTypes
    <3> QED
      BY <3>1, <3>2, <3>3 DEF RegistryKept, RegistryTypes, OwnSession, PushIs, SessionsNumbered
  <2>3. ASSUME NEW p \in Pushers, PushStep(p) PROVE RegistryKept'
    BY <2>3, PusherActs
  <2> QED
    BY <2>1, <2>2, <2>3 DEF RegistryNext
<1> QED
  BY <1>1, <1>2, PTL DEF RegistrySpec

\* What is pushed can be read back (oci/client.go:345).
LEMMA PushIsReadBack == RegistryKept => PushedIsReadable
<1> SUFFICES ASSUME RegistryKept PROVE PushedIsReadable
  OBVIOUS
<1>1. ASSUME NEW p \in Pushers PROVE PushIs(push[p].at, push[p].why, inBucket, tagged)
  BY DEF RegistryKept
<1> QED
  BY <1>1 DEF RegistryKept, PushedIsReadable, PushIs, GivenUp
-----------------------------------------------------------------------------
(* A scratch cache.                                                        *)

Trees == SUBSET (ScSteps \cup {"warm"})
ScPlaces == {"new", "run", "read", "swap", "place", "ended"}
ScratchTypes ==
  /\ elsewhere \subseteq ScSteps /\ elsewhere \in Placements
  /\ sdir \in Trees \cup {Missing}
  /\ away \in [ScSteps -> Trees \cup {NoTree}] /\ staged \in [ScSteps -> Trees \cup {NoTree}]
  /\ spc \in [ScSteps -> ScPlaces] /\ passed \subseteq ScSteps
  /\ scratchRead \in Trees \cup {NoTree} /\ saved \in Trees \cup {NoTree}
  /\ {scratchDone, scratchRemote, scratchSwapped} \subseteq Flags

\* A tree has the work of every step that ended here and, once a tree was
\* swapped in, of a step elsewhere.
Lineage(T, far, place, swapped) ==
  /\ T \in Trees
  /\ \A s \in ScSteps \ far : place[s] = "ended" => s \in T
  /\ swapped => T \cap far # {}
LineageIn(T) == Lineage(T, elsewhere, spc, scratchSwapped)

\* Whatever tree a step works on is in the lineage, and what it brings back has
\* its own work.
Carries(s) ==
  /\ s \notin elsewhere => spc[s] \in {"new", "run", "ended"} /\ away[s] = NoTree
  /\ s \in elsewhere =>
       /\ spc[s] # "new" => scratchRemote
       /\ spc[s] \in {"run", "read", "place"} => LineageIn(away[s])
       /\ spc[s] = "read" => s \in away[s]
       /\ spc[s] \in {"swap", "place"} => handoffScratch /\ LineageIn(staged[s]) /\ s \in staged[s]

\* The coordinator's directory, when no swap has it moved away.
HomeTree ==
  /\ ~scratchDone => ~scratchSwapped /\ \A s \in ScSteps : spc[s] = "new"
  /\ scratchDone /\ (\A s \in ScSteps : spc[s] # "place") => LineageIn(sdir)

UsersInOrder == handoffScratch => \A s \in ScSteps : \A d \in ScNeeds[s] : spc[s] # "new" => spc[d] = "ended"

SavedTree ==
  /\ scratchSwapped => handoffScratch
  /\ scratchRemote => elsewhere # {}
  /\ scratchRead # NoTree => scratchRead \cap elsewhere # {}
  /\ saved # NoTree =>
       /\ ScSteps \ elsewhere \subseteq saved
       /\ scratchRemote => saved \cap elsewhere # {}
       /\ \A s \in ScSteps : spc[s] = "ended"

ScratchKept == ScratchTypes /\ (\A s \in ScSteps : Carries(s)) /\ HomeTree /\ UsersInOrder /\ SavedTree

\* The two marks are no trees.
LEMMA MarksAreNoTrees == NoTree \notin Trees /\ Missing \notin Trees /\ NoTree # Missing
BY ScratchSetting DEF Trees, NoTree, Missing

\* While a step elsewhere has the cache, nobody else has it or may get it.
LEMMA AloneElsewhere ==
  ASSUME RemoteUsersOrdered, ScratchKept, handoffScratch, NEW r \in elsewhere, spc[r] \notin {"new", "ended"},
         NEW s \in ScSteps \ {r}
  PROVE  spc[s] = "ended" \/ (spc[s] = "new" /\ r \in ScNeeds[s])
<1>1. r \in ScSteps /\ (r \in ScNeeds[s] \/ s \in ScNeeds[r])
  BY DEF RemoteUsersOrdered, ScratchKept, ScratchTypes, handoffScratch
<1>2. spc[r] # "new" => (s \in ScNeeds[r] => spc[s] = "ended")
  BY <1>1 DEF ScratchKept, UsersInOrder
<1>3. r \in ScNeeds[s] => (spc[s] # "new" => spc[r] = "ended")
  BY <1>1 DEF ScratchKept, UsersInOrder
<1> QED
  BY <1>1, <1>2, <1>3

\* A step that does not move keeps what it carries.
LEMMA CarriesOn ==
  ASSUME ScratchKept, NEW q \in ScSteps, spc'[q] = spc[q], away'[q] = away[q], staged'[q] = staged[q],
         elsewhere' = elsewhere, scratchRemote => scratchRemote',
         q \in elsewhere /\ spc[q] \notin {"new", "ended"} =>
           \A T : LineageIn(T) => Lineage(T, elsewhere, spc', scratchSwapped')
  PROVE  Carries(q)'
<1>1. Carries(q)
  BY DEF ScratchKept
<1>2. handoffScratch' <=> handoffScratch
  BY DEF handoffScratch
<1>3. q \in elsewhere /\ spc[q] \in {"run", "read", "place"} => Lineage(away[q], elsewhere, spc', scratchSwapped')
  BY <1>1 DEF Carries
<1>4. q \in elsewhere /\ spc[q] \in {"swap", "place"} => Lineage(staged[q], elsewhere, spc', scratchSwapped')
  BY <1>1 DEF Carries
<1> QED
  BY <1>1, <1>2, <1>3, <1>4 DEF Carries, LineageIn

\* A lineage stays one when no step ends here and no tree is swapped in.
LEMMA LineageStays ==
  ASSUME NEW T, LineageIn(T), scratchSwapped' = scratchSwapped,
         \A q \in ScSteps \ elsewhere : spc'[q] = "ended" => spc[q] = "ended"
  PROVE  Lineage(T, elsewhere, spc', scratchSwapped')
BY DEF LineageIn, Lineage

\* The parts that only look at who has ended.
LEMMA EndedStays ==
  ASSUME ScratchKept, elsewhere' = elsewhere, NEW s \in ScSteps, NEW p \in ScPlaces, spc' = [spc EXCEPT ![s] = p],
         spc[s] # "ended", spc[s] = "new" /\ handoffScratch => \A d \in ScNeeds[s] : spc[d] = "ended",
         saved' = saved
  PROVE  /\ UsersInOrder' /\ saved = NoTree
         /\ spc' \in [ScSteps -> ScPlaces]
         /\ spc'[s] = p /\ \A q \in ScSteps \ {s} : spc'[q] = spc[q]
<1>0. spc \in [ScSteps -> ScPlaces]
  BY DEF ScratchKept, ScratchTypes
<1>1. spc' \in [ScSteps -> ScPlaces] /\ spc'[s] = p /\ \A q \in ScSteps \ {s} : spc'[q] = spc[q]
  BY <1>0
<1>2. handoffScratch' <=> handoffScratch
  BY DEF handoffScratch
<1>3. saved = NoTree
  BY DEF ScratchKept, SavedTree
<1>4. \A d \in ScSteps : spc[d] = "ended" => spc'[d] = "ended"
  BY <1>1
<1>5. ASSUME handoffScratch, NEW q \in ScSteps, NEW d \in ScNeeds[q], spc'[q] # "new" PROVE spc'[d] = "ended"
  <2>0. d \in ScSteps
    BY <1>5, ScratchSetting
  <2>1. CASE q = s /\ spc[s] = "new"
    BY <1>4, <1>5, <2>0, <2>1
  <2>2. CASE q # s \/ spc[s] # "new"
    <3>1. spc[q] # "new"
      BY <1>1, <1>5, <2>2
    <3> QED
      BY <1>4, <1>5, <2>0, <3>1 DEF ScratchKept, UsersInOrder
  <2> QED
    BY <2>1, <2>2
<1> QED
  BY <1>1, <1>2, <1>3, <1>5 DEF UsersInOrder

\* scratchMounts: the first user restores, every user is given the lineage.
LEMMA ScratchMounted ==
  ASSUME RemoteUsersOrdered, ScratchKept, NEW s \in ScSteps, scratchMounts(s)
  PROVE  ScratchKept'
<1>0. ScratchTypes /\ Carries(s) /\ HomeTree /\ SavedTree /\ "run" \in ScPlaces
  BY DEF ScratchKept, ScPlaces
<1>1. /\ spc[s] = "new" /\ spc' = [spc EXCEPT ![s] = "run"] /\ saved' = saved /\ elsewhere' = elsewhere
      /\ handoffScratch => \A d \in ScNeeds[s] : spc[d] = "ended"
      /\ UNCHANGED <<scratchSwapped, scratchRead, staged, passed>>
      /\ scratchRemote' = (scratchRemote \/ s \in elsewhere)
      /\ away' = [away EXCEPT ![s] = IF s \in elsewhere THEN sdir' ELSE @]
  BY DEF scratchMounts, ScGo
<1>2. /\ UsersInOrder' /\ saved = NoTree /\ spc' \in [ScSteps -> ScPlaces]
      /\ spc'[s] = "run" /\ \A q \in ScSteps \ {s} : spc'[q] = spc[q]
  BY <1>0, <1>1, EndedStays
<1>3. \A q \in ScSteps : spc[q] # "place"
  <2> SUFFICES ASSUME NEW q \in ScSteps, spc[q] = "place" PROVE FALSE
    OBVIOUS
  <2>1. q \in elsewhere /\ handoffScratch
    BY DEF ScratchKept, Carries
  <2> QED
    BY <1>1, <2>1, AloneElsewhere
<1>4. scratchDone' = TRUE /\ Lineage(sdir', elsewhere, spc, scratchSwapped)
  <2>1. CASE scratchDone
    BY <2>1, <1>0, <1>3 DEF scratchMounts, ensureScratch, HomeTree, LineageIn, ScratchTypes, Flags
  <2>2. CASE ~scratchDone
    <3>1. scratchDone' = TRUE /\ sdir' \in {{}, {"warm"}}
      BY <2>2 DEF scratchMounts, ensureScratch
    <3>2. ~scratchSwapped /\ \A q \in ScSteps : spc[q] = "new"
      BY <2>2, <1>0 DEF HomeTree
    <3> QED
      BY <3>1, <3>2 DEF Lineage, Trees
  <2> QED
    BY <2>1, <2>2
<1>5. Lineage(sdir', elsewhere, spc', scratchSwapped')
  BY <1>1, <1>2, <1>4 DEF Lineage
<1>6. /\ away' \in [ScSteps -> Trees \cup {NoTree}] /\ \A q \in ScSteps \ {s} : away'[q] = away[q]
      /\ away'[s] = IF s \in elsewhere THEN sdir' ELSE away[s]
  BY <1>0, <1>1, <1>5 DEF ScratchTypes, Lineage
<1>7. scratchRemote => scratchRemote'
  BY <1>1
<1>8. ASSUME NEW q \in ScSteps PROVE Carries(q)'
  <2>1. CASE q = s
    <3>1. s \notin elsewhere => away'[s] = NoTree
      BY <1>0, <1>6 DEF Carries
    <3>2. s \in elsewhere => scratchRemote' /\ away'[s] = sdir'
      BY <1>1, <1>6
    <3> QED
      BY <2>1, <1>1, <1>2, <1>5, <3>1, <3>2 DEF Carries, LineageIn
  <2>2. CASE q # s
    <3>1. ASSUME NEW T, LineageIn(T) PROVE Lineage(T, elsewhere, spc', scratchSwapped')
      BY <3>1, <1>1, <1>2 DEF LineageIn, Lineage
    <3>2. spc'[q] = spc[q] /\ away'[q] = away[q] /\ staged'[q] = staged[q]
      BY <1>1, <1>2, <1>6, <2>2
    <3> QED
      BY <1>1, <1>7, <3>1, <3>2, CarriesOn
  <2> QED
    BY <2>1, <2>2
<1>9. ScratchTypes'
  <2>1. sdir' \in Trees
    BY <1>5 DEF Lineage
  <2>2. scratchRemote' \in Flags
    BY <1>1 DEF Flags
  <2> QED
    BY <1>0, <1>1, <1>2, <1>4, <1>6, <2>1, <2>2 DEF ScratchTypes, Flags
<1>10. HomeTree'
  BY <1>1, <1>4, <1>5 DEF HomeTree, LineageIn
<1>11. SavedTree'
  <2>1. handoffScratch' <=> handoffScratch
    BY <1>1 DEF handoffScratch
  <2> QED
    BY <1>0, <1>1, <1>2, <2>1 DEF SavedTree
<1> QED
  BY <1>2, <1>8, <1>9, <1>10, <1>11 DEF ScratchKept

\* runCommand: the work is in the tree the step has.
LEMMA ScratchRuns ==
  ASSUME RemoteUsersOrdered, ScratchKept, NEW s \in ScSteps, runCommand(s)
  PROVE  ScratchKept'
<1>0. ScratchTypes /\ Carries(s) /\ HomeTree /\ SavedTree /\ {"read", "ended"} \subseteq ScPlaces
  BY DEF ScratchKept, ScPlaces
<1>1. PICK p \in {"read", "ended"} : spc' = [spc EXCEPT ![s] = p] /\ (p = "read" => s \in elsewhere)
  BY DEF runCommand, ScGo
<1>2. /\ spc[s] = "run" /\ saved' = saved /\ elsewhere' = elsewhere
      /\ UNCHANGED <<scratchDone, scratchRemote, scratchSwapped, scratchRead, staged>>
      /\ passed' \in {passed, passed \cup {s}}
      /\ IF s \in elsewhere THEN away' = [away EXCEPT ![s] = @ \cup {s}] /\ sdir' = sdir
         ELSE sdir' = sdir \cup {s} /\ away' = away
  BY DEF runCommand
<1>3. /\ UsersInOrder' /\ saved = NoTree /\ spc' \in [ScSteps -> ScPlaces]
      /\ spc'[s] = p /\ \A q \in ScSteps \ {s} : spc'[q] = spc[q]
  BY <1>0, <1>1, <1>2, EndedStays
<1>4. scratchDone
  BY <1>0, <1>2 DEF HomeTree
<1>5. handoffScratch' <=> handoffScratch
  BY <1>2 DEF handoffScratch
<1>6. SavedTree'
  BY <1>0, <1>2, <1>3, <1>5 DEF SavedTree
<1>7. CASE s \in elsewhere
  <2>1. LineageIn(away[s])
    BY <1>0, <1>2, <1>7 DEF Carries
  <2>2. ASSUME NEW T, LineageIn(T) PROVE Lineage(T, elsewhere, spc', scratchSwapped')
    BY <2>2, <1>2, <1>3, <1>7 DEF LineageIn, Lineage
  <2>3. away[s] \cup {s} \in Trees /\ LineageIn(away[s] \cup {s})
    BY <2>1 DEF LineageIn, Lineage, Trees
  <2>4. /\ away' \in [ScSteps -> Trees \cup {NoTree}] /\ away'[s] = away[s] \cup {s}
        /\ \A q \in ScSteps \ {s} : away'[q] = away[q]
    BY <1>0, <1>2, <1>7, <2>3 DEF ScratchTypes
  <2>5. ASSUME NEW q \in ScSteps PROVE Carries(q)'
    <3>1. CASE q = s
      <4>1. Lineage(away'[s], elsewhere, spc', scratchSwapped') /\ s \in away'[s]
        BY <2>2, <2>3, <2>4
      <4> QED
        BY <1>0, <1>1, <1>2, <1>3, <1>7, <3>1, <4>1 DEF Carries, LineageIn
    <3>2. CASE q # s
      BY <1>2, <1>3, <2>2, <2>4, <3>2, CarriesOn
    <3> QED
      BY <3>1, <3>2
  <2>6. ScratchTypes'
    BY <1>0, <1>2, <1>3, <1>7, <2>4 DEF ScratchTypes
  <2>7. HomeTree'
    <3>1. (\A q \in ScSteps : spc'[q] # "place") => \A q \in ScSteps : spc[q] # "place"
      BY <1>2, <1>3
    <3>2. (\A q \in ScSteps : spc[q] # "place") => Lineage(sdir, elsewhere, spc', scratchSwapped')
      BY <1>0, <1>4, <2>2 DEF HomeTree
    <3> QED
      BY <1>2, <1>4, <1>7, <3>1, <3>2 DEF HomeTree, LineageIn
  <2> QED
    BY <1>3, <1>6, <2>5, <2>6, <2>7 DEF ScratchKept
<1>8. CASE s \notin elsewhere
  <2>1. ASSUME NEW q \in elsewhere PROVE spc[q] \in {"new", "ended"}
    <3>1. q \in ScSteps /\ handoffScratch
      BY <1>0, <1>8 DEF ScratchTypes, handoffScratch
    <3> QED
      BY <1>2, <1>8, <3>1, AloneElsewhere
  <2>2. \A q \in ScSteps : spc[q] # "place"
    BY <2>1 DEF ScratchKept, Carries
  <2>3. LineageIn(sdir)
    BY <1>0, <1>4, <2>2 DEF HomeTree
  <2>4. Lineage(sdir', elsewhere, spc', scratchSwapped')
    BY <1>2, <1>3, <1>8, <2>3 DEF LineageIn, Lineage, Trees
  <2>5. ASSUME NEW q \in ScSteps PROVE Carries(q)'
    <3>1. CASE q = s
      BY <1>0, <1>1, <1>2, <1>3, <1>8, <3>1 DEF Carries
    <3>2. CASE q # s
      <4>1. spc'[q] = spc[q] /\ away'[q] = away[q] /\ staged'[q] = staged[q]
        BY <1>2, <1>3, <1>8, <3>2
      <4> QED
        BY <1>2, <2>1, <4>1, CarriesOn
    <3> QED
      BY <3>1, <3>2
  <2>6. ScratchTypes'
    BY <1>0, <1>2, <1>3, <1>8, <2>4 DEF ScratchTypes, Lineage
  <2>7. HomeTree'
    BY <1>2, <1>4, <2>4 DEF HomeTree, LineageIn
  <2> QED
    BY <1>3, <1>6, <2>5, <2>6, <2>7 DEF ScratchKept
<1> QED
  BY <1>7, <1>8

\* readScratch, swapScratch: what came back takes the place of what was sent out.
LEMMA ScratchComesBack ==
  ASSUME RemoteUsersOrdered, ScratchKept, NEW s \in ScSteps, readScratch(s) \/ swapOut(s) \/ swapIn(s)
  PROVE  ScratchKept'
<1>0. ScratchTypes /\ Carries(s) /\ HomeTree /\ SavedTree /\ {"ended", "swap", "place"} \subseteq ScPlaces
  BY DEF ScratchKept, ScPlaces
<1>1. /\ spc[s] \in {"read", "swap", "place"} /\ saved' = saved /\ elsewhere' = elsewhere
      /\ UNCHANGED <<scratchDone, scratchRemote, passed>>
  BY DEF readScratch, swapOut, swapIn
<1>2. PICK p \in {"ended", "swap", "place"} : spc' = [spc EXCEPT ![s] = p]
  BY DEF readScratch, swapOut, swapIn, ScGo
<1>3. /\ UsersInOrder' /\ saved = NoTree /\ spc' \in [ScSteps -> ScPlaces]
      /\ spc'[s] = p /\ \A q \in ScSteps \ {s} : spc'[q] = spc[q]
  BY <1>0, <1>1, <1>2, EndedStays
<1>4. scratchDone
  BY <1>0, <1>1 DEF HomeTree
<1>5. handoffScratch' <=> handoffScratch
  BY <1>1 DEF handoffScratch
<1>6. s \in elsewhere
  BY <1>0, <1>1 DEF Carries
<1>7. ASSUME NEW T, LineageIn(T), scratchSwapped' = scratchSwapped
      PROVE  Lineage(T, elsewhere, spc', scratchSwapped')
  BY <1>7, <1>3, <1>6 DEF LineageIn, Lineage
<1>8. ASSUME handoffScratch, NEW q \in ScSteps \ {s} PROVE spc[q] \in {"new", "ended"}
  BY <1>1, <1>6, <1>8, AloneElsewhere
\* The others have nothing in hand, or nothing that changes.
<1>9. ASSUME handoffScratch \/ scratchSwapped' = scratchSwapped,
             NEW q \in ScSteps \ {s}, away'[q] = away[q], staged'[q] = staged[q]
      PROVE  Carries(q)'
  <2>1. q \in elsewhere /\ spc[q] \notin {"new", "ended"} =>
          \A T : LineageIn(T) => Lineage(T, elsewhere, spc', scratchSwapped')
    BY <1>7, <1>8, <1>9
  <2> QED
    BY <1>1, <1>3, <1>9, <2>1, CarriesOn
<1>10. CASE readScratch(s)
  <2>1. /\ spc[s] = "read" /\ UNCHANGED <<sdir, scratchSwapped, away>>
        /\ \/ p = "ended" /\ UNCHANGED <<staged, scratchRead>>
           \/ ~handoffScratch /\ scratchRead' = away[s] /\ staged' = staged /\ p = "ended"
           \/ handoffScratch /\ staged' = [staged EXCEPT ![s] = away[s]] /\ scratchRead' = scratchRead /\ p = "swap"
    <3>1. ASSUME NEW x, ScGo(s, x) PROVE p = x
      BY <3>1, <1>0, <1>2 DEF ScGo, ScratchTypes
    <3> QED
      BY <1>10, <3>1 DEF readScratch
  <2>2. LineageIn(away[s]) /\ s \in away[s] /\ away[s] \in Trees
    BY <1>0, <1>6, <2>1 DEF Carries, LineageIn, Lineage
  <2>3. /\ staged' \in [ScSteps -> Trees \cup {NoTree}] /\ \A q \in ScSteps \ {s} : staged'[q] = staged[q]
        /\ p = "swap" => handoffScratch /\ staged'[s] = away[s]
    BY <1>0, <2>1, <2>2 DEF ScratchTypes
  <2>4. ASSUME NEW q \in ScSteps PROVE Carries(q)'
    <3>1. CASE q = s
      <4>1. p = "swap" => Lineage(staged'[s], elsewhere, spc', scratchSwapped') /\ s \in staged'[s]
        BY <1>7, <2>1, <2>2, <2>3
      <4>2. scratchRemote' /\ p \in {"ended", "swap"}
        BY <1>0, <1>1, <1>6, <2>1 DEF Carries
      <4> QED
        BY <1>1, <1>3, <1>5, <1>6, <2>3, <3>1, <4>1, <4>2 DEF Carries, LineageIn
    <3>2. CASE q # s
      BY <1>9, <2>1, <2>3, <3>2
    <3> QED
      BY <3>1, <3>2
  <2>5. ScratchTypes'
    BY <1>0, <1>1, <1>3, <2>1, <2>2, <2>3 DEF ScratchTypes
  <2>6. HomeTree'
    <3>1. p # "place" /\ ((\A q \in ScSteps : spc'[q] # "place") => \A q \in ScSteps : spc[q] # "place")
      BY <1>3, <2>1
    <3>2. (\A q \in ScSteps : spc[q] # "place") => Lineage(sdir, elsewhere, spc', scratchSwapped')
      BY <1>0, <1>4, <1>7, <2>1 DEF HomeTree
    <3> QED
      BY <1>1, <1>4, <2>1, <3>1, <3>2 DEF HomeTree, LineageIn
  <2>7. SavedTree'
    <3>1. away[s] \cap elsewhere # {}
      BY <1>6, <2>2
    <3>2. scratchRead' # NoTree => scratchRead' \cap elsewhere # {}
      BY <1>0, <2>1, <3>1 DEF SavedTree
    <3> QED
      BY <1>0, <1>1, <1>3, <1>5, <2>1, <3>2 DEF SavedTree
  <2> QED
    BY <1>3, <2>4, <2>5, <2>6, <2>7 DEF ScratchKept
<1>11. CASE swapOut(s)
  <2>1. /\ spc[s] = "swap" /\ UNCHANGED <<scratchSwapped, scratchRead, staged>>
        /\ \/ away' = [away EXCEPT ![s] = sdir] /\ sdir' = Missing /\ p = "place"
           \/ UNCHANGED <<away, sdir>> /\ p = "ended"
    <3>1. ASSUME NEW x, ScGo(s, x) PROVE p = x
      BY <3>1, <1>0, <1>2 DEF ScGo, ScratchTypes
    <3> QED
      BY <1>11, <3>1 DEF swapOut
  <2>2. handoffScratch /\ LineageIn(staged[s]) /\ s \in staged[s]
    BY <1>0, <1>6, <2>1 DEF Carries
  <2>3. \A q \in ScSteps : spc[q] # "place"
    BY <1>8, <2>1, <2>2
  <2>4. LineageIn(sdir) /\ sdir \in Trees
    BY <1>0, <1>4, <2>3 DEF HomeTree, LineageIn, Lineage
  <2>5. /\ away' \in [ScSteps -> Trees \cup {NoTree}] /\ \A q \in ScSteps \ {s} : away'[q] = away[q]
        /\ p = "place" => away'[s] = sdir
    BY <1>0, <2>1, <2>4 DEF ScratchTypes
  <2>6. ASSUME NEW q \in ScSteps PROVE Carries(q)'
    <3>1. CASE q = s
      <4>1. Lineage(staged'[s], elsewhere, spc', scratchSwapped') /\ s \in staged'[s]
        BY <1>7, <2>1, <2>2
      <4>2. scratchRemote' /\ p \in {"ended", "place"}
        BY <1>0, <1>1, <1>6, <2>1 DEF Carries
      <4>3. p = "place" => Lineage(away'[s], elsewhere, spc', scratchSwapped')
        BY <1>7, <2>1, <2>4, <2>5
      <4> QED
        BY <1>1, <1>3, <1>5, <1>6, <2>2, <3>1, <4>1, <4>2, <4>3 DEF Carries, LineageIn
    <3>2. CASE q # s
      BY <1>9, <2>1, <2>5, <3>2
    <3> QED
      BY <3>1, <3>2
  <2>7. ScratchTypes'
    BY <1>0, <1>1, <1>3, <2>1, <2>5 DEF ScratchTypes
  <2>8. HomeTree'
    <3>1. p # "place" => Lineage(sdir', elsewhere, spc', scratchSwapped')
      BY <1>7, <2>1, <2>4
    <3> QED
      BY <1>1, <1>3, <1>4, <3>1 DEF HomeTree, LineageIn
  <2>9. SavedTree'
    BY <1>0, <1>1, <1>3, <1>5, <2>1 DEF SavedTree
  <2> QED
    BY <1>3, <2>6, <2>7, <2>8, <2>9 DEF ScratchKept
<1>12. CASE swapIn(s)
  <2>1. /\ spc[s] = "place" /\ UNCHANGED <<scratchRead, staged, away>> /\ p = "ended"
        /\ \/ sdir' = staged[s] /\ scratchSwapped' = TRUE
           \/ sdir' = away[s] /\ scratchSwapped' = scratchSwapped
    <3>1. ASSUME NEW x, ScGo(s, x) PROVE p = x
      BY <3>1, <1>0, <1>2 DEF ScGo, ScratchTypes
    <3> QED
      BY <1>12, <3>1 DEF swapIn
  <2>2. handoffScratch /\ LineageIn(staged[s]) /\ s \in staged[s] /\ LineageIn(away[s])
    BY <1>0, <1>6, <2>1 DEF Carries
  <2>3. Lineage(sdir', elsewhere, spc', scratchSwapped')
    <3>1. CASE sdir' = staged[s] /\ scratchSwapped' = TRUE
      BY <1>3, <1>6, <2>2, <3>1 DEF LineageIn, Lineage
    <3>2. CASE sdir' = away[s] /\ scratchSwapped' = scratchSwapped
      BY <1>7, <2>2, <3>2
    <3> QED
      BY <2>1, <3>1, <3>2
  <2>4. ASSUME NEW q \in ScSteps PROVE Carries(q)'
    <3>1. CASE q = s
      <4>1. scratchRemote'
        BY <1>0, <1>1, <1>6, <2>1 DEF Carries
      <4> QED
        BY <1>1, <1>3, <1>6, <2>1, <3>1, <4>1 DEF Carries
    <3>2. CASE q # s
      BY <1>9, <2>1, <2>2, <3>2
    <3> QED
      BY <3>1, <3>2
  <2>5. ScratchTypes'
    <3>1. sdir' \in Trees /\ scratchSwapped' \in Flags
      BY <1>0, <2>1, <2>3 DEF Lineage, ScratchTypes, Flags
    <3> QED
      BY <1>0, <1>1, <1>3, <2>1, <3>1 DEF ScratchTypes
  <2>6. HomeTree'
    BY <1>1, <1>4, <2>3 DEF HomeTree, LineageIn
  <2>7. SavedTree'
    BY <1>0, <1>1, <1>3, <1>5, <2>1, <2>2 DEF SavedTree
  <2> QED
    BY <1>3, <2>4, <2>5, <2>6, <2>7 DEF ScratchKept
<1> QED
  BY <1>10, <1>11, <1>12

\* saveScratch: what is stored is the lineage, or what was read back.
LEMMA ScratchIsSaved ==
  ASSUME ScratchKept, saveScratch
  PROVE  ScratchKept'
<1>0. ScratchTypes /\ HomeTree /\ SavedTree /\ UsersInOrder /\ \A s \in ScSteps : Carries(s)
  BY DEF ScratchKept
<1>1. /\ UNCHANGED <<elsewhere, sdir, scratchDone, scratchRemote, scratchSwapped, away, staged, spc, passed>>
      /\ scratchDone /\ scratchRead' = NoTree /\ \A s \in ScSteps : spc[s] = "ended"
      /\ IF saveSource = NoTree THEN saved' = saved ELSE saved' = saveSource
      /\ saved = NoTree
  BY DEF saveScratch
<1>2. handoffScratch' <=> handoffScratch
  BY <1>1 DEF handoffScratch
<1>3. LineageIn(sdir)
  BY <1>0, <1>1 DEF HomeTree
<1>4. sdir \in Trees /\ ScSteps \ elsewhere \subseteq sdir /\ (scratchSwapped => sdir \cap elsewhere # {})
  BY <1>1, <1>3 DEF LineageIn, Lineage
<1>5. ASSUME saveSource # NoTree
      PROVE  /\ saveSource \in Trees /\ ScSteps \ elsewhere \subseteq saveSource
             /\ scratchRemote => saveSource \cap elsewhere # {}
  <2>1. CASE handoffScratch
    BY <1>4, <1>5, <2>1 DEF saveSource
  <2>2. CASE ~handoffScratch /\ scratchRemote
    <3>1. saveSource = scratchRead
      BY <2>2 DEF saveSource
    <3>2. ScSteps \ elsewhere = {}
      BY <1>0, <2>2 DEF SavedTree, handoffScratch
    <3> QED
      BY <1>0, <1>5, <3>1, <3>2 DEF SavedTree, ScratchTypes
  <2>3. CASE ~handoffScratch /\ ~scratchRemote
    BY <1>4, <2>3 DEF saveSource
  <2> QED
    BY <2>1, <2>2, <2>3
<1>6. ScratchTypes'
  BY <1>0, <1>1, <1>5 DEF ScratchTypes
<1>7. SavedTree'
  BY <1>0, <1>1, <1>2, <1>5 DEF SavedTree
<1>8. ASSUME NEW s \in ScSteps PROVE Carries(s)'
  BY <1>0, <1>1, <1>2 DEF Carries, LineageIn
<1>9. HomeTree' /\ UsersInOrder'
  BY <1>0, <1>1, <1>2 DEF HomeTree, LineageIn, UsersInOrder
<1> QED
  BY <1>6, <1>7, <1>8, <1>9 DEF ScratchKept

\* The inductive invariant of a scratch cache holds.
LEMMA ScratchHolds == RemoteUsersOrdered /\ ScratchSpec => [](RemoteUsersOrdered /\ ScratchKept)
<1>1. ScratchInit => ScratchKept
  <2> SUFFICES ASSUME ScratchInit PROVE ScratchKept
    OBVIOUS
  <2>1. ScratchTypes
    BY ScratchSetting DEF ScratchInit, ScratchTypes, ScPlaces, Flags
  <2>2. ASSUME NEW s \in ScSteps PROVE Carries(s)
    BY <2>2 DEF ScratchInit, Carries
  <2>3. HomeTree /\ UsersInOrder /\ SavedTree
    BY DEF ScratchInit, HomeTree, UsersInOrder, SavedTree
  <2> QED
    BY <2>1, <2>2, <2>3 DEF ScratchKept
<1>2. RemoteUsersOrdered /\ ScratchKept /\ [ScratchNext]_scratchVars => ScratchKept'
  <2> SUFFICES ASSUME RemoteUsersOrdered, ScratchKept, [ScratchNext]_scratchVars PROVE ScratchKept'
    OBVIOUS
  <2>1. CASE UNCHANGED scratchVars
    <3>1. UNCHANGED <<elsewhere, sdir, scratchDone, scratchRemote, scratchSwapped, scratchRead, away, staged, spc,
                      passed, saved>>
      BY <2>1 DEF scratchVars
    <3> QED
      BY <3>1 DEF ScratchKept, ScratchTypes, Carries, HomeTree, UsersInOrder, SavedTree, LineageIn, handoffScratch
  <2>2. ASSUME NEW s \in ScSteps, scratchMounts(s) \/ runCommand(s) \/ readScratch(s) \/ swapOut(s) \/ swapIn(s)
        PROVE  ScratchKept'
    BY <2>2, ScratchMounted, ScratchRuns, ScratchComesBack
  <2> QED
    BY <2>1, <2>2, ScratchIsSaved DEF ScratchNext, ScratchDone
<1>3. RemoteUsersOrdered => RemoteUsersOrdered'
  BY DEF RemoteUsersOrdered
<1> QED
  BY <1>1, <1>2, <1>3, PTL DEF ScratchSpec

\* What is stored was used, and nobody works where a swap is (workspaces.go:104, 117).
LEMMA ScratchIsUsed ==
  ASSUME RemoteUsersOrdered, ScratchKept
  PROVE  StoredIsUsed
<1>1. ASSUME saved # NoTree
      PROVE  /\ saved # Missing /\ ScSteps \ elsewhere \subseteq saved
             /\ scratchRemote => saved \cap elsewhere # {}
  BY <1>1, MarksAreNoTrees DEF ScratchKept, ScratchTypes, SavedTree
<1>2. ASSUME NEW s \in ScSteps, spc[s] = "run" PROVE sdir # Missing /\ away[s] # Missing
  <2>1. away[s] \in Trees \cup {NoTree}
    BY DEF ScratchKept, ScratchTypes
  <2>2. ASSUME NEW q \in ScSteps, spc[q] = "place" PROVE FALSE
    <3>1. q \in elsewhere /\ handoffScratch
      BY <2>2 DEF ScratchKept, Carries
    <3> QED
      BY <1>2, <2>2, <3>1, AloneElsewhere
  <2>3. LineageIn(sdir)
    BY <1>2, <2>2 DEF ScratchKept, HomeTree
  <2> QED
    BY <2>1, <2>3, MarksAreNoTrees DEF LineageIn, Lineage
<1> QED
  BY <1>1, <1>2 DEF StoredIsUsed

(* What a shared or a kept store hands to a later run is whole, for any    *)
(* number of clients, hosts, uploads and steps and whatever fails: an      *)
(* entry's objects are in the shared cache, what a push reported stored    *)
(* can be read back, and a scratch cache handed over between machines has  *)
(* the work that was done in it (remotecache/tier.go, oci/client.go,       *)
(* engine/workspaces.go).  The scratch cache needs its users on other      *)
(* machines to be ordered among themselves, which validateScratchTargets   *)
(* does not ask for.                                                       *)
THEOREM TheStoresAreWhole ==
  RemoteUsersOrdered /\ TierSpec /\ RegistrySpec /\ ScratchSpec => []StoresAreWhole
<1>1. TierKept => SharedEntriesResolve
  BY DEF TierKept
<1>2. (RemoteUsersOrdered /\ ScratchKept) => StoredIsUsed
  BY ScratchIsUsed
<1>3. TierKept /\ RegistryKept /\ (RemoteUsersOrdered /\ ScratchKept) => StoresAreWhole
  BY <1>1, <1>2, PushIsReadBack DEF StoresAreWhole
<1> QED
  BY <1>3, TierHolds, RegistryHolds, ScratchHolds, PTL
-----------------------------------------------------------------------------
(* The browser's server.                                                   *)

UiRows ==
  /\ DOMAIN uiAt = Tabs /\ DOMAIN req = Tabs /\ DOMAIN ans = Tabs /\ DOMAIN up = Tabs
  /\ DOMAIN upReply = Tabs /\ DOMAIN applied = Tabs /\ DOMAIN sends = Tabs
  /\ \A t \in Tabs : applied[t] \in {0, 1} /\ sends[t] \in Nat

\* A tab's request: before the relay the engine knows nothing of it, a control
\* operation is relayed for the session's own page only, an answer is given to a
\* request that is over, and what the attach server said of it stays so.
TabKept(t) ==
  /\ uiAt[t] \in {"guard", "session", "route"} => up[t] = "none" /\ upReply[t] = "none" /\ applied[t] = 0
  /\ uiAt[t] # "idle" => ans[t] = "none" /\ sends[t] >= 1
  /\ uiAt[t] = "route" /\ req[t].kind \notin {"link", "guess"} => t \in cookie
  /\ up[t] # "none" \/ upReply[t] # "none" => req[t].kind \in {"read", "control"}
  /\ applied[t] > 0 => req[t].kind = "control"
  /\ (up[t] # "none" \/ upReply[t] # "none" \/ applied[t] > 0) /\ req[t].kind = "control"
        => t \in cookie /\ req[t].from = "page"
  /\ up[t] \in {"submit", "waiting", "orphan"} => upReply[t] = "none"
  /\ up[t] = "submit" => applied[t] = 0
  /\ upReply[t] \in {"refused", "unqueued"} => applied[t] = 0
  /\ upReply[t] = "ok" => applied[t] = 1
  /\ upReply[t] # "forbidden"
  /\ ans[t] \in {"refused", "unqueued", "forbidden"} =>
       applied[t] = 0 /\ up[t] \notin {"submit", "waiting", "orphan"} /\ upReply[t] # "timeout"
  /\ ans[t] = "ok" => applied[t] = 1

\* The link is spent by somebody who sent it, and whoever has the session spent it.
LinkKept ==
  /\ \A s, t \in cookie : s = t
  /\ cookie # {} => consumed
  /\ cookie \subseteq Tabs
  /\ consumed => \E t \in Tabs : sends[t] >= 1 /\ (req[t].kind = "link" \/ sends[t] >= 2)

UiKept == UiRows /\ (\A t \in Tabs : TabKept(t)) /\ LinkKept

\* A tab that does not move keeps what it has.
LEMMA TabStays ==
  ASSUME NEW t \in Tabs, TabKept(t), cookie \subseteq cookie',
         uiAt'[t] = uiAt[t], req'[t] = req[t], ans'[t] = ans[t], up'[t] = up[t], upReply'[t] = upReply[t],
         applied'[t] = applied[t], sends'[t] = sends[t]
  PROVE  TabKept(t)'
BY DEF TabKept

\* One tab moves.
LEMMA UiMoved ==
  ASSUME UiKept, NEW t \in Tabs, UiRows', TabKept(t)', LinkKept', cookie \subseteq cookie',
         \A u \in Tabs \ {t} :
           /\ uiAt'[u] = uiAt[u] /\ req'[u] = req[u] /\ ans'[u] = ans[u] /\ up'[u] = up[u]
           /\ upReply'[u] = upReply[u] /\ applied'[u] = applied[u] /\ sends'[u] = sends[u]
  PROVE  UiKept'
<1>1. ASSUME NEW u \in Tabs \ {t} PROVE TabKept(u)'
  BY TabStays DEF UiKept
<1> QED
  BY <1>1 DEF UiKept

\* The server's own steps: it is bound, it goes with every connection, time passes.
LEMMA UiServes ==
  ASSUME UiKept, uiListen \/ UiClose \/ listenerDies \/ UiTick
  PROVE  UiKept'
<1>0. UiRows /\ LinkKept /\ \A t \in Tabs : TabKept(t)
  BY DEF UiKept
<1>1. CASE uiListen \/ UiTick
  <2>1. UNCHANGED <<consumed, cookie, uiAt, req, ans, up, upReply, applied, sends>>
    BY <1>1 DEF uiListen, UiTick, upVars
  <2>2. ASSUME NEW t \in Tabs PROVE TabKept(t)'
    BY <1>0, <2>1, TabStays
  <2> QED
    BY <1>0, <2>1, <2>2 DEF UiKept, UiRows, LinkKept
<1>2. CASE UiClose \/ listenerDies
  <2>1. /\ UNCHANGED <<consumed, cookie, req, upReply, applied, sends>>
        /\ ans' = [t \in Tabs |-> IF uiAt[t] = "idle" THEN ans[t] ELSE "cut"]
        /\ uiAt' = [t \in Tabs |-> "idle"] /\ up' = [t \in Tabs |-> Abandoned(t)]
    BY <1>2 DEF UiClose, listenerDies, CloseServer
  <2>2. ASSUME NEW t \in Tabs PROVE TabKept(t)'
    <3>1. /\ uiAt'[t] = "idle" /\ up'[t] = (IF up[t] = "waiting" THEN "orphan" ELSE "none")
          /\ ans'[t] \in {ans[t], "cut"}
      BY <2>1 DEF Abandoned
    <3> QED
      BY <1>0, <2>1, <3>1 DEF TabKept
  <2> QED
    BY <1>0, <2>1, <2>2 DEF UiKept, UiRows, LinkKept
<1> QED
  BY <1>1, <1>2

\* Before the relay: a request comes, and is answered or let through.
LEMMA UiAsks ==
  ASSUME UiKept, NEW t \in Tabs,
         send(t) \/ guard(t) \/ requireSession(t) \/ handleHandoff(t) \/ serve(t) \/ handleAPI(t) \/ uiHandleControl(t)
  PROVE  UiKept'
<1>0. UiRows /\ LinkKept /\ TabKept(t)
  BY DEF UiKept
<1>1. CASE send(t)
  <2>1. PICK k \in Routes : \E f \in Senders : req' = [req EXCEPT ![t] = [kind |-> k, from |-> f]]
    BY <1>1 DEF send
  <2>2. PICK f \in Senders : req' = [req EXCEPT ![t] = [kind |-> k, from |-> f]]
    BY <2>1
  <2>3. /\ uiAt' = [uiAt EXCEPT ![t] = "guard"] /\ ans' = [ans EXCEPT ![t] = "none"]
        /\ sends' = [sends EXCEPT ![t] = sends[t] + 1] /\ up' = [up EXCEPT ![t] = "none"]
        /\ applied' = [applied EXCEPT ![t] = 0] /\ upReply' = [upReply EXCEPT ![t] = "none"]
        /\ UNCHANGED <<consumed, cookie>>
    BY <1>1 DEF send
  <2>4. /\ uiAt'[t] = "guard" /\ ans'[t] = "none" /\ sends'[t] = sends[t] + 1 /\ up'[t] = "none"
        /\ applied'[t] = 0 /\ upReply'[t] = "none" /\ sends[t] \in Nat
    BY <1>0, <2>3 DEF UiRows
  <2>5. \A u \in Tabs \ {t} :
           /\ uiAt'[u] = uiAt[u] /\ req'[u] = req[u] /\ ans'[u] = ans[u] /\ up'[u] = up[u]
           /\ upReply'[u] = upReply[u] /\ applied'[u] = applied[u] /\ sends'[u] = sends[u]
    BY <1>0, <2>2, <2>3 DEF UiRows
  <2>6. /\ DOMAIN uiAt' = Tabs /\ DOMAIN req' = Tabs /\ DOMAIN ans' = Tabs /\ DOMAIN up' = Tabs
        /\ DOMAIN upReply' = Tabs /\ DOMAIN applied' = Tabs /\ DOMAIN sends' = Tabs
    BY <1>0, <2>2, <2>3 DEF UiRows
  <2>7. UiRows'
    BY <1>0, <2>4, <2>5, <2>6 DEF UiRows
  <2>8. TabKept(t)'
    BY <2>4 DEF TabKept
  <2>9. LinkKept'
    <3>1. ASSUME consumed PROVE \E u \in Tabs : sends'[u] >= 1 /\ (req'[u].kind = "link" \/ sends'[u] >= 2)
      <4>1. PICK u \in Tabs : sends[u] >= 1 /\ (req[u].kind = "link" \/ sends[u] >= 2)
        BY <1>0, <3>1 DEF LinkKept
      <4>2. CASE u = t
        BY <2>4, <4>1, <4>2
      <4>3. CASE u # t
        BY <2>5, <4>1, <4>3
      <4> QED
        BY <4>2, <4>3
    <3> QED
      BY <1>0, <2>3, <3>1 DEF LinkKept
  <2> QED
    BY <2>3, <2>5, <2>7, <2>8, <2>9, UiMoved
<1>2. CASE guard(t) \/ requireSession(t) \/ serve(t)
  <2>1. /\ uiAt[t] \in {"guard", "session", "route"}
        /\ UNCHANGED <<consumed, cookie, req, up, upReply, applied, sends>>
    BY <1>2 DEF guard, requireSession, serve, Handler, upVars
  <2>2. PICK a \in {"idle", "session", "route"} :
          /\ uiAt' = [uiAt EXCEPT ![t] = a]
          /\ a # "idle" => ans' = ans
          /\ a = "idle" => \E x \in {"notfound", "forbidden", "asset"} : ans' = [ans EXCEPT ![t] = x]
          /\ a = "route" /\ req[t].kind \notin {"link", "guess"} => t \in cookie
    <3>1. CASE guard(t)
      BY <3>1 DEF guard, UiAnswer
    <3>2. CASE requireSession(t)
      BY <3>2 DEF requireSession, UiAnswer, presentedSession
    <3>3. CASE serve(t)
      BY <3>3 DEF serve, UiAnswer
    <3> QED
      BY <1>2, <3>1, <3>2, <3>3
  <2>3. /\ uiAt'[t] = a /\ DOMAIN uiAt' = Tabs /\ DOMAIN ans' = Tabs
        /\ a # "idle" => ans'[t] = ans[t]
        /\ a = "idle" => ans'[t] \in {"notfound", "forbidden", "asset"}
        /\ \A u \in Tabs \ {t} : uiAt'[u] = uiAt[u] /\ ans'[u] = ans[u]
    BY <1>0, <2>2 DEF UiRows
  <2>4. UiRows' /\ LinkKept'
    BY <1>0, <2>1, <2>3 DEF UiRows, LinkKept
  <2>5. TabKept(t)'
    BY <1>0, <2>1, <2>2, <2>3 DEF TabKept
  <2> QED
    BY <2>1, <2>3, <2>4, <2>5, UiMoved
<1>3. CASE handleHandoff(t)
  <2>1. /\ uiAt[t] = "route" /\ req[t].kind \in {"link", "guess"}
        /\ UNCHANGED <<req, up, upReply, applied, sends>>
        /\ consumed' = (consumed \/ req[t].kind = "link")
        /\ uiAt' = [uiAt EXCEPT ![t] = "idle"]
        /\ \/ req[t].kind = "link" /\ ~consumed /\ cookie' = cookie \cup {t} /\ ans' = [ans EXCEPT ![t] = "session"]
           \/ cookie' = cookie /\ ans' = [ans EXCEPT ![t] = "notfound"]
    BY <1>3 DEF handleHandoff, Handler, upVars, claim, UiAnswer
  <2>2. /\ uiAt'[t] = "idle" /\ DOMAIN uiAt' = Tabs /\ DOMAIN ans' = Tabs
        /\ ans'[t] \in {"session", "notfound"}
        /\ \A u \in Tabs \ {t} : uiAt'[u] = uiAt[u] /\ ans'[u] = ans[u]
    BY <1>0, <2>1 DEF UiRows
  <2>3. cookie \subseteq cookie' /\ UiRows'
    BY <1>0, <2>1, <2>2 DEF UiRows
  <2>4. sends[t] >= 1
    BY <1>0, <2>1 DEF TabKept
  <2>5. LinkKept'
    <3>1. consumed' => \E u \in Tabs : sends[u] >= 1 /\ (req[u].kind = "link" \/ sends[u] >= 2)
      BY <1>0, <2>1, <2>4 DEF LinkKept
    <3>2. (\A u, v \in cookie' : u = v) /\ (cookie' # {} => consumed') /\ cookie' \subseteq Tabs
      BY <1>0, <2>1 DEF LinkKept
    <3> QED
      BY <2>1, <3>1, <3>2 DEF LinkKept
  <2>6. TabKept(t)'
    BY <1>0, <2>1, <2>2, <2>3 DEF TabKept
  <2> QED
    BY <2>1, <2>2, <2>3, <2>5, <2>6, UiMoved
<1>4. CASE handleAPI(t) \/ uiHandleControl(t)
  <2>1. CASE UiAnswer(t, "forbidden") \/ UiAnswer(t, "notfound")
    <3>1. uiAt[t] = "route" /\ UNCHANGED <<consumed, cookie, req, up, upReply, applied, sends>>
      <4>1. uiAt[t] = "route"
        BY <1>4 DEF handleAPI, uiHandleControl
      <4>2. uiAt'[t] = "idle"
        BY <1>0, <2>1 DEF UiAnswer, UiRows
      <4>3. ~Relay(t)
        BY <1>0, <4>2 DEF Relay, UiRows
      <4> QED
        BY <1>4, <4>1, <4>3 DEF handleAPI, uiHandleControl, Handler, upVars
    <3>2. /\ uiAt'[t] = "idle" /\ DOMAIN uiAt' = Tabs /\ DOMAIN ans' = Tabs
          /\ ans'[t] \in {"forbidden", "notfound"}
          /\ \A u \in Tabs \ {t} : uiAt'[u] = uiAt[u] /\ ans'[u] = ans[u]
      BY <1>0, <2>1 DEF UiRows, UiAnswer
    <3>3. UiRows' /\ LinkKept'
      BY <1>0, <3>1, <3>2 DEF UiRows, LinkKept
    <3>4. TabKept(t)'
      BY <1>0, <3>1, <3>2 DEF TabKept
    <3> QED
      BY <3>1, <3>2, <3>3, <3>4, UiMoved
  <2>2. CASE Relay(t)
    <3>1. /\ uiAt[t] = "route" /\ UNCHANGED <<consumed, cookie, req, ans, upReply, applied, sends>>
          /\ uiAt' = [uiAt EXCEPT ![t] = "relay"]
      BY <1>4, <2>2 DEF handleAPI, uiHandleControl, Relay
    <3>2. uiAt'[t] = "relay" /\ DOMAIN uiAt' = Tabs /\ \A u \in Tabs \ {t} : uiAt'[u] = uiAt[u]
      BY <1>0, <3>1 DEF UiRows
    <3>3. ~UiAnswer(t, "forbidden") /\ ~UiAnswer(t, "notfound")
      BY <1>0, <3>2 DEF UiAnswer, UiRows
    <3>4. PICK x \in {"submit", "waiting"} :
            /\ up' = [up EXCEPT ![t] = x]
            /\ \/ req[t].kind = "read"
               \/ req[t].kind = "control" /\ req[t].from = "page"
      BY <1>4, <3>3 DEF handleAPI, uiHandleControl, forwardable, checkOrigin
    <3>5. up'[t] = x /\ DOMAIN up' = Tabs /\ \A u \in Tabs \ {t} : up'[u] = up[u]
      BY <1>0, <3>4 DEF UiRows
    <3>6. UiRows' /\ LinkKept'
      BY <1>0, <3>1, <3>2, <3>5 DEF UiRows, LinkKept
    <3>7. TabKept(t)'
      BY <1>0, <3>1, <3>2, <3>4, <3>5 DEF TabKept
    <3> QED
      BY <3>1, <3>2, <3>5, <3>6, <3>7, UiMoved
  <2> QED
    BY <1>4, <2>1, <2>2 DEF handleAPI, uiHandleControl
<1> QED
  BY <1>1, <1>2, <1>3, <1>4

\* The attach server's part, and the relay's wait for it.
LEMMA UiRelays ==
  ASSUME UiKept, NEW t \in Tabs,
         queueAccepts(t) \/ engineApplies(t) \/ replied(t) \/ controlTimeout(t) \/ forward(t)
  PROVE  UiKept'
<1>0. UiRows /\ LinkKept /\ TabKept(t)
  BY DEF UiKept
<1>1. CASE queueAccepts(t) \/ engineApplies(t) \/ replied(t) \/ controlTimeout(t)
  <2>1. UNCHANGED <<consumed, cookie, uiAt, req, ans, sends>>
    BY <1>1 DEF queueAccepts, engineApplies, replied, controlTimeout, Upstream
  <2>2. /\ DOMAIN up' = Tabs /\ DOMAIN upReply' = Tabs /\ DOMAIN applied' = Tabs
        /\ \A u \in Tabs \ {t} : up'[u] = up[u] /\ upReply'[u] = upReply[u] /\ applied'[u] = applied[u]
        /\ \/ up[t] = "submit" /\ up'[t] = "waiting" /\ upReply'[t] = upReply[t] /\ applied'[t] = applied[t]
           \/ /\ up[t] \in {"waiting", "orphan"} \/ upReply[t] = "timeout"
              /\ req[t].kind = "control" /\ applied[t] = 0 /\ applied'[t] = 1 /\ up'[t] = up[t] /\ upReply'[t] = upReply[t]
           \/ /\ up[t] = "waiting" /\ up'[t] = "answered" /\ applied'[t] = applied[t]
              /\ upReply'[t] = IF req[t].kind = "read" THEN "body" ELSE IF applied[t] = 1 THEN "ok" ELSE "refused"
           \/ /\ up[t] \in {"submit", "waiting"} /\ up'[t] = "answered" /\ applied'[t] = applied[t]
              /\ upReply'[t] = IF up[t] = "submit" THEN "unqueued" ELSE "timeout"
    <3>1. CASE queueAccepts(t)
      BY <1>0, <3>1 DEF queueAccepts, UiRows
    <3>2. CASE engineApplies(t)
      BY <1>0, <3>2 DEF engineApplies, UiRows
    <3>3. CASE replied(t)
      BY <1>0, <3>3 DEF replied, UiRows
    <3>4. CASE controlTimeout(t)
      BY <1>0, <3>4 DEF controlTimeout, UiRows
    <3> QED
      BY <1>1, <3>1, <3>2, <3>3, <3>4
  <2>3. UiRows' /\ LinkKept'
    BY <1>0, <2>1, <2>2 DEF UiRows, LinkKept
  <2>4. applied[t] \in {0, 1}
    BY <1>0 DEF UiRows
  <2>5. TabKept(t)'
    BY <1>0, <2>1, <2>2, <2>4 DEF TabKept
  <2> QED
    BY <2>1, <2>2, <2>3, <2>5, UiMoved
<1>2. CASE forward(t)
  <2>1. uiAt[t] = "relay" /\ UNCHANGED <<consumed, cookie, req, upReply, applied, sends>>
    BY <1>2 DEF forward
  <2>2. /\ DOMAIN up' = Tabs /\ DOMAIN uiAt' = Tabs /\ DOMAIN ans' = Tabs /\ uiAt'[t] = "idle"
        /\ \A u \in Tabs \ {t} : up'[u] = up[u] /\ uiAt'[u] = uiAt[u] /\ ans'[u] = ans[u]
        /\ \/ up[t] = "answered" /\ ans'[t] = upReply[t] /\ up'[t] = "none"
           \/ ans'[t] = "badgateway" /\ up'[t] = IF up[t] = "waiting" THEN "orphan" ELSE "none"
    BY <1>0, <1>2 DEF forward, UiAnswer, Abandoned, UiRows
  <2>3. UiRows' /\ LinkKept'
    BY <1>0, <2>1, <2>2 DEF UiRows, LinkKept
  <2>4. TabKept(t)'
    BY <1>0, <2>1, <2>2 DEF TabKept
  <2> QED
    BY <2>1, <2>2, <2>3, <2>4, UiMoved
<1> QED
  BY <1>1, <1>2

\* The inductive invariant of the browser's server holds.
LEMMA UiHolds == UiSpec => []UiKept
<1>1. UiInit => UiKept
  BY DEF UiInit, UiKept, UiRows, TabKept, LinkKept
<1>2. UiKept /\ [UiNext]_uiVars => UiKept'
  <2> SUFFICES ASSUME UiKept, [UiNext]_uiVars PROVE UiKept'
    OBVIOUS
  <2>1. CASE UNCHANGED uiVars
    <3>1. UNCHANGED <<consumed, cookie, uiAt, req, ans, up, upReply, applied, sends>>
      BY <2>1 DEF uiVars
    <3>2. ASSUME NEW t \in Tabs PROVE TabKept(t)'
      BY <3>1, TabStays DEF UiKept
    <3> QED
      BY <3>1, <3>2 DEF UiKept, UiRows, LinkKept
  <2> QED
    BY <2>1, UiServes, UiAsks, UiRelays DEF UiNext
<1> QED
  BY <1>1, <1>2, PTL DEF UiSpec

\* A tab is told what happened, and only the session's page acts.
LEMMA UiTellsTheTruth == UiKept => UiIsHonest
<1> SUFFICES ASSUME UiKept PROVE UiIsHonest
  OBVIOUS
<1>1. UiRows /\ LinkKept /\ \A t \in Tabs : TabKept(t)
  BY DEF UiKept
<1>2. ASSUME \A t \in Tabs : req[t].kind # "link" /\ sends[t] <= 1 PROVE ~consumed
  BY <1>1, <1>2 DEF LinkKept, UiRows
<1>3. ASSUME NEW t \in Tabs
      PROVE  /\ applied[t] > 0 => t \in cookie /\ req[t].from = "page"
             /\ ans[t] = "ok" => applied[t] = 1
             /\ ans[t] \in {"refused", "unqueued", "forbidden"} => applied[t] = 0
  BY <1>1 DEF TabKept
<1> QED
  BY <1>1, <1>2, <1>3 DEF UiIsHonest, LinkKept
-----------------------------------------------------------------------------
(* The attach server.                                                      *)

InQueue(c) == \E i \in 1..Len(queue) : queue[i] = c
QueueOnce == queue \in Seq(Callers) /\ \A i, j \in 1..Len(queue) : queue[i] = queue[j] => i = j
AttachRows ==
  /\ DOMAIN hat = Callers /\ DOMAIN conn = Callers /\ DOMAIN reply = Callers /\ DOMAIN got = Callers
  /\ DOMAIN sess = Callers /\ DOMAIN call = Callers /\ DOMAIN closer = Closers
  /\ closing \in {TRUE, FALSE}

\* Nothing of the request has reached the engine.
Untouched(c) == sess[c] = "none" /\ reply[c] = "none" /\ c \notin did /\ ~InQueue(c)

\* The engine acts on a request while nobody has been told that it was refused,
\* and once it has answered it acts no more.
CallerKept(c) ==
  /\ hat[c] \in {"idle", "arrived", "handler", "submit", "tracked", "hijacked", "offering"} => Untouched(c)
  /\ hat[c] = "waiting" => sess[c] = "none"
  /\ hat[c] = "gone" <=> got[c] # "none"
  /\ InQueue(c) => reply[c] = "none" /\ sess[c] = "none" /\ c \notin did /\ got[c] \in {"none", "timeout", "cut"}
  /\ sess[c] \in {"received", "resolved", "counted"} => c \notin did
  /\ sess[c] = "running" => c \in did
  /\ sess[c] \in {"received", "resolved", "counted", "running"} => reply[c] = "none" /\ got[c] \in {"none", "cut"}
  /\ reply[c] \in {"none", "ok", "refused"}
  /\ reply[c] = "ok" => c \in did
  /\ reply[c] = "refused" => c \notin did /\ ~InQueue(c) /\ sess[c] \in {"none", "ended"}
  /\ got[c] \in Refusals => c \notin did /\ ~InQueue(c) /\ sess[c] \in {"none", "ended"}
  /\ got[c] = "ok" => c \in did
  /\ got[c] \in {"unauthorized", "throttled"} => ~call[c].good

\* A connection that was taken over has a handler that will give it up.
ConnKept(c) ==
  /\ c \in reg => hat[c] \in {"offering", "session", "lingering"}
  /\ conn[c] = "taken" => hat[c] \in {"hijacked", "offering", "session", "lingering"}

\* A request arrives while the server listens, on one of its two networks.
ServedKept == (listening \/ \E c \in Callers : hat[c] # "idle") => srv \in {"unix", "tcp"}

ClosersKept ==
  /\ reg \subseteq Callers
  /\ once # "free" => closing
  /\ \A k \in Closers : closer[k] # "no" => closing
  /\ \A k \in Closers : closer[k] = "returned" => Tracked = {}

AttachKept ==
  AttachRows /\ QueueOnce /\ (\A c \in Callers : CallerKept(c) /\ ConnKept(c)) /\ ClosersKept /\ ServedKept

\* A caller whose row does not move keeps what it has.
LEMMA CallerStays ==
  ASSUME NEW c \in Callers, CallerKept(c), hat'[c] = hat[c], call'[c] = call[c], got'[c] = got[c],
         reply'[c] = reply[c], sess'[c] = sess[c], c \in did' <=> c \in did, InQueue(c)' <=> InQueue(c)
  PROVE  CallerKept(c)'
BY DEF CallerKept, Untouched

\* Nobody is tracked any more when a Close call is back, and closing stays.
LEMMA ClosersStay ==
  ASSUME AttachKept, closing' = closing, once' = once, closer' = closer, reg' \subseteq Callers,
         closing => Tracked' \subseteq Tracked
  PROVE  ClosersKept'
BY DEF AttachKept, ClosersKept

\* A handler moves; the engine's side is as it was.
LEMMA HandlerMoves ==
  ASSUME AttachKept, NEW c \in Callers, UNCHANGED engVars, UNCHANGED <<srv, listening, closing, once, closer>>,
         DOMAIN hat' = Callers, DOMAIN conn' = Callers, DOMAIN got' = Callers, DOMAIN call' = Callers,
         \A d \in Callers \ {c} : hat'[d] = hat[d] /\ conn'[d] = conn[d] /\ got'[d] = got[d] /\ call'[d] = call[d],
         \A d \in Callers \ {c} : d \in reg' <=> d \in reg, reg' \subseteq Callers,
         CallerKept(c)', ConnKept(c)', hat[c] # "idle" \/ listening,
         closing /\ hat'[c] \in {"tracked", "hijacked", "offering", "session", "lingering"} =>
           hat[c] \in {"tracked", "hijacked", "offering", "session", "lingering"}
  PROVE  AttachKept'
<1>0. AttachRows /\ QueueOnce /\ ClosersKept /\ \A d \in Callers : CallerKept(d) /\ ConnKept(d)
  BY DEF AttachKept
<1>1. UNCHANGED <<queue, reply, did, sess>>
  BY DEF engVars
<1>2. \A d : InQueue(d)' <=> InQueue(d)
  BY <1>1 DEF InQueue
<1>3. ASSUME NEW d \in Callers \ {c} PROVE CallerKept(d)' /\ ConnKept(d)'
  <2>1. CallerKept(d)'
    BY <1>0, <1>1, <1>2, CallerStays
  <2>2. ConnKept(d)'
    BY <1>0 DEF ConnKept
  <2> QED
    BY <2>1, <2>2
<1>4. AttachRows' /\ QueueOnce'
  BY <1>0, <1>1 DEF AttachRows, QueueOnce
<1>5. closing => Tracked' \subseteq Tracked
  BY DEF Tracked
<1>6. ClosersKept'
  BY <1>5, ClosersStay
<1>7. ServedKept'
  <2>1. ServedKept
    BY DEF AttachKept
  <2>2. (\E d \in Callers : hat'[d] # "idle") => listening \/ \E d \in Callers : hat[d] # "idle"
    OBVIOUS
  <2> QED
    BY <2>1, <2>2 DEF ServedKept
<1> QED
  BY <1>3, <1>4, <1>6, <1>7 DEF AttachKept

\* A caller that is told something, field by field.
LEMMA IsTold ==
  ASSUME AttachRows, NEW c \in Callers, NEW what, Told(c, what)
  PROVE  /\ DOMAIN hat' = Callers /\ DOMAIN conn' = Callers /\ DOMAIN got' = Callers
         /\ hat'[c] = "gone" /\ conn'[c] = "closed" /\ got'[c] = what
         /\ \A d \in Callers \ {c} : hat'[d] = hat[d] /\ conn'[d] = conn[d] /\ got'[d] = got[d]
BY DEF AttachRows, Told

\* A handler that goes on, field by field.
LEMMA IsAt ==
  ASSUME AttachRows, NEW c \in Callers, NEW where, HandlerAt(c, where)
  PROVE  DOMAIN hat' = Callers /\ hat'[c] = where /\ \A d \in Callers \ {c} : hat'[d] = hat[d]
BY DEF AttachRows, HandlerAt

\* Telling a caller of whom the engine knows nothing a refusal, or any caller that
\* its connection was cut.
LEMMA ToldKept ==
  ASSUME AttachKept, NEW c \in Callers, NEW what \in Refusals \cup {"cut", "timeout"}, Told(c, what),
         UNCHANGED engVars, UNCHANGED <<srv, listening, closing, once, closer, call, reg>>,
         what \in {"unauthorized", "throttled"} => ~call[c].good,
         c \notin reg, what \in Refusals => Untouched(c),
         what = "timeout" => sess[c] = "none", hat[c] # "idle" \/ listening
  PROVE  AttachKept'
<1>0. AttachRows /\ CallerKept(c) /\ reg \subseteq Callers /\ DOMAIN call = Callers
  BY DEF AttachKept, ClosersKept, AttachRows
<1>1. /\ DOMAIN hat' = Callers /\ DOMAIN conn' = Callers /\ DOMAIN got' = Callers
      /\ hat'[c] = "gone" /\ conn'[c] = "closed" /\ got'[c] = what
      /\ \A d \in Callers \ {c} : hat'[d] = hat[d] /\ conn'[d] = conn[d] /\ got'[d] = got[d]
  BY <1>0, IsTold
<1>2. UNCHANGED <<queue, reply, did, sess>> /\ (InQueue(c)' <=> InQueue(c))
  BY DEF engVars, InQueue
<1>3. what # "none" /\ what # "ok"
  BY DEF Refusals
<1>4. CallerKept(c)'
  <2>1. CASE what \in Refusals
    BY <1>0, <1>1, <1>2, <1>3, <2>1 DEF CallerKept, Untouched, Refusals
  <2>2. CASE what \in {"cut", "timeout"}
    BY <1>0, <1>1, <1>2, <1>3, <2>2 DEF CallerKept, Untouched, Refusals
  <2> QED
    BY <2>1, <2>2
<1>5. ConnKept(c)'
  BY <1>1 DEF ConnKept
<1> QED
  BY <1>0, <1>1, <1>4, <1>5, HandlerMoves

\* Leaving a session: what the engine answered, or that the connection is gone.
LEMMA LeaveKept ==
  ASSUME AttachKept, NEW c \in Callers, NEW what, Leave(c, what), UNCHANGED engVars,
         UNCHANGED <<srv, listening, closing, once, closer, call>>, hat[c] \notin {"idle", "gone"},
         \/ what \in {"run_finished", "shutting_down"} /\ Untouched(c)
         \/ what = "cut"
         \/ what = reply[c] /\ reply[c] # "none"
  PROVE  AttachKept'
<1>0. AttachRows /\ CallerKept(c) /\ reg \subseteq Callers
  BY DEF AttachKept, ClosersKept
<1>1. /\ DOMAIN hat' = Callers /\ DOMAIN conn' = Callers /\ DOMAIN got' = Callers
      /\ hat'[c] = "gone" /\ conn'[c] = "closed" /\ got'[c] \in {what, "cut"} /\ c \notin reg'
      /\ \A d \in Callers \ {c} : hat'[d] = hat[d] /\ conn'[d] = conn[d] /\ got'[d] = got[d]
      /\ reg' \subseteq Callers /\ \A d \in Callers \ {c} : d \in reg' <=> d \in reg
  BY <1>0 DEF AttachRows, Leave, HandlerAt
<1>2. UNCHANGED <<queue, reply, did, sess>> /\ (InQueue(c)' <=> InQueue(c))
  BY DEF engVars, InQueue
<1>3. CallerKept(c)'
  <2>1. CASE got'[c] = "cut"
    BY <1>0, <1>1, <1>2, <2>1 DEF CallerKept, Untouched, Refusals
  <2>2. CASE got'[c] = what /\ what \in {"run_finished", "shutting_down"} /\ Untouched(c)
    BY <1>0, <1>1, <1>2, <2>2 DEF CallerKept, Untouched, Refusals
  <2>3. CASE got'[c] = what /\ what = reply[c] /\ reply[c] # "none"
    BY <1>0, <1>1, <1>2, <2>3 DEF CallerKept, Untouched, Refusals
  <2> QED
    BY <1>1, <2>1, <2>2, <2>3
<1>4. ConnKept(c)'
  BY <1>1 DEF ConnKept
<1>5. DOMAIN call' = Callers
  BY <1>0 DEF AttachRows
<1> QED
  BY <1>1, <1>3, <1>4, <1>5, HandlerMoves

\* A handler goes on from one place to the next, the engine still knowing nothing.
LEMMA GoesOn ==
  ASSUME AttachKept, NEW c \in Callers, NEW where \in {"arrived", "handler", "submit", "tracked", "hijacked", "offering"},
         hat[c] # "gone", hat[c] # "idle" \/ listening,
         HandlerAt(c, where), got' = got, UNCHANGED engVars, UNCHANGED <<srv, listening, closing, once, closer>>,
         DOMAIN conn' = Callers, DOMAIN call' = Callers,
         \A d \in Callers \ {c} : conn'[d] = conn[d] /\ call'[d] = call[d],
         Untouched(c),
         (reg' = reg /\ c \notin reg) \/ (reg' = reg \cup {c} /\ where = "offering"),
         conn'[c] = "taken" => where \in {"hijacked", "offering"},
         closing => where \notin {"tracked"} /\ (where \in {"hijacked", "offering"} => hat[c] \in {"tracked", "hijacked"})
  PROVE  AttachKept'
<1>0. AttachRows /\ CallerKept(c) /\ reg \subseteq Callers /\ DOMAIN got = Callers
  BY DEF AttachKept, ClosersKept, AttachRows
<1>1. DOMAIN hat' = Callers /\ hat'[c] = where /\ \A d \in Callers \ {c} : hat'[d] = hat[d]
  BY <1>0, IsAt
<1>2. UNCHANGED <<queue, reply, did, sess>> /\ (InQueue(c)' <=> InQueue(c))
  BY DEF engVars, InQueue
<1>3. got[c] = "none"
  BY <1>0 DEF CallerKept
<1>4. CallerKept(c)'
  BY <1>1, <1>2, <1>3 DEF CallerKept, Untouched, Refusals
<1>5. ConnKept(c)'
  BY <1>1 DEF ConnKept
<1> QED
  BY <1>0, <1>1, <1>4, <1>5, HandlerMoves

\* The handlers' steps up to the engine: admission, refusals, tracking, hijacking.
LEMMA HandlersActFirst ==
  ASSUME AttachKept, NEW c \in Callers,
         Call(c) \/ Admit(c) \/ handleControl(c) \/ ContextDone(c) \/ handleShell(c) \/ Hijack(c) \/ addShellConn(c)
  PROVE  AttachKept'
<1>0. AttachRows /\ CallerKept(c) /\ ConnKept(c)
  BY DEF AttachKept
<1>1. UNCHANGED engVars /\ UNCHANGED <<srv, listening, closing, once, closer>>
  BY DEF Call, Admit, handleControl, ContextDone, handleShell, Hijack, addShellConn, downVars
<1>2. CASE Call(c)
  <2>1. /\ listening /\ hat[c] = "idle" /\ HandlerAt(c, "arrived") /\ conn' = [conn EXCEPT ![c] = "http"]
        /\ UNCHANGED <<reg, got>>
    BY <1>2 DEF Call
  <2>2. PICK x : call' = [call EXCEPT ![c] = x]
    BY <1>2 DEF Call
  <2>3. /\ DOMAIN conn' = Callers /\ DOMAIN call' = Callers /\ conn'[c] = "http"
        /\ \A d \in Callers \ {c} : conn'[d] = conn[d] /\ call'[d] = call[d]
    BY <1>0, <2>1, <2>2 DEF AttachRows
  <2>4. c \notin reg /\ Untouched(c)
    BY <1>0, <2>1 DEF ConnKept, CallerKept
  <2> QED
    BY <1>1, <2>1, <2>3, <2>4, GoesOn
<1>3. ASSUME NEW where \in {"handler", "submit", "tracked", "hijacked"}, HandlerAt(c, where), UNCHANGED <<got, call, reg>>,
             hat[c] \in {"arrived", "handler", "tracked"}, DOMAIN conn' = Callers,
             \A d \in Callers \ {c} : conn'[d] = conn[d],
             conn'[c] = "taken" => where = "hijacked",
             closing => where # "tracked" /\ (where = "hijacked" => hat[c] = "tracked")
      PROVE  AttachKept'
  <2>1. c \notin reg /\ Untouched(c) /\ hat[c] # "gone"
    BY <1>0, <1>3 DEF ConnKept, CallerKept
  <2>2. DOMAIN call' = Callers
    BY <1>0, <1>3 DEF AttachRows
  <2> QED
    BY <1>1, <1>3, <2>1, <2>2, GoesOn
<1>4. conn[c] # "taken" => DOMAIN conn = Callers /\ conn[c] # "taken"
  BY <1>0 DEF AttachRows
<1>5. CASE Admit(c)
  <2>0. srv \in {"unix", "tcp"}
    BY <1>5 DEF Admit, AttachKept, ServedKept
  <2>1. /\ hat[c] = "arrived" /\ conn[c] = "http" /\ UNCHANGED <<call, reg>>
        /\ \/ HandlerAt(c, "handler") /\ UNCHANGED <<conn, got>>
           \/ Told(c, "cut")
           \/ ~call[c].good /\ (Told(c, "unauthorized") \/ Told(c, "throttled"))
    BY <1>5, <2>0 DEF Admit
  <2>2. c \notin reg /\ Untouched(c)
    BY <1>0, <2>1 DEF ConnKept, CallerKept
  <2>3. CASE HandlerAt(c, "handler") /\ UNCHANGED <<conn, got>>
    BY <1>3, <1>4, <2>1, <2>3
  <2>4. CASE Told(c, "cut")
    BY <1>1, <2>1, <2>2, <2>4, ToldKept
  <2>5. ASSUME NEW what \in {"unauthorized", "throttled"}, ~call[c].good, Told(c, what) PROVE AttachKept'
    <3>1. what \in Refusals
      BY DEF Refusals
    <3> QED
      BY <1>1, <2>1, <2>2, <2>5, <3>1, ToldKept
  <2> QED
    BY <2>1, <2>3, <2>4, <2>5
<1>6. CASE handleControl(c) \/ handleShell(c)
  <2>1. /\ hat[c] = "handler" /\ UNCHANGED <<call, reg>>
        /\ \/ Told(c, "read_only") \/ Told(c, "bad") \/ Told(c, "run_finished") \/ Told(c, "shutting_down")
           \/ \E where \in {"submit", "tracked"} :
                HandlerAt(c, where) /\ UNCHANGED <<conn, got>> /\ (closing => where # "tracked")
    <3>1. CASE handleControl(c)
      BY <3>1 DEF handleControl
    <3>2. CASE handleShell(c)
      BY <3>2 DEF handleShell, track
    <3> QED
      BY <1>6, <3>1, <3>2
  <2>2. c \notin reg /\ Untouched(c) /\ conn[c] # "taken"
    BY <1>0, <2>1 DEF ConnKept, CallerKept
  <2>3. ASSUME NEW what \in {"read_only", "bad", "run_finished", "shutting_down"}, Told(c, what) PROVE AttachKept'
    <3>1. what \in Refusals /\ what \notin {"unauthorized", "throttled", "timeout"}
      BY DEF Refusals
    <3> QED
      BY <1>1, <2>1, <2>2, <2>3, <3>1, ToldKept
  <2>4. ASSUME NEW where \in {"submit", "tracked"}, HandlerAt(c, where), UNCHANGED <<conn, got>>,
               closing => where # "tracked"
        PROVE  AttachKept'
    BY <1>3, <1>4, <2>1, <2>2, <2>4
  <2> QED
    BY <2>1, <2>3, <2>4
<1>7. CASE ContextDone(c)
  <2>1. /\ hat[c] \in {"arrived", "handler", "submit", "waiting"} /\ Told(c, "cut") /\ UNCHANGED <<call, reg>>
    BY <1>7 DEF ContextDone
  <2>2. c \notin reg
    BY <1>0, <2>1 DEF ConnKept
  <2>3. "cut" \notin Refusals
    BY DEF Refusals
  <2> QED
    BY <1>1, <2>1, <2>2, <2>3, ToldKept
<1>8. CASE Hijack(c)
  <2>1. /\ hat[c] = "tracked" /\ UNCHANGED <<call, reg>>
        /\ \/ HandlerAt(c, "hijacked") /\ conn' = [conn EXCEPT ![c] = "taken"] /\ UNCHANGED got
           \/ Told(c, "cut")
    BY <1>8 DEF Hijack
  <2>2. c \notin reg /\ "cut" \notin Refusals
    BY <1>0, <2>1 DEF ConnKept, Refusals
  <2>3. CASE HandlerAt(c, "hijacked") /\ conn' = [conn EXCEPT ![c] = "taken"] /\ UNCHANGED got
    <3>1. DOMAIN conn' = Callers /\ \A d \in Callers \ {c} : conn'[d] = conn[d]
      BY <1>0, <2>3 DEF AttachRows
    <3> QED
      BY <1>3, <2>1, <2>3, <3>1
  <2>4. CASE Told(c, "cut")
    BY <1>1, <2>1, <2>2, <2>4, ToldKept
  <2> QED
    BY <2>1, <2>3, <2>4
<1>9. CASE addShellConn(c)
  <2>1. /\ hat[c] = "hijacked" /\ UNCHANGED call
        /\ \/ Told(c, "cut") /\ UNCHANGED reg
           \/ ~closing /\ reg' = reg \cup {c} /\ HandlerAt(c, "offering") /\ UNCHANGED <<got, conn>>
    BY <1>9 DEF addShellConn
  <2>2. c \notin reg /\ "cut" \notin Refusals /\ Untouched(c)
    BY <1>0, <2>1 DEF ConnKept, Refusals, CallerKept
  <2>3. CASE ~closing /\ reg' = reg \cup {c} /\ HandlerAt(c, "offering") /\ UNCHANGED <<got, conn>>
    <3>1. DOMAIN conn' = Callers /\ DOMAIN call' = Callers
      BY <1>0, <2>1, <2>3 DEF AttachRows
    <3> QED
      BY <1>1, <2>1, <2>2, <2>3, <3>1, GoesOn
  <2>4. CASE Told(c, "cut") /\ UNCHANGED reg
    BY <1>1, <2>1, <2>2, <2>4, ToldKept
  <2> QED
    BY <2>1, <2>3, <2>4
<1> QED
  BY <1>2, <1>5, <1>6, <1>7, <1>8, <1>9

\* One request moves, on the server's side, on the engine's or on both.
LEMMA OneMoves ==
  ASSUME AttachKept, NEW c \in Callers, UNCHANGED <<srv, listening, closing, once, closer>>,
         AttachRows', QueueOnce', reg' \subseteq Callers,
         \A d \in Callers \ {c} : /\ hat'[d] = hat[d] /\ conn'[d] = conn[d] /\ got'[d] = got[d] /\ call'[d] = call[d]
                                  /\ reply'[d] = reply[d] /\ sess'[d] = sess[d]
                                  /\ (d \in reg' <=> d \in reg) /\ (d \in did' <=> d \in did)
                                  /\ (InQueue(d)' <=> InQueue(d)),
         CallerKept(c)', ConnKept(c)', hat[c] # "idle" \/ hat'[c] = "idle",
         closing /\ hat'[c] \in {"tracked", "hijacked", "offering", "session", "lingering"} =>
           hat[c] \in {"tracked", "hijacked", "offering", "session", "lingering"}
  PROVE  AttachKept'
<1>0. ClosersKept /\ ServedKept /\ \A d \in Callers : CallerKept(d) /\ ConnKept(d)
  BY DEF AttachKept
<1>1. ASSUME NEW d \in Callers \ {c} PROVE CallerKept(d)' /\ ConnKept(d)'
  <2>1. CallerKept(d)'
    BY <1>0, CallerStays
  <2>2. ConnKept(d)'
    BY <1>0 DEF ConnKept
  <2> QED
    BY <2>1, <2>2
<1>2. closing => Tracked' \subseteq Tracked
  BY DEF Tracked
<1>3. ClosersKept'
  BY <1>2, ClosersStay
<1>4. ServedKept'
  <2>1. (\E d \in Callers : hat'[d] # "idle") => \E d \in Callers : hat[d] # "idle"
    OBVIOUS
  <2> QED
    BY <1>0, <2>1 DEF ServedKept
<1> QED
  BY <1>1, <1>3, <1>4 DEF AttachKept

\* The head leaves the queue; everybody else keeps the place.
LEMMA HeadLeaves ==
  ASSUME QueueOnce, queue # <<>>, queue' = Tail(queue), NEW h, h = Head(queue)
  PROVE  /\ h \in Callers /\ InQueue(h) /\ ~InQueue(h)' /\ QueueOnce'
         /\ \A d : d # h => (InQueue(d)' <=> InQueue(d))
<1>1. /\ queue \in Seq(Callers) /\ Len(queue) \in Nat \ {0} /\ h = queue[1] /\ 1 \in 1..Len(queue)
      /\ \A i, j \in 1..Len(queue) : queue[i] = queue[j] => i = j
  BY DEF QueueOnce
<1>2. /\ queue' \in Seq(Callers) /\ Len(queue') = Len(queue) - 1
      /\ \A i \in 1..Len(queue') : i + 1 \in 1..Len(queue) /\ queue'[i] = queue[i + 1]
  BY <1>1
<1>3. h \in Callers /\ InQueue(h)
  BY <1>1 DEF InQueue
<1>4. ASSUME NEW i \in 1..Len(queue'), queue'[i] = h PROVE FALSE
  <2>1. i + 1 = 1
    BY <1>1, <1>2, <1>4
  <2> QED
    BY <2>1
<1>5. QueueOnce'
  <2>1. ASSUME NEW i \in 1..Len(queue'), NEW j \in 1..Len(queue'), queue'[i] = queue'[j] PROVE i = j
    <3>1. i + 1 = j + 1
      BY <1>1, <1>2, <2>1
    <3> QED
      BY <3>1
  <2> QED
    BY <1>2, <2>1 DEF QueueOnce
<1>6. ASSUME NEW d, d # h PROVE InQueue(d)' <=> InQueue(d)
  <2>1. ASSUME InQueue(d)' PROVE InQueue(d)
    BY <1>2, <2>1 DEF InQueue
  <2>2. ASSUME InQueue(d) PROVE InQueue(d)'
    <3>1. PICK i \in 1..Len(queue) : queue[i] = d
      BY <2>2 DEF InQueue
    <3>2. i # 1 /\ i - 1 \in 1..Len(queue') /\ (i - 1) + 1 = i
      BY <1>1, <1>2, <1>6, <3>1
    <3>3. queue'[i - 1] = d
      BY <1>2, <3>1, <3>2
    <3> QED
      BY <3>2, <3>3 DEF InQueue
  <2> QED
    BY <2>1, <2>2
<1> QED
  BY <1>1, <1>3, <1>4, <1>5, <1>6 DEF InQueue

\* A request that is not in the queue joins it.
LEMMA JoinsQueue ==
  ASSUME QueueOnce, NEW c \in Callers, ~InQueue(c), queue' = Append(queue, c)
  PROVE  QueueOnce' /\ \A d : d # c => (InQueue(d)' <=> InQueue(d))
<1>1. /\ queue \in Seq(Callers) /\ Len(queue) \in Nat
      /\ \A i, j \in 1..Len(queue) : queue[i] = queue[j] => i = j
      /\ \A i \in 1..Len(queue) : queue[i] # c
  BY DEF QueueOnce, InQueue
<1>2. /\ queue' \in Seq(Callers) /\ Len(queue') = Len(queue) + 1 /\ queue'[Len(queue')] = c
      /\ \A i \in 1..Len(queue) : i \in 1..Len(queue') /\ queue'[i] = queue[i]
  BY <1>1
<1>3. \A i \in 1..Len(queue') : i \in 1..Len(queue) \/ i = Len(queue')
  BY <1>1, <1>2
<1>4. QueueOnce'
  <2>1. ASSUME NEW i \in 1..Len(queue'), NEW j \in 1..Len(queue'), queue'[i] = queue'[j] PROVE i = j
    BY <1>1, <1>2, <1>3, <2>1
  <2> QED
    BY <1>2, <2>1 DEF QueueOnce
<1>5. ASSUME NEW d, d # c PROVE InQueue(d)' <=> InQueue(d)
  <2>1. ASSUME InQueue(d)' PROVE InQueue(d)
    BY <1>2, <1>3, <1>5, <2>1 DEF InQueue
  <2>2. ASSUME InQueue(d) PROVE InQueue(d)'
    BY <1>2, <2>2 DEF InQueue
  <2> QED
    BY <2>1, <2>2
<1> QED
  BY <1>4, <1>5

\* submitControl and the wait for its reply.
LEMMA ControlKept ==
  ASSUME AttachKept, NEW c \in Callers, submitControl(c) \/ awaitReply(c)
  PROVE  AttachKept'
<1>0. AttachRows /\ QueueOnce /\ CallerKept(c) /\ ConnKept(c) /\ reg \subseteq Callers
  BY DEF AttachKept, ClosersKept
<1>1. /\ UNCHANGED <<srv, listening, closing, once, closer, call, reg, reply, did, sess>>
      /\ hat[c] \in {"submit", "waiting"}
  BY DEF submitControl, awaitReply, engVars, downVars
<1>2. c \notin reg
  BY <1>0, <1>1 DEF ConnKept
<1>3. CASE submitControl(c) /\ Len(queue) < ControlSlots
  <2>1. /\ queue' = Append(queue, c) /\ HandlerAt(c, "waiting") /\ got' = got /\ conn' = conn /\ hat[c] = "submit"
    BY <1>3 DEF submitControl
  <2>2. Untouched(c) /\ got[c] = "none" /\ conn[c] # "taken"
    BY <1>0, <2>1 DEF CallerKept, ConnKept
  <2>3. DOMAIN hat' = Callers /\ hat'[c] = "waiting" /\ \A d \in Callers \ {c} : hat'[d] = hat[d]
    BY <1>0, <2>1, IsAt
  <2>4. QueueOnce' /\ \A d : d # c => (InQueue(d)' <=> InQueue(d))
    BY <1>0, <2>1, <2>2, JoinsQueue DEF Untouched
  <2>5. CallerKept(c)'
    BY <1>1, <2>1, <2>2, <2>3 DEF CallerKept, Untouched, Refusals
  <2>6. ConnKept(c)'
    BY <1>1, <1>2, <2>1, <2>2 DEF ConnKept
  <2>7. AttachRows'
    BY <1>0, <1>1, <2>1, <2>3 DEF AttachRows
  <2> QED
    BY <1>0, <1>1, <2>1, <2>3, <2>4, <2>5, <2>6, <2>7, OneMoves
<1>4. CASE submitControl(c) /\ ~(Len(queue) < ControlSlots)
  <2>1. Told(c, "unavailable") /\ UNCHANGED engVars /\ hat[c] = "submit"
    BY <1>4 DEF submitControl, engVars
  <2>2. Untouched(c)
    BY <1>0, <2>1 DEF CallerKept
  <2>3. "unavailable" \in Refusals
    BY DEF Refusals
  <2> QED
    BY <1>1, <1>2, <2>1, <2>2, <2>3, ToldKept
<1>5. CASE awaitReply(c)
  <2> DEFINE what == IF reply[c] # "none" THEN reply[c] ELSE "timeout"
  <2>1. Told(c, what) /\ UNCHANGED engVars /\ hat[c] = "waiting" /\ sess[c] = "none"
    BY <1>0, <1>5 DEF awaitReply, CallerKept
  <2>2. (what = reply[c] /\ reply[c] \in {"ok", "refused"}) \/ (what = "timeout" /\ reply[c] = "none")
    BY <1>0 DEF CallerKept
  <2> HIDE DEF what
  <2>3. /\ DOMAIN hat' = Callers /\ DOMAIN conn' = Callers /\ DOMAIN got' = Callers
        /\ hat'[c] = "gone" /\ conn'[c] = "closed" /\ got'[c] = what
        /\ \A d \in Callers \ {c} : hat'[d] = hat[d] /\ conn'[d] = conn[d] /\ got'[d] = got[d]
    BY <1>0, <2>1, IsTold
  <2>4. UNCHANGED <<queue, reply, did, sess>> /\ (InQueue(c)' <=> InQueue(c))
    BY <2>1 DEF engVars, InQueue
  <2>5. CallerKept(c)'
    BY <1>0, <1>1, <2>1, <2>2, <2>3, <2>4 DEF CallerKept, Untouched, Refusals
  <2>6. ConnKept(c)'
    BY <1>1, <1>2, <2>3 DEF ConnKept
  <2>7. DOMAIN call' = Callers
    BY <1>0, <1>1 DEF AttachRows
  <2> QED
    BY <1>0, <1>1, <2>1, <2>3, <2>5, <2>6, <2>7, HandlerMoves
<1> QED
  BY <1>3, <1>4, <1>5

\* The engine's loop answers the head of the queue.
LEMMA EngineAnswers ==
  ASSUME AttachKept, EngineControl
  PROVE  AttachKept'
<1>c. PICK c : c = Head(queue)
  OBVIOUS
<1>0. AttachRows /\ QueueOnce /\ reg \subseteq Callers /\ \A d \in Callers : CallerKept(d) /\ ConnKept(d)
  BY DEF AttachKept, ClosersKept
<1>1. /\ queue # <<>> /\ queue' = Tail(queue)
      /\ UNCHANGED <<srv, listening, closing, once, closer, hat, conn, got, call, reg, sess>>
      /\ \/ reply' = [reply EXCEPT ![c] = "ok"] /\ did' = did \cup {c}
         \/ reply' = [reply EXCEPT ![c] = "refused"] /\ did' = did
  BY <1>c DEF EngineControl, reqVars, downVars
<1>2. /\ c \in Callers /\ InQueue(c) /\ ~InQueue(c)' /\ QueueOnce'
      /\ \A d : d # c => (InQueue(d)' <=> InQueue(d))
  BY <1>0, <1>1, <1>c, HeadLeaves
<1>3. /\ DOMAIN reply' = Callers /\ \A d \in Callers \ {c} : reply'[d] = reply[d] /\ (d \in did' <=> d \in did)
      /\ \/ reply'[c] = "ok" /\ c \in did'
         \/ reply'[c] = "refused" /\ (c \in did' <=> c \in did)
  BY <1>0, <1>1, <1>2 DEF AttachRows
<1>4. CallerKept(c) /\ ConnKept(c)
  BY <1>0, <1>2
<1>5. CallerKept(c)'
  BY <1>1, <1>2, <1>3, <1>4 DEF CallerKept, Untouched, Refusals
<1>6. ConnKept(c)'
  BY <1>1, <1>4 DEF ConnKept
<1>7. AttachRows'
  BY <1>0, <1>1, <1>3 DEF AttachRows
<1> QED
  BY <1>0, <1>1, <1>2, <1>3, <1>5, <1>6, <1>7, OneMoves

\* Handing a session to the engine, and the wait for its end.
LEMMA SessionHandled ==
  ASSUME AttachKept, NEW c \in Callers, Offer(c) \/ sessionWait(c)
  PROVE  AttachKept'
<1>0. AttachRows /\ QueueOnce /\ CallerKept(c) /\ ConnKept(c) /\ reg \subseteq Callers
  BY DEF AttachKept, ClosersKept
<1>1. UNCHANGED <<srv, listening, closing, once, closer, call, queue, reply, did>>
  BY DEF Offer, sessionWait, engVars, downVars
<1>2. InQueue(c)' <=> InQueue(c)
  BY <1>1 DEF InQueue
<1>3. CASE Offer(c) /\ Leave(c, "run_finished") /\ UNCHANGED sess
  <2>1. hat[c] = "offering" /\ UNCHANGED engVars
    BY <1>3 DEF Offer, engVars
  <2>2. Untouched(c)
    BY <1>0, <2>1 DEF CallerKept
  <2> QED
    BY <1>1, <1>3, <2>1, <2>2, LeaveKept
<1>4. CASE Offer(c) /\ Leave(c, "shutting_down") /\ UNCHANGED sess
  <2>1. hat[c] = "offering" /\ UNCHANGED engVars
    BY <1>4 DEF Offer, engVars
  <2>2. Untouched(c)
    BY <1>0, <2>1 DEF CallerKept
  <2> QED
    BY <1>1, <1>4, <2>1, <2>2, LeaveKept
<1>5. CASE Offer(c) /\ sess' = [sess EXCEPT ![c] = "received"] /\ HandlerAt(c, "session") /\ UNCHANGED <<got, conn, reg>>
  <2>1. hat[c] = "offering" /\ Untouched(c) /\ got[c] = "none"
    BY <1>0, <1>5 DEF Offer, CallerKept
  <2>2. DOMAIN hat' = Callers /\ hat'[c] = "session" /\ \A d \in Callers \ {c} : hat'[d] = hat[d]
    BY <1>0, <1>5, IsAt
  <2>3. DOMAIN sess' = Callers /\ sess'[c] = "received" /\ \A d \in Callers \ {c} : sess'[d] = sess[d]
    BY <1>0, <1>5 DEF AttachRows
  <2>4. CallerKept(c)'
    BY <1>1, <1>2, <1>5, <2>1, <2>2, <2>3 DEF CallerKept, Untouched, Refusals
  <2>5. ConnKept(c)'
    BY <2>2 DEF ConnKept
  <2>6. AttachRows' /\ QueueOnce' /\ \A d : InQueue(d)' <=> InQueue(d)
    BY <1>0, <1>1, <1>5, <2>2, <2>3 DEF AttachRows, QueueOnce, InQueue
  <2> QED
    BY <1>0, <1>1, <1>5, <2>1, <2>2, <2>3, <2>4, <2>5, <2>6, OneMoves
<1>6. CASE sessionWait(c)
  <2>1. UNCHANGED engVars /\ hat[c] \in {"session", "lingering"}
    BY <1>6 DEF sessionWait
  <2>2. CASE (reply[c] # "none" /\ Leave(c, reply[c])) \/ Leave(c, "cut")
    BY <1>1, <2>1, <2>2, LeaveKept
  <2>3. CASE HandlerAt(c, "lingering") /\ UNCHANGED <<got, conn, reg>>
    <3>1. DOMAIN hat' = Callers /\ hat'[c] = "lingering" /\ \A d \in Callers \ {c} : hat'[d] = hat[d]
      BY <1>0, <2>3, IsAt
    <3>2. UNCHANGED <<queue, reply, did, sess>>
      BY <2>1 DEF engVars
    <3>3. CallerKept(c)'
      BY <1>0, <1>1, <1>2, <2>1, <2>3, <3>1, <3>2 DEF CallerKept, Untouched, Refusals
    <3>4. ConnKept(c)'
      BY <3>1 DEF ConnKept
    <3>5. DOMAIN conn' = Callers /\ DOMAIN got' = Callers /\ DOMAIN call' = Callers
      BY <1>0, <1>1, <2>3 DEF AttachRows
    <3> QED
      BY <1>0, <1>1, <2>1, <2>3, <3>1, <3>3, <3>4, <3>5, HandlerMoves
  <2> QED
    BY <1>6, <2>2, <2>3 DEF sessionWait
<1> QED
  BY <1>3, <1>4, <1>5, <1>6 DEF Offer

\* A session moves on the engine's side.
LEMMA SessionMoves ==
  ASSUME AttachKept, NEW c \in Callers, SessionStep(c)
  PROVE  AttachKept'
<1>0. AttachRows /\ QueueOnce /\ CallerKept(c) /\ ConnKept(c) /\ reg \subseteq Callers
  BY DEF AttachKept, ClosersKept
<1>1. UNCHANGED <<srv, listening, closing, once, closer, call, hat, conn, got, reg, queue>>
  BY DEF SessionStep, resolveShellStep, dispatchShell, runShellSession, ShellSessionEnds, reqVars, downVars
<1>2. \E s, a :
        /\ sess' = [sess EXCEPT ![c] = s]
        /\ reply' = [reply EXCEPT ![c] = a] \/ (reply' = reply /\ a = reply[c])
        /\ \/ sess[c] \in {"received", "counted"} /\ s = "ended" /\ a = "refused" /\ did' = did
           \/ sess[c] = "received" /\ s = "resolved" /\ a = reply[c] /\ did' = did
           \/ sess[c] = "resolved" /\ s = "counted" /\ a = reply[c] /\ did' = did
           \/ sess[c] = "counted" /\ s = "running" /\ a = reply[c] /\ did' = did \cup {c}
           \/ sess[c] = "running" /\ s = "ended" /\ a = "ok" /\ did' = did
  <2>1. CASE resolveShellStep(c)
    BY <2>1 DEF resolveShellStep, refuseShell, SessIs
  <2>2. CASE dispatchShell(c)
    BY <2>2 DEF dispatchShell, SessIs
  <2>3. CASE runShellSession(c)
    BY <2>3 DEF runShellSession, refuseShell, SessIs
  <2>4. CASE ShellSessionEnds(c)
    BY <2>4 DEF ShellSessionEnds, SessIs
  <2> QED
    BY <2>1, <2>2, <2>3, <2>4 DEF SessionStep
<1>3. /\ DOMAIN sess' = Callers /\ DOMAIN reply' = Callers
      /\ \A d \in Callers \ {c} : sess'[d] = sess[d] /\ reply'[d] = reply[d] /\ (d \in did' <=> d \in did)
      /\ \/ sess[c] \in {"received", "counted"} /\ sess'[c] = "ended" /\ reply'[c] = "refused" /\ did' = did
         \/ sess[c] = "received" /\ sess'[c] = "resolved" /\ reply'[c] = reply[c] /\ did' = did
         \/ sess[c] = "resolved" /\ sess'[c] = "counted" /\ reply'[c] = reply[c] /\ did' = did
         \/ sess[c] = "counted" /\ sess'[c] = "running" /\ reply'[c] = reply[c] /\ c \in did'
         \/ sess[c] = "running" /\ sess'[c] = "ended" /\ reply'[c] = "ok" /\ did' = did
  BY <1>0, <1>2 DEF AttachRows
<1>4. QueueOnce' /\ \A d : InQueue(d)' <=> InQueue(d)
  BY <1>0, <1>1 DEF QueueOnce, InQueue
<1>5. CallerKept(c)'
  BY <1>0, <1>1, <1>3, <1>4 DEF CallerKept, Untouched, Refusals
<1>6. ConnKept(c)' /\ AttachRows'
  BY <1>0, <1>1, <1>3 DEF ConnKept, AttachRows
<1> QED
  BY <1>0, <1>1, <1>3, <1>4, <1>5, <1>6, OneMoves

\* The requests stay where they are, and a connection is at most closed.
LEMMA ConnsClose ==
  ASSUME AttachKept, UNCHANGED <<hat, got, call, queue, reply, did, sess>>,
         DOMAIN conn' = Callers, \A d \in Callers : conn'[d] \in {conn[d], "closed"}, reg' \subseteq reg,
         DOMAIN closer' = Closers, closing' \in {TRUE, FALSE},
         ClosersKept', ServedKept'
  PROVE  AttachKept'
<1>0. AttachRows /\ QueueOnce /\ \A d \in Callers : CallerKept(d) /\ ConnKept(d)
  BY DEF AttachKept
<1>1. QueueOnce' /\ \A d : InQueue(d)' <=> InQueue(d)
  BY <1>0 DEF QueueOnce, InQueue
<1>2. ASSUME NEW d \in Callers PROVE CallerKept(d)' /\ ConnKept(d)'
  <2>1. CallerKept(d)'
    BY <1>0, <1>1, CallerStays
  <2>2. ConnKept(d)'
    BY <1>0 DEF ConnKept
  <2> QED
    BY <2>1, <2>2
<1>3. AttachRows'
  BY <1>0 DEF AttachRows
<1> QED
  BY <1>1, <1>2, <1>3 DEF AttachKept

\* The run's own end, the listener, the refill and a client that goes.
LEMMA OthersKept ==
  ASSUME AttachKept,
         \/ listen \/ Refill \/ closeShells \/ shellsWaited \/ RunEnds \/ HubCloses
         \/ \E c \in Callers : ClientLeaves(c)
         \/ UNCHANGED attachVars
  PROVE  AttachKept'
<1>0. AttachRows /\ ClosersKept /\ ServedKept
  BY DEF AttachKept
<1>1. UNCHANGED <<hat, got, call, queue, reply, did, sess, reg, closing, once, closer>>
  BY DEF listen, Refill, closeShells, shellsWaited, RunEnds, HubCloses, ClientLeaves, reqVars, engVars, downVars, attachVars
<1>2. DOMAIN conn' = Callers /\ \A d \in Callers : conn'[d] \in {conn[d], "closed"}
  <2>1. conn' = conn \/ \E c \in Callers : conn' = [conn EXCEPT ![c] = "closed"]
    BY DEF listen, Refill, closeShells, shellsWaited, RunEnds, HubCloses, ClientLeaves, reqVars, engVars, downVars, attachVars
  <2> QED
    BY <1>0, <2>1 DEF AttachRows
<1>3. ServedKept'
  <2>1. CASE listen
    <3>1. /\ srv = "down" /\ \A d \in Callers : hat[d] = "idle"
      BY <1>0, <2>1 DEF ServedKept, listen
    <3>2. listening' => srv' \in {"unix", "tcp"}
      BY <2>1 DEF listen
    <3> QED
      BY <1>1, <3>1, <3>2 DEF ServedKept
  <2>2. CASE ~listen
    <3>1. UNCHANGED <<srv, listening>>
      BY <2>2 DEF Refill, closeShells, shellsWaited, RunEnds, HubCloses, ClientLeaves, downVars, attachVars
    <3> QED
      BY <1>0, <1>1, <3>1 DEF ServedKept
  <2> QED
    BY <2>1, <2>2
<1>4. ClosersKept'
  <2>1. Tracked' = Tracked
    BY <1>1 DEF Tracked
  <2> QED
    BY <1>0, <1>1, <2>1 DEF ClosersKept
<1>5. DOMAIN closer' = Closers /\ closing' \in {TRUE, FALSE}
  BY <1>0, <1>1 DEF AttachRows
<1> QED
  BY <1>1, <1>2, <1>3, <1>4, <1>5, ConnsClose

\* A Close call moves.
LEMMA ClosingKept ==
  ASSUME AttachKept, NEW k \in Closers, AttachClose(k) \/ CloseStep(k)
  PROVE  AttachKept'
<1>0. AttachRows /\ ClosersKept /\ ServedKept
  BY DEF AttachKept
<1>1. UNCHANGED <<hat, got, call, queue, reply, did, sess, srv>> /\ (listening' => listening)
  BY DEF AttachClose, CloseStep, preDrain, closeShellConns, httpClose, wgWait, reqVars, engVars
<1>2. DOMAIN conn' = Callers /\ (\A d \in Callers : conn'[d] \in {conn[d], "closed"}) /\ reg' \subseteq reg
  <2>1. /\ conn' = conn \/ conn' = [c \in Callers |-> IF c \in reg THEN "closed" ELSE conn[c]]
           \/ conn' = [c \in Callers |-> IF conn[c] = "http" THEN "closed" ELSE conn[c]]
        /\ reg' \in {reg, {}}
    BY DEF AttachClose, CloseStep, preDrain, closeShellConns, httpClose, wgWait, reqVars
  <2> QED
    BY <1>0, <2>1 DEF AttachRows
<1>3. \E where \in {"drain", "once", "conns", "http", "wait", "returned"} :
        /\ closer' = [closer EXCEPT ![k] = where]
        /\ where = "returned" => Tracked = {}
  BY DEF AttachClose, CloseStep, preDrain, closeShellConns, httpClose, wgWait, CloserAt
<1>4. /\ closing' \in {TRUE, FALSE} /\ closing' /\ (once' # "free" => closing')
  BY <1>0 DEF AttachRows, ClosersKept, AttachClose, CloseStep, preDrain, closeShellConns, httpClose, wgWait
<1>5. /\ DOMAIN closer' = Closers
      /\ \A j \in Closers : closer'[j] = "returned" => Tracked = {}
  BY <1>0, <1>3 DEF AttachRows, ClosersKept
<1>6. Tracked' = Tracked /\ reg' \subseteq Callers
  BY <1>0, <1>1, <1>2 DEF Tracked, ClosersKept
<1>7. ClosersKept'
  BY <1>4, <1>5, <1>6 DEF ClosersKept
<1>8. ServedKept'
  BY <1>0, <1>1 DEF ServedKept
<1> QED
  BY <1>1, <1>2, <1>4, <1>5, <1>7, <1>8, ConnsClose

\* The invariant of the attach server.
LEMMA AttachHolds == AttachSpec => []AttachKept
<1>1. AttachInit => AttachKept
  <2>1. ASSUME AttachInit PROVE AttachKept
    <3>0. AttachRows
      BY <2>1 DEF AttachInit, AttachRows
    <3>q. QueueOnce
      <4>1. queue = <<>>
        BY <2>1 DEF AttachInit
      <4> QED
        BY <4>1 DEF QueueOnce
    <3>1. ClosersKept /\ ServedKept
      BY <2>1 DEF AttachInit, ClosersKept, ServedKept
    <3>2. ASSUME NEW c \in Callers PROVE CallerKept(c) /\ ConnKept(c)
      BY <2>1, <3>2 DEF AttachInit, CallerKept, ConnKept, Untouched, InQueue, Refusals
    <3> QED
      BY <3>0, <3>q, <3>1, <3>2 DEF AttachKept
  <2> QED
    BY <2>1
<1>2. AttachKept /\ [AttachNext]_attachVars => AttachKept'
  <2>1. ASSUME AttachKept, AttachNext PROVE AttachKept'
    BY <2>1, OthersKept, EngineAnswers, HandlersActFirst, ControlKept, SessionHandled, SessionMoves, ClosingKept
       DEF AttachNext, HandlerStep
  <2>2. ASSUME AttachKept, UNCHANGED attachVars PROVE AttachKept'
    BY <2>2, OthersKept
  <2> QED
    BY <2>1, <2>2
<1> QED
  BY <1>1, <1>2, PTL DEF AttachSpec

\* The invariant says what a client may rely on.
LEMMA AttachTellsTheTruth == AttachKept => AttachIsHonest
<1> SUFFICES ASSUME AttachKept PROVE AttachIsHonest
  OBVIOUS
<1>1. ASSUME NEW k \in Closers, closer[k] = "returned"
      PROVE  Tracked = {} /\ reg = {} /\ \A c \in Callers : conn[c] # "taken"
  <2>1. Tracked = {} /\ reg \subseteq Callers /\ \A c \in Callers : ConnKept(c)
    BY <1>1 DEF AttachKept, ClosersKept
  <2> QED
    BY <2>1 DEF ConnKept, Tracked
<1>2. ASSUME NEW c \in Callers
      PROVE  /\ got[c] \in Refusals => c \notin did
             /\ got[c] = "ok" => c \in did
             /\ got[c] \in {"unauthorized", "throttled"} => ~call[c].good
  BY DEF AttachKept, CallerKept
<1> QED
  BY <1>1, <1>2 DEF AttachIsHonest
-----------------------------------------------------------------------------
(* Stretches of a file.                                                    *)

\* The sequence r is the part of the file g that ends with its element e.
Stretch(r, S, g, e) ==
  /\ r \in Seq(S) /\ Len(r) <= e
  /\ \A i \in 1..Len(r) : r[i] = g[e - Len(r) + i]

\* One that ends where the next begins is one with it.
LEMMA StretchJoins ==
  ASSUME NEW S, NEW g, NEW r, NEW b, NEW m \in Nat, NEW e \in Nat, Stretch(r, S, g, m), Stretch(b, S, g, e), m = e - Len(b)
  PROVE  Stretch(r \o b, S, g, e) /\ Len(r \o b) = Len(r) + Len(b)
<1>1. r \in Seq(S) /\ Len(r) \in Nat /\ Len(r) <= m /\ \A i \in 1..Len(r) : r[i] = g[m - Len(r) + i]
  BY DEF Stretch
<1>2. b \in Seq(S) /\ Len(b) \in Nat /\ Len(b) <= e /\ \A i \in 1..Len(b) : b[i] = g[e - Len(b) + i]
  BY DEF Stretch
<1>3. /\ r \o b \in Seq(S) /\ Len(r \o b) = Len(r) + Len(b)
      /\ \A i \in 1..(Len(r) + Len(b)) : (r \o b)[i] = IF i <= Len(r) THEN r[i] ELSE b[i - Len(r)]
  BY <1>1, <1>2, ConcatProperties
<1>4. ASSUME NEW i \in 1..(Len(r) + Len(b)) PROVE (r \o b)[i] = g[e - (Len(r) + Len(b)) + i]
  <2>1. CASE i <= Len(r)
    <3>1. i \in 1..Len(r) /\ m - Len(r) + i = e - (Len(r) + Len(b)) + i
      BY <1>1, <1>2, <2>1
    <3>2. (r \o b)[i] = r[i]
      BY <1>3, <2>1
    <3>3. r[i] = g[m - Len(r) + i]
      BY <1>1, <3>1
    <3> QED
      BY <3>1, <3>2, <3>3
  <2>2. CASE ~(i <= Len(r))
    <3>1. i - Len(r) \in 1..Len(b) /\ e - Len(b) + (i - Len(r)) = e - (Len(r) + Len(b)) + i
      BY <1>1, <1>2, <2>2
    <3>2. (r \o b)[i] = b[i - Len(r)]
      BY <1>3, <2>2
    <3>3. b[i - Len(r)] = g[e - Len(b) + (i - Len(r))]
      BY <1>2, <3>1
    <3> QED
      BY <3>1, <3>2, <3>3
  <2> QED
    BY <2>1, <2>2
<1>5. Len(r) + Len(b) <= e
  BY <1>1, <1>2
<1> QED
  BY <1>3, <1>4, <1>5 DEF Stretch

\* The end of one is one.
LEMMA StretchSuffix ==
  ASSUME NEW S, NEW g, NEW r, NEW e \in Nat, Stretch(r, S, g, e), NEW m \in Nat \ {0}
  PROVE  /\ Stretch(SubSeq(r, m, Len(r)), S, g, e)
         /\ Len(SubSeq(r, m, Len(r))) = IF m <= Len(r) THEN Len(r) - m + 1 ELSE 0
<1>1. r \in Seq(S) /\ Len(r) \in Nat /\ Len(r) <= e /\ \A i \in 1..Len(r) : r[i] = g[e - Len(r) + i]
  BY DEF Stretch
<1> DEFINE n == Len(r)
           s == SubSeq(r, m, n)
<1>2. s \in Seq(S) /\ Len(s) = (IF m <= n THEN n - m + 1 ELSE 0) /\ \A i \in 1..(n - m + 1) : s[i] = r[m + i - 1]
  <2>1. m \in Int /\ n \in Int /\ \A i \in m..n : r[i] \in S
    <3>1. ASSUME NEW i \in m..n PROVE r[i] \in S
      <4>1. i \in 1..Len(r)
        BY <1>1
      <4> QED
        BY <1>1, <4>1
    <3> QED
      BY <1>1, <3>1
  <2> QED
    BY <1>1, <2>1, SubSeqProperties
<1>3. n \in Nat /\ n <= e
  BY <1>1
<1>4. \A i \in 1..n : r[i] = g[e - n + i]
  BY <1>1
<1> HIDE DEF n, s
<1>5. CASE m <= n
  <2>1. Len(s) = n - m + 1 /\ n - m + 1 <= e
    BY <1>2, <1>3, <1>5
  <2>2. ASSUME NEW i \in 1..(n - m + 1) PROVE s[i] = g[e - (n - m + 1) + i]
    <3>1. m + i - 1 \in 1..n /\ e - n + (m + i - 1) = e - (n - m + 1) + i
      BY <1>3, <1>5
    <3>2. s[i] = r[m + i - 1]
      BY <1>2
    <3>3. r[m + i - 1] = g[e - n + (m + i - 1)]
      BY <1>4, <3>1
    <3> QED
      BY <3>1, <3>2, <3>3
  <2> QED
    BY <1>2, <2>1, <2>2 DEF Stretch, n, s
<1>6. CASE ~(m <= n)
  <2>1. Len(s) = 0 /\ 0 <= e /\ 1..0 = {}
    BY <1>2, <1>6
  <2> QED
    BY <1>2, <1>6, <2>1 DEF Stretch, n, s
<1> QED
  BY <1>5, <1>6

\* A block read from a file is one.
LEMMA StretchRead ==
  ASSUME NEW S, NEW g, NEW from \in Nat, NEW n \in Nat, NEW b \in [1..n -> S], \A i \in 1..n : b[i] = g[from + i]
  PROVE  Stretch(b, S, g, from + n) /\ Len(b) = n
<1>2. b \in Seq(S)
  BY SeqDef
<1>3. Len(b) = n
  <2>1. DOMAIN b = 1..n
    OBVIOUS
  <2>2. DOMAIN b = 1..Len(b) /\ Len(b) \in Nat
    BY <1>2, LenProperties
  <2> QED
    BY <2>1, <2>2
<1>4. \A i \in 1..n : b[i] = g[from + i] /\ (from + n) - n + i = from + i
  OBVIOUS
<1>5. Stretch(b, S, g, from + n)
  BY <1>2, <1>3, <1>4 DEF Stretch
<1> QED
  BY <1>3, <1>5

-----------------------------------------------------------------------------
(* The terminal's pane.                                                    *)

\* An attempt's log, and a stretch of it.
PaneLines == Nat \X Nat
LinesAre(a) == [n \in Nat |-> <<a, n>>]
PaneStretch(r, a, e) == Stretch(r, PaneLines, LinesAre(a), e)

PaneTypes ==
  /\ logLen \in [1..PaneAttempts -> 0..LogLines] /\ runsAt \in 1..PaneAttempts /\ foldAt \in 0..runsAt
  /\ ringEnd \in 0..LogLines /\ logOffset \in 0..LogLines /\ have \in 0..(LogLines + 1) /\ older \in 0..(LogLines + 1)
Asked(q) ==
  /\ q \in [at : {"none", "issued", "data", "error"}, from : 0..LogLines, to : 0..LogLines, att : 0..PaneAttempts]
  /\ q.from <= q.to

\* A forward request asks for what follows the ring, unless the ring was dropped
\* since, and what it brings is in the attempt's file.
TailFollows ==
  /\ Asked(tailReq) /\ Asked(histReq) /\ tailReq.att <= foldAt
  /\ tailReq.at = "issued" => tailReq.to = tailReq.from
  /\ tailReq.at = "data" /\ tailReq.to # tailReq.from => tailReq.att > 0 /\ tailReq.to <= logLen[tailReq.att]
  /\ tailReq.at # "none" /\ tailReq.att = foldAt /\ ring # <<>> => tailReq.from = ringEnd
RingHolds ==
  /\ PaneStretch(ring, foldAt, ringEnd)
  /\ ring # <<>> => foldAt > 0 /\ ringEnd = logOffset /\ ringEnd <= logLen[foldAt]
  /\ have # NoRead /\ ring # <<>> => have = ringEnd
PaneKept == PaneTypes /\ TailFollows /\ RingHolds

\* What a request brings is a stretch of its attempt's log.
LEMMA LinesOf ==
  ASSUME NEW q, Asked(q)
  PROVE  PaneStretch(Lines(q), q.att, q.to) /\ Len(Lines(q)) = q.to - q.from
<1>1. PICK n \in Nat : n = q.to - q.from
  BY PaneAssumption DEF Asked
<1>2. q.att \in Nat /\ q.from \in Nat /\ q.to = q.from + n
  BY <1>1, PaneAssumption DEF Asked
<1>3. Lines(q) = [i \in 1..n |-> <<q.att, q.from + i>>]
  BY <1>1 DEF Lines
<1>4. Lines(q) \in [1..n -> PaneLines]
  BY <1>2, <1>3 DEF PaneLines
<1>5. \A i \in 1..n : Lines(q)[i] = LinesAre(q.att)[q.from + i]
  BY <1>2, <1>3 DEF LinesAre
<1>6. Stretch(Lines(q), PaneLines, LinesAre(q.att), q.from + n) /\ Len(Lines(q)) = n
  BY <1>2, <1>4, <1>5, StretchRead
<1> QED
  BY <1>1, <1>2, <1>6 DEF PaneStretch

\* The ring goes on with what a chunk brings, is cut to its capacity, and begins
\* with a page of scrollback.
LEMMA StretchGrows ==
  ASSUME NEW q, Asked(q), NEW r, PaneStretch(r, q.att, q.from)
  PROVE  PaneStretch(r \o Lines(q), q.att, q.to)
<1>1. q.from \in Nat /\ q.to \in Nat
  BY PaneAssumption DEF Asked
<1>2. q.from = q.to - Len(Lines(q)) /\ PaneStretch(Lines(q), q.att, q.to)
  BY <1>1, LinesOf
<1> QED
  BY <1>1, <1>2, StretchJoins DEF PaneStretch

LEMMA StretchTrims ==
  ASSUME NEW r, NEW a, NEW e \in Nat, PaneStretch(r, a, e)
  PROVE  PaneStretch(Trim(r), a, e)
<1>1. Len(r) \in Nat
  BY DEF PaneStretch, Stretch
<1>2. CASE Len(r) > LogCap
  <2>1. Len(r) - LogCap + 1 \in Nat \ {0}
    BY <1>1, <1>2, PaneAssumption
  <2>2. Trim(r) = SubSeq(r, Len(r) - LogCap + 1, Len(r))
    BY <1>2 DEF Trim
  <2>3. Stretch(SubSeq(r, Len(r) - LogCap + 1, Len(r)), PaneLines, LinesAre(a), e)
    BY <2>1, StretchSuffix DEF PaneStretch
  <2> QED
    BY <2>2, <2>3 DEF PaneStretch
<1>3. CASE ~(Len(r) > LogCap)
  BY <1>3 DEF Trim
<1> QED
  BY <1>2, <1>3

LEMMA StretchBegins ==
  ASSUME NEW q, Asked(q), NEW r, NEW e \in Nat, PaneStretch(r, q.att, e), q.to = e - Len(r), NEW drop \in {0, 1}
  PROVE  PaneStretch(SubSeq(Lines(q), drop + 1, q.to - q.from) \o r, q.att, e)
<1>1. q.to \in Nat /\ drop + 1 \in Nat \ {0} /\ PaneStretch(Lines(q), q.att, q.to) /\ Len(Lines(q)) = q.to - q.from
  BY LinesOf, PaneAssumption DEF Asked
<1>2. Stretch(SubSeq(Lines(q), drop + 1, Len(Lines(q))), PaneLines, LinesAre(q.att), q.to)
  BY <1>1, StretchSuffix DEF PaneStretch
<1>3. Stretch(SubSeq(Lines(q), drop + 1, q.to - q.from), PaneLines, LinesAre(q.att), q.to)
  BY <1>1, <1>2
<1> QED
  BY <1>1, <1>3, StretchJoins DEF PaneStretch

\* Nothing is asked for before the first key.
LEMMA PaneStarts == PaneInit => PaneKept
<1> SUFFICES ASSUME PaneInit PROVE PaneKept
  OBVIOUS
<1>1. PaneTypes
  BY PaneAssumption DEF PaneInit, PaneTypes, NoRead
<1>2. TailFollows
  BY PaneAssumption DEF PaneInit, TailFollows, Asked, NoFetch
<1>3. RingHolds
  <2>1. ring = <<>> /\ ringEnd = 0
    BY DEF PaneInit
  <2>2. PaneStretch(<<>>, foldAt, 0)
    BY DEF PaneStretch, Stretch
  <2> QED
    BY <2>1, <2>2 DEF RingHolds
<1> QED
  BY <1>1, <1>2, <1>3 DEF PaneKept

\* The engine writes and retries, and a file only grows.
LEMMA EngineMoves ==
  ASSUME PaneKept, logLine \/ RetryStep
  PROVE  PaneKept'
<1>0. PaneTypes /\ TailFollows /\ RingHolds
  BY DEF PaneKept
<1>1. UNCHANGED <<foldAt, ring, ringEnd, logOffset, have, older, tailReq, histReq>>
  BY DEF logLine, RetryStep, foldVars, ringVars
<1>2. /\ logLen' \in [1..PaneAttempts -> 0..LogLines] /\ runsAt' \in 1..PaneAttempts /\ runsAt <= runsAt'
      /\ \A a \in 1..PaneAttempts : logLen[a] <= logLen'[a]
  <2>1. CASE logLine
    <3>1. logLen[runsAt] + 1 \in 0..LogLines /\ runsAt' = runsAt
      BY <1>0, <2>1, PaneAssumption DEF logLine, PaneTypes
    <3>2. logLen' = [logLen EXCEPT ![runsAt] = logLen[runsAt] + 1] /\ logLen \in [1..PaneAttempts -> 0..LogLines]
          /\ runsAt \in 1..PaneAttempts
      BY <1>0, <2>1 DEF logLine, PaneTypes
    <3>3. logLen' \in [1..PaneAttempts -> 0..LogLines]
      BY <3>1, <3>2
    <3>4. ASSUME NEW a \in 1..PaneAttempts PROVE logLen[a] <= logLen'[a]
      <4>1. logLen[a] \in 0..LogLines /\ logLen'[a] \in {logLen[a], logLen[a] + 1}
        BY <3>2
      <4> QED
        BY <4>1, PaneAssumption
    <3>5. runsAt <= runsAt'
      BY <3>1, <3>2, PaneAssumption
    <3> QED
      BY <3>1, <3>2, <3>3, <3>4, <3>5
  <2>2. CASE RetryStep
    BY <1>0, <2>2, PaneAssumption DEF RetryStep, PaneTypes
  <2> QED
    BY <2>1, <2>2
<1>3. PaneTypes'
  BY <1>0, <1>1, <1>2, PaneAssumption DEF PaneTypes
<1>4. TailFollows'
  <2>1. Asked(tailReq)' /\ Asked(histReq)'
    BY <1>0, <1>1 DEF TailFollows, Asked
  <2>2. tailReq.at = "data" /\ tailReq.to # tailReq.from => tailReq.att > 0 /\ tailReq.to <= logLen'[tailReq.att]
    <3>1. SUFFICES ASSUME tailReq.at = "data", tailReq.to # tailReq.from PROVE tailReq.att > 0 /\ tailReq.to <= logLen'[tailReq.att]
      OBVIOUS
    <3>2. tailReq.att \in 1..PaneAttempts /\ tailReq.to \in Nat /\ tailReq.to <= logLen[tailReq.att]
      BY <1>0, <3>1, PaneAssumption DEF TailFollows, Asked
    <3>3. logLen[tailReq.att] \in Nat /\ logLen'[tailReq.att] \in Nat /\ logLen[tailReq.att] <= logLen'[tailReq.att]
      BY <1>0, <1>2, <3>2, PaneAssumption DEF PaneTypes
    <3> QED
      BY <3>2, <3>3
  <2> QED
    BY <1>0, <1>1, <2>1, <2>2 DEF TailFollows
<1>5. RingHolds'
  <2>1. ring # <<>> => ringEnd <= logLen'[foldAt]
    <3>1. SUFFICES ASSUME ring # <<>> PROVE ringEnd <= logLen'[foldAt]
      OBVIOUS
    <3>2. foldAt \in 1..PaneAttempts /\ ringEnd \in Nat /\ ringEnd <= logLen[foldAt]
      BY <1>0, <3>1, PaneAssumption DEF RingHolds, PaneTypes
    <3>3. logLen[foldAt] \in Nat /\ logLen'[foldAt] \in Nat /\ logLen[foldAt] <= logLen'[foldAt]
      BY <1>0, <1>2, <3>2, PaneAssumption DEF PaneTypes
    <3> QED
      BY <3>2, <3>3
  <2> QED
    BY <1>0, <1>1, <2>1 DEF RingHolds, PaneStretch, Stretch
<1> QED
  BY <1>3, <1>4, <1>5 DEF PaneKept

\* A marker changes nothing that is shown; a retry drops the ring, and every
\* request under way is of an earlier attempt from then on.
LEMMA FoldMoves ==
  ASSUME PaneKept, applyEvent
  PROVE  PaneKept'
<1>0. PaneTypes /\ TailFollows /\ RingHolds
  BY DEF PaneKept
<1>1. UNCHANGED <<logLen, runsAt, have, older, tailReq, histReq>>
  BY DEF applyEvent, engineVars
<1>2. Asked(tailReq)' /\ Asked(histReq)' /\ tailReq.att \in Nat
  BY <1>0, <1>1, PaneAssumption DEF TailFollows, Asked
<1>3. CASE foldAt = 0 /\ foldAt' = 1 /\ UNCHANGED <<mark, ringVars>>
  <2>1. ring = <<>> /\ UNCHANGED <<ring, ringEnd, logOffset>> /\ ringEnd \in Nat
    BY <1>0, <1>3, PaneAssumption DEF RingHolds, ringVars, PaneTypes
  <2>2. PaneStretch(<<>>, 1, ringEnd)
    BY <2>1 DEF PaneStretch, Stretch
  <2>3. PaneTypes'
    BY <1>0, <1>1, <1>3, <2>1, PaneAssumption DEF PaneTypes
  <2>4. RingHolds'
    BY <1>3, <2>1, <2>2 DEF RingHolds
  <2>5. TailFollows'
    BY <1>0, <1>1, <1>2, <1>3, <2>1 DEF TailFollows
  <2> QED
    BY <2>3, <2>4, <2>5 DEF PaneKept
<1>4. CASE UNCHANGED <<foldAt, ringVars>>
  <2>1. UNCHANGED <<foldAt, ring, ringEnd, logOffset>>
    BY <1>4 DEF ringVars
  <2> QED
    BY <1>0, <1>1, <2>1 DEF PaneKept, PaneTypes, TailFollows, RingHolds, Asked, PaneStretch, Stretch
<1>5. CASE foldAt \in 1..runsAt - 1 /\ foldAt' = foldAt + 1 /\ ring' = <<>> /\ ringEnd' = 0 /\ logOffset' = 0
  <2>1. PaneTypes'
    BY <1>0, <1>1, <1>5, PaneAssumption DEF PaneTypes
  <2>2. PaneStretch(<<>>, foldAt + 1, 0)
    BY DEF PaneStretch, Stretch
  <2>3. RingHolds'
    BY <1>5, <2>2 DEF RingHolds
  <2>4. tailReq.att <= foldAt + 1
    BY <1>0, <1>2, <1>5 DEF TailFollows
  <2>5. TailFollows'
    BY <1>0, <1>1, <1>2, <1>5, <2>4 DEF TailFollows
  <2> QED
    BY <2>1, <2>3, <2>5 DEF PaneKept
<1> QED
  BY <1>3, <1>4, <1>5 DEF applyEvent

\* Reading an offset, issuing and answering a request.
LEMMA RequestsMove ==
  ASSUME PaneKept, focusCursor \/ handleTick \/ fetchLogsCmd \/ serveTail \/ pgup \/ loadOlderLogsCmd \/ serveHistory \/ quit
  PROVE  PaneKept'
<1>0. PaneTypes /\ TailFollows /\ RingHolds
  BY DEF PaneKept
<1>1. UNCHANGED <<logLen, runsAt, foldAt, ring, ringEnd, logOffset>>
  BY DEF focusCursor, handleTick, fetchLogsCmd, serveTail, pgup, loadOlderLogsCmd, serveHistory, quit, engineVars, foldVars, ringVars
<1>2. /\ LogLines \in Nat /\ PaneAttempts \in Nat /\ Chunk \in Nat /\ logOffset \in 0..LogLines /\ ringEnd \in 0..LogLines
      /\ foldAt \in 0..PaneAttempts /\ have \in 0..(LogLines + 1) /\ older \in 0..(LogLines + 1) /\ NoRead = LogLines + 1
      /\ Asked(tailReq) /\ Asked(histReq)
  BY <1>0, PaneAssumption DEF PaneTypes, TailFollows, NoRead
<1>3. ring # <<>> => ringEnd = logOffset
  BY <1>0 DEF RingHolds
<1>4. /\ have' \in 0..(LogLines + 1) /\ older' \in 0..(LogLines + 1)
      /\ have' \in {have, NoRead, logOffset}
  <2>1. pgup => StartOffset \in 0..(LogLines + 1)
    <3>1. Len(ring) \in Nat /\ Len(ring) <= ringEnd
      BY <1>0 DEF RingHolds, PaneStretch, Stretch
    <3> QED
      BY <1>2, <3>1 DEF StartOffset
  <2>2. CASE focusCursor \/ handleTick
    BY <1>2, <2>2 DEF focusCursor, handleTick
  <2>3. CASE fetchLogsCmd \/ serveTail \/ loadOlderLogsCmd \/ serveHistory \/ quit
    BY <1>2, <2>3 DEF fetchLogsCmd, serveTail, loadOlderLogsCmd, serveHistory, quit
  <2>4. CASE pgup
    BY <1>2, <2>1, <2>4 DEF pgup
  <2> QED
    BY <2>2, <2>3, <2>4
<1>5. PaneTypes'
  BY <1>0, <1>1, <1>4 DEF PaneTypes
<1>6. RingHolds'
  <2>1. have' # NoRead /\ ring # <<>> => have' = ringEnd
    BY <1>0, <1>3, <1>4 DEF RingHolds
  <2> QED
    BY <1>0, <1>1, <2>1 DEF RingHolds, PaneStretch, Stretch, NoRead
<1>7. Asked(histReq)'
  <2>1. CASE UNCHANGED histReq
    BY <1>2, <2>1 DEF Asked
  <2>2. CASE loadOlderLogsCmd /\ ~UNCHANGED histReq
    <3>1. older # NoRead /\ histReq' = [at |-> "issued", from |-> IF older > Chunk THEN older - Chunk ELSE 0, to |-> older, att |-> foldAt]
      BY <2>2 DEF loadOlderLogsCmd
    <3>2. PICK f \in 0..LogLines : f = (IF older > Chunk THEN older - Chunk ELSE 0) /\ f <= older /\ older \in 0..LogLines
      <4>1. older \in 0..LogLines
        BY <1>2, <3>1
      <4>2. CASE older > Chunk
        <5>1. older - Chunk \in 0..LogLines /\ older - Chunk <= older
          BY <1>2, <4>1, <4>2
        <5> QED
          BY <4>1, <4>2, <5>1
      <4>3. CASE ~(older > Chunk)
        <5>1. 0 \in 0..LogLines /\ 0 <= older
          BY <1>2, <4>1
        <5> QED
          BY <4>1, <4>3, <5>1
      <4> QED
        BY <4>2, <4>3
    <3>3. histReq' = [at |-> "issued", from |-> f, to |-> older, att |-> foldAt]
      BY <3>1, <3>2
    <3> QED
      BY <1>2, <3>2, <3>3 DEF Asked
  <2>3. CASE serveHistory
    BY <1>2, <2>3 DEF serveHistory, Asked
  <2> QED
    BY <2>1, <2>2, <2>3 DEF focusCursor, handleTick, fetchLogsCmd, serveTail, pgup, loadOlderLogsCmd, serveHistory, quit
<1>8. TailFollows'
  <2>1. CASE UNCHANGED tailReq
    <3>1. Asked(tailReq)'
      BY <1>2, <2>1 DEF Asked
    <3> QED
      BY <1>0, <1>1, <1>7, <2>1, <3>1 DEF TailFollows
  <2>2. CASE fetchLogsCmd /\ ~UNCHANGED tailReq
    <3>1. have # NoRead /\ tailReq' = [at |-> "issued", from |-> have, to |-> have, att |-> foldAt]
      BY <2>2 DEF fetchLogsCmd
    <3>2. have \in 0..LogLines /\ (ring # <<>> => have = ringEnd)
      BY <1>0, <1>2, <3>1 DEF RingHolds
    <3>3. Asked(tailReq)'
      BY <1>2, <3>1, <3>2 DEF Asked
    <3>4. tailReq'.from = have /\ tailReq'.to = have /\ tailReq'.att = foldAt /\ tailReq'.at = "issued"
      BY <3>1
    <3> QED
      BY <1>1, <1>2, <1>7, <3>2, <3>3, <3>4 DEF TailFollows
  <2>3. CASE serveTail
    <3>1. tailReq.at = "issued" /\ tailReq.to = tailReq.from
      BY <1>0, <2>3 DEF serveTail, TailFollows
    <3> DEFINE n == fileLen(tailReq.att)
               t == IF n <= tailReq.to THEN tailReq.to ELSE IF n < tailReq.to + Chunk THEN n ELSE tailReq.to + Chunk
    <3>2. tailReq' = [tailReq EXCEPT !.at = "data", !.to = t] \/ tailReq' = [tailReq EXCEPT !.at = "error"]
      BY <2>3 DEF serveTail
    <3>3. n \in 0..LogLines /\ (n > 0 => tailReq.att > 0 /\ n = logLen[tailReq.att])
      BY <1>0, <1>2 DEF fileLen, Asked, PaneTypes
    <3>4. tailReq.to \in 0..LogLines
      BY <1>2 DEF Asked
    <3> HIDE DEF n
    <3>5. t \in 0..LogLines /\ tailReq.from <= t /\ (t # tailReq.from => t <= n /\ n > 0)
      BY <1>2, <3>1, <3>3, <3>4
    <3> HIDE DEF t
    <3>6. CASE tailReq' = [tailReq EXCEPT !.at = "error"]
      <4>1. Asked(tailReq)' /\ tailReq'.at = "error" /\ tailReq'.from = tailReq.from /\ tailReq'.att = tailReq.att
        BY <1>2, <3>6 DEF Asked
      <4> QED
        BY <1>0, <1>1, <1>7, <3>1, <4>1 DEF TailFollows
    <3>7. CASE tailReq' = [tailReq EXCEPT !.at = "data", !.to = t]
      <4>1. Asked(tailReq)' /\ tailReq'.at = "data" /\ tailReq'.from = tailReq.from /\ tailReq'.to = t /\ tailReq'.att = tailReq.att
        BY <1>2, <3>5, <3>7 DEF Asked
      <4> QED
        BY <1>0, <1>1, <1>7, <3>1, <3>3, <3>5, <4>1 DEF TailFollows
    <3> QED
      BY <3>2, <3>6, <3>7
  <2> QED
    BY <2>1, <2>2, <2>3 DEF focusCursor, handleTick, fetchLogsCmd, serveTail, pgup, loadOlderLogsCmd, serveHistory, quit
<1> QED
  BY <1>5, <1>6, <1>8 DEF PaneKept

\* A chunk arrives.
LEMMA ChunkArrives ==
  ASSUME PaneKept, handleLogChunk
  PROVE  PaneKept'
<1>0. PaneTypes /\ TailFollows /\ RingHolds /\ Asked(tailReq) /\ Asked(histReq)
  BY DEF PaneKept, TailFollows
<1>1. UNCHANGED <<logLen, runsAt, foldAt, have, older, histReq>> /\ tailReq' = NoFetch /\ have = NoRead
      /\ tailReq.at \in {"data", "error"}
  BY DEF handleLogChunk, engineVars, foldVars, BetweenMessages
<1>2. TailFollows'
  <2>1. Asked(NoFetch) /\ NoFetch.at = "none" /\ NoFetch.att = 0
    BY PaneAssumption DEF Asked, NoFetch
  <2>2. Asked(tailReq)' /\ Asked(histReq)'
    BY <1>0, <1>1, <2>1 DEF Asked
  <2>3. foldAt' >= 0
    BY <1>0, <1>1 DEF PaneTypes
  <2> QED
    BY <1>1, <2>1, <2>2, <2>3 DEF TailFollows
<1>3. CASE UNCHANGED ringVars
  <2>1. UNCHANGED <<ring, ringEnd, logOffset>>
    BY <1>3 DEF ringVars
  <2> QED
    BY <1>0, <1>1, <1>2, <2>1 DEF PaneKept, PaneTypes, RingHolds, PaneStretch, Stretch, NoRead
<1>4. CASE tailReq.at = "data" /\ tailReq.att = foldAt /\ foldAt # 0 /\ Appended(tailReq)
  <2>1. logOffset' = tailReq.to /\ tailReq.to \in 0..LogLines /\ tailReq.from \in 0..LogLines
    BY <1>0, <1>4 DEF Appended, Asked
  <2>2. CASE tailReq.to = tailReq.from
    <3>1. UNCHANGED <<ring, ringEnd>>
      BY <1>4, <2>2 DEF Appended
    <3>2. ring # <<>> => ringEnd = logOffset'
      BY <1>0, <1>4, <2>1, <2>2 DEF TailFollows
    <3>3. PaneTypes'
      BY <1>0, <1>1, <2>1, <3>1 DEF PaneTypes
    <3>4. RingHolds'
      BY <1>0, <1>1, <3>1, <3>2 DEF RingHolds, PaneStretch, Stretch, NoRead
    <3> QED
      BY <1>2, <3>3, <3>4 DEF PaneKept
  <2>3. CASE tailReq.to # tailReq.from
    <3>1. ring' = Trim(ring \o Lines(tailReq)) /\ ringEnd' = tailReq.to
      BY <1>4, <2>3 DEF Appended
    <3>2. PaneStretch(ring, tailReq.att, tailReq.from)
      <4>1. CASE ring = <<>>
        <5>1. PaneStretch(<<>>, tailReq.att, tailReq.from)
          BY <2>1, PaneAssumption DEF PaneStretch, Stretch
        <5> QED
          BY <4>1, <5>1
      <4>2. CASE ring # <<>>
        BY <1>0, <1>4, <4>2 DEF TailFollows, RingHolds
      <4> QED
        BY <4>1, <4>2
    <3>3. tailReq.to \in Nat
      BY <2>1, PaneAssumption
    <3>4. PaneStretch(Trim(ring \o Lines(tailReq)), tailReq.att, tailReq.to)
      BY <1>0, <3>2, <3>3, StretchGrows, StretchTrims
    <3>5. PaneStretch(ring', foldAt, ringEnd')
      BY <1>4, <3>1, <3>4
    <3>6. tailReq.to <= logLen[foldAt] /\ foldAt > 0
      BY <1>0, <1>4, <2>3 DEF TailFollows
    <3>7. PaneTypes'
      BY <1>0, <1>1, <2>1, <3>1 DEF PaneTypes
    <3>8. RingHolds'
      BY <1>1, <2>1, <3>1, <3>5, <3>6 DEF RingHolds, NoRead
    <3> QED
      BY <1>2, <3>7, <3>8 DEF PaneKept
  <2> QED
    BY <2>2, <2>3
<1> QED
  BY <1>1, <1>3, <1>4 DEF handleLogChunk

\* A page of scrollback arrives.
LEMMA HistoryArrives ==
  ASSUME PaneKept, handleLogHistory
  PROVE  PaneKept'
<1>0. PaneTypes /\ TailFollows /\ RingHolds /\ Asked(tailReq) /\ Asked(histReq)
  BY DEF PaneKept, TailFollows
<1>1. UNCHANGED <<logLen, runsAt, foldAt, ringEnd, logOffset, have, older, tailReq>> /\ histReq' = NoFetch /\ have = NoRead
  BY DEF handleLogHistory, engineVars, foldVars, BetweenMessages
<1>2. PaneTypes'
  BY <1>0, <1>1 DEF PaneTypes
<1>3. ring' # <<>> => ring # <<>>
  BY DEF handleLogHistory
<1>4. TailFollows'
  <2>1. Asked(NoFetch)
    BY PaneAssumption DEF Asked, NoFetch
  <2>2. Asked(tailReq)' /\ Asked(histReq)'
    BY <1>0, <1>1, <2>1 DEF Asked
  <2> QED
    BY <1>0, <1>1, <1>3, <2>2 DEF TailFollows
<1>5. PaneStretch(ring', foldAt, ringEnd)
  <2>1. CASE UNCHANGED ring
    BY <1>0, <2>1 DEF RingHolds
  <2>2. CASE ~UNCHANGED ring
    <3>1. histReq.att = foldAt /\ StartOffset = histReq.to /\ Prepended(histReq)
      BY <2>2 DEF handleLogHistory
    <3>2. PICK drop \in {0, 1} : ring' = SubSeq(Lines(histReq), drop + 1, histReq.to - histReq.from) \o ring
      BY <3>1 DEF Prepended
    <3>3. PaneStretch(ring, histReq.att, ringEnd) /\ histReq.to = ringEnd - Len(ring) /\ ringEnd \in Nat
      BY <1>0, <3>1, PaneAssumption DEF RingHolds, StartOffset, PaneTypes
    <3>4. PaneStretch(SubSeq(Lines(histReq), drop + 1, histReq.to - histReq.from) \o ring, histReq.att, ringEnd)
      BY <1>0, <3>3, StretchBegins
    <3> QED
      BY <3>1, <3>2, <3>4
  <2> QED
    BY <2>1, <2>2
<1>6. RingHolds'
  BY <1>0, <1>1, <1>3, <1>5 DEF RingHolds, NoRead
<1> QED
  BY <1>2, <1>4, <1>6 DEF PaneKept

LEMMA PaneStays == PaneKept /\ [PaneNext]_paneVars => PaneKept'
<1> SUFFICES ASSUME PaneKept, [PaneNext]_paneVars PROVE PaneKept'
  OBVIOUS
<1>1. CASE UNCHANGED paneVars
  BY <1>1 DEF paneVars, PaneKept, PaneTypes, TailFollows, RingHolds, Asked, PaneStretch, Stretch, NoRead
<1>2. CASE PaneNext
  BY <1>2, EngineMoves, FoldMoves, RequestsMove, ChunkArrives, HistoryArrives DEF PaneNext
<1> QED
  BY <1>1, <1>2

\* The invariant is the pane's promise.
LEMMA PaneGives == PaneKept => PaneIsTheLog
<1> SUFFICES ASSUME PaneKept PROVE PaneIsTheLog
  OBVIOUS
<1>1. PaneStretch(ring, foldAt, ringEnd) /\ (ring # <<>> => ringEnd = logOffset /\ ringEnd <= logLen[foldAt])
  BY DEF PaneKept, RingHolds
<1>2. DOMAIN ring = 1..Len(ring)
  BY <1>1 DEF PaneStretch, Stretch
<1>3. Len(ring) \in Nat /\ ringEnd \in Nat /\ Len(ring) <= ringEnd
  BY <1>1, PaneAssumption DEF PaneKept, PaneTypes, PaneStretch, Stretch
<1>4. ASSUME NEW i \in DOMAIN ring PROVE ring[i] = <<foldAt, StartOffset + i>>
  <2>1. i \in 1..Len(ring) /\ ringEnd - Len(ring) + i \in Nat /\ StartOffset + i = ringEnd - Len(ring) + i
    BY <1>2, <1>3 DEF StartOffset
  <2>2. ring[i] = LinesAre(foldAt)[ringEnd - Len(ring) + i]
    BY <1>1, <2>1 DEF PaneStretch, Stretch
  <2> QED
    BY <2>1, <2>2 DEF LinesAre
<1> QED
  BY <1>1, <1>4 DEF PaneIsTheLog

-----------------------------------------------------------------------------
(* The browser's page.                                                     *)

\* The bytes of a log file, and a stretch of it.
PageBytesOf == PageSteps \X Nat \X PageStreams \X Nat
BytesAre(s, a, t) == [n \in Nat |-> <<s, a, t, n>>]
PageStretch(text, s, a, t, e) == Stretch(text, PageBytesOf, BytesAre(s, a, t), e)

PageTypes ==
  /\ fileSize \in [FileIds -> Nat] /\ attemptNow \in [PageSteps -> 1..PageTries]
  /\ seen # Nothing => seen \in [PageSteps -> [attempt : 1..PageTries, marks : [PageStreams -> Nat]]]
  /\ selected \in PageSteps \cup {""} /\ stream \in PageStreams /\ underway \in BOOLEAN
  /\ DOMAIN logs = PageSteps

\* A tail that is kept is the end of its file as read so far, and all of it while
\* it is short, unless it was dropped under a request.
TailHolds(l, s, lost) ==
  /\ l.attempt \in 1..PageTries /\ l.stream \in PageStreams /\ l.offset \in Nat
  /\ PageStretch(l.text, s, l.attempt, l.stream, l.offset)
  /\ Len(l.text) < PageTail /\ ~lost => l.offset = Len(l.text)

\* A request asks for what follows the tail it was made for, or for the start of
\* the file, unless the tail was dropped since.
SameTail(f) == logs[f.step] # Nothing /\ logs[f.step].attempt = f.attempt /\ logs[f.step].stream = f.stream
AsksOn(f) ==
  /\ f.step \in PageSteps /\ f.attempt \in 1..PageTries /\ f.stream \in PageStreams /\ f.from \in Nat
  /\ SameTail(f) => f.from = logs[f.step].offset
  /\ ~SameTail(f) /\ ~underway => f.from = 0
PageKept ==
  /\ PageTypes /\ notice \in {0, controlSeq} /\ sending \in {0, controlSeq}
  /\ \A s \in PageSteps : logs[s] # Nothing => TailHolds(logs[s], s, underway)
  /\ fetching # Nothing => AsksOn(fetching)

\* An empty page is at the start of every file.
LEMMA PageStarts == PageInit => PageKept
<1> SUFFICES ASSUME PageInit PROVE PageKept
  OBVIOUS
<1>1. PageTypes
  <2>1. fileSize \in [FileIds -> Nat] /\ seen = Nothing /\ selected = "" /\ stream \in PageStreams /\ underway \in BOOLEAN
    BY PageAssumption DEF PageInit
  <2>2. attemptNow \in [PageSteps -> 1..PageTries]
    <3>1. 1 \in 1..PageTries
      BY PageAssumption
    <3> QED
      BY <3>1 DEF PageInit
  <2>3. DOMAIN logs = PageSteps
    BY DEF PageInit
  <2> QED
    BY <2>1, <2>2, <2>3 DEF PageTypes
<1> QED
  BY <1>1 DEF PageInit, PageKept

\* What a fold comes to.
LEMMA TruthIsTyped == PageTypes => Truth \in [PageSteps -> [attempt : 1..PageTries, marks : [PageStreams -> Nat]]]
<1> SUFFICES ASSUME PageTypes PROVE Truth \in [PageSteps -> [attempt : 1..PageTries, marks : [PageStreams -> Nat]]]
  OBVIOUS
<1>1. ASSUME NEW u \in PageSteps PROVE [w \in PageStreams |-> fileSize[<<u, attemptNow[u], w>>]] \in [PageStreams -> Nat]
  <2>1. ASSUME NEW w \in PageStreams PROVE fileSize[<<u, attemptNow[u], w>>] \in Nat
    <3>1. <<u, attemptNow[u], w>> \in FileIds
      BY DEF PageTypes, FileIds
    <3> QED
      BY <3>1 DEF PageTypes
  <2> QED
    BY <2>1
<1>2. \A u \in PageSteps : attemptNow[u] \in 1..PageTries
  BY DEF PageTypes
<1> QED
  BY <1>1, <1>2 DEF Truth

\* What a step leaves alone when it touches no tail and no request.
LEMMA PageRests ==
  ASSUME PageKept, UNCHANGED <<logs, fetching, underway>>, PageTypes', notice' \in {0, controlSeq'}, sending' \in {0, controlSeq'}
  PROVE  PageKept'
<1>1. ASSUME NEW s \in PageSteps, logs'[s] # Nothing PROVE TailHolds(logs'[s], s, underway')
  BY <1>1 DEF PageKept
<1>2. fetching' # Nothing => AsksOn(fetching)'
  BY DEF PageKept, AsksOn, SameTail
<1> QED
  BY <1>1, <1>2 DEF PageKept

\* The run goes on, its events are folded, and the person clicks.
LEMMA PageLooks ==
  ASSUME PageKept, NEW s \in PageSteps, NEW t \in PageStreams,
         StepWrites(s, t) \/ StepRetries(s) \/ onFold(s) \/ onStepClick(s)
  PROVE  PageKept'
<1>0. PageTypes /\ notice \in {0, controlSeq} /\ sending \in {0, controlSeq}
  BY DEF PageKept
<1>1. UNCHANGED <<logs, fetching, underway, stream>>
  BY DEF StepWrites, StepRetries, onFold, onStepClick, viewVars
<1>2. Truth \in [PageSteps -> [attempt : 1..PageTries, marks : [PageStreams -> Nat]]]
  BY <1>0, TruthIsTyped
<1>3. notice' \in {0, controlSeq'} /\ sending' \in {0, controlSeq'}
  BY <1>0 DEF sendVars, StepWrites, StepRetries, onFold, onStepClick
<1>4. PageTypes'
  <2>1. CASE StepWrites(s, t)
    <3>1. <<s, attemptNow[s], t>> \in FileIds
      BY <1>0 DEF PageTypes, FileIds
    <3>2. fileSize' \in [FileIds -> Nat]
      <4>1. PICK f \in FileIds : f = <<s, attemptNow[s], t>>
        BY <3>1
      <4>2. fileSize' = [fileSize EXCEPT ![f] = fileSize[f] + 1] /\ fileSize \in [FileIds -> Nat]
        BY <1>0, <2>1, <4>1 DEF StepWrites, PageTypes
      <4>3. fileSize[f] + 1 \in Nat
        BY <4>2
      <4> QED
        BY <4>2, <4>3
    <3>3. UNCHANGED <<attemptNow, seen, selected>>
      BY <2>1 DEF StepWrites, viewVars
    <3> QED
      BY <1>0, <1>1, <3>2, <3>3 DEF PageTypes
  <2>2. CASE StepRetries(s)
    <3>1. attemptNow[s] \in 1..PageTries /\ attemptNow[s] + 1 \in 1..PageTries
      <4>1. attemptNow[s] \in 1..PageTries /\ attemptNow[s] < PageTries
        BY <1>0, <2>2 DEF StepRetries, PageTypes
      <4> QED
        BY <4>1, PageAssumption
    <3>2. attemptNow' \in [PageSteps -> 1..PageTries]
      BY <1>0, <2>2, <3>1 DEF StepRetries, PageTypes
    <3>3. UNCHANGED <<fileSize, seen, selected>>
      BY <2>2 DEF StepRetries, viewVars
    <3> QED
      BY <1>0, <1>1, <3>2, <3>3 DEF PageTypes
  <2>3. CASE onFold(s)
    <3>1. seen # Nothing /\ seen' = [seen EXCEPT ![s] = Truth[s]] /\ UNCHANGED <<fileSize, attemptNow, selected>>
      BY <2>3 DEF onFold, pageRunVars, viewVars
    <3>2. seen' \in [PageSteps -> [attempt : 1..PageTries, marks : [PageStreams -> Nat]]]
      BY <1>0, <1>2, <3>1 DEF PageTypes
    <3> QED
      BY <1>0, <1>1, <3>1, <3>2 DEF PageTypes
  <2>4. CASE onStepClick(s)
    <3>1. UNCHANGED <<fileSize, attemptNow, seen>> /\ selected' \in {selected, s}
      BY <2>4 DEF onStepClick, pageRunVars, viewVars
    <3> QED
      BY <1>0, <1>1, <3>1 DEF PageTypes
  <2> QED
    BY <2>1, <2>2, <2>3, <2>4
<1> QED
  BY <1>1, <1>3, <1>4, PageRests

\* A control operation is sent, and answered.
LEMMA PageSpeaks ==
  ASSUME PageKept, sendControl \/ controlOutcome
  PROVE  PageKept'
<1>0. PageTypes /\ notice \in {0, controlSeq} /\ sending \in {0, controlSeq}
  BY DEF PageKept
<1>1. UNCHANGED <<fileSize, attemptNow, seen, selected, stream, logs, fetching, underway>>
  BY DEF sendControl, controlOutcome, pageRunVars, viewVars
<1>2. notice' \in {0, controlSeq'} /\ sending' \in {0, controlSeq'}
  BY <1>0 DEF sendControl, controlOutcome, sendVars
<1>3. PageTypes'
  BY <1>0, <1>1 DEF PageTypes
<1> QED
  BY <1>1, <1>2, <1>3, PageRests

\* A snapshot drops every tail, a click on a stream the selected step's.
LEMMA PageDrops ==
  ASSUME PageKept, onSnapshot \/ \E t \in PageStreams : onStreamClick(t)
  PROVE  PageKept'
<1>0. PageTypes /\ notice \in {0, controlSeq} /\ sending \in {0, controlSeq}
  BY DEF PageKept
<1>1. UNCHANGED <<fileSize, attemptNow, selected, fetching, sending, controlSeq, notice>>
      /\ underway' = (underway \/ fetching # Nothing)
  BY DEF onSnapshot, onStreamClick, pageRunVars, viewVars, sendVars
<1>2. DOMAIN logs' = PageSteps /\ \A s \in PageSteps : logs'[s] = logs[s] \/ logs'[s] = Nothing
  BY <1>0 DEF onSnapshot, onStreamClick, PageTypes
<1>3. PageTypes'
  <2>1. stream' \in PageStreams /\ underway' \in BOOLEAN
    BY <1>0, <1>1 DEF PageTypes, onSnapshot, onStreamClick, viewVars
  <2>2. seen' # Nothing => seen' \in [PageSteps -> [attempt : 1..PageTries, marks : [PageStreams -> Nat]]]
    <3>1. CASE onSnapshot
      <4>1. seen' = Truth
        BY <3>1 DEF onSnapshot
      <4> QED
        BY <1>0, <4>1, TruthIsTyped
    <3>2. CASE \E t \in PageStreams : onStreamClick(t)
      BY <1>0, <3>2 DEF PageTypes, onStreamClick
    <3> QED
      BY <3>1, <3>2
  <2> QED
    BY <1>0, <1>1, <1>2, <2>1, <2>2 DEF PageTypes
<1>4. ASSUME NEW s \in PageSteps, logs'[s] # Nothing PROVE TailHolds(logs'[s], s, underway')
  <2>1. logs'[s] = logs[s] /\ TailHolds(logs[s], s, underway)
    BY <1>2, <1>4 DEF PageKept
  <2>2. ~underway' => ~underway
    BY <1>1
  <2> QED
    BY <2>1, <2>2 DEF TailHolds
<1>5. ASSUME fetching # Nothing PROVE AsksOn(fetching)'
  <2>1. AsksOn(fetching) /\ underway'
    BY <1>1, <1>5 DEF PageKept
  <2>2. logs'[fetching.step] = logs[fetching.step] \/ logs'[fetching.step] = Nothing
    BY <1>2, <2>1 DEF AsksOn
  <2> QED
    BY <1>1, <2>1, <2>2 DEF AsksOn, SameTail
<1> QED
  BY <1>0, <1>1, <1>3, <1>4, <1>5 DEF PageKept

\* The poller asks: on from the tail it keeps, or from the start.
LEMMA PageAsks ==
  ASSUME PageKept, topUpLog
  PROVE  PageKept'
<1>0. PageTypes /\ notice \in {0, controlSeq} /\ sending \in {0, controlSeq}
  BY DEF PageKept
<1> DEFINE s == selected
           cur == CurrentTail(s, stream)
           from == IF cur THEN logs[s].offset ELSE 0
<1>1. /\ UNCHANGED <<fileSize, attemptNow, seen, selected, stream, sending, controlSeq, notice, underway>>
      /\ fetching' = [step |-> s, attempt |-> seen[s].attempt, stream |-> stream, from |-> from]
      /\ logs' = IF cur THEN logs ELSE [logs EXCEPT ![s] = Nothing]
      /\ s \in PageSteps /\ seen # Nothing
  BY <1>0 DEF topUpLog, pageRunVars, viewVars, sendVars, PageTypes
<1>2. seen[s].attempt \in 1..PageTries /\ stream \in PageStreams
  BY <1>0, <1>1 DEF PageTypes
<1>3. DOMAIN logs' = PageSteps /\ \A u \in PageSteps : logs'[u] = logs[u] \/ logs'[u] = Nothing
  BY <1>0, <1>1 DEF PageTypes
<1>4. PageTypes'
  BY <1>0, <1>1, <1>3 DEF PageTypes
<1>5. ASSUME NEW u \in PageSteps, logs'[u] # Nothing PROVE TailHolds(logs'[u], u, underway')
  BY <1>1, <1>3, <1>5 DEF PageKept
<1>6. AsksOn(fetching)'
  <2>1. /\ fetching'.step = s /\ fetching'.attempt = seen[s].attempt /\ fetching'.stream = stream /\ fetching'.from = from
    BY <1>1
  <2>2. CASE cur
    <3>1. /\ logs[s] # Nothing /\ logs[s].attempt = seen[s].attempt /\ logs[s].stream = stream /\ logs' = logs
          /\ from = logs[s].offset
      BY <1>1, <2>2 DEF CurrentTail
    <3>2. from \in Nat
      BY <1>1, <3>1 DEF PageKept, TailHolds
    <3>3. SameTail(fetching)' /\ fetching'.from = logs'[fetching'.step].offset
      BY <2>1, <3>1 DEF SameTail
    <3> QED
      BY <1>1, <1>2, <2>1, <3>2, <3>3 DEF AsksOn
  <2>3. CASE ~cur
    <3>1. logs'[s] = Nothing /\ from = 0
      BY <1>0, <1>1, <2>3 DEF PageTypes
    <3>2. ~SameTail(fetching)'
      BY <2>1, <3>1 DEF SameTail
    <3> QED
      BY <1>1, <1>2, <2>1, <3>1, <3>2 DEF AsksOn
  <2> QED
    BY <2>2, <2>3
<1> QED
  BY <1>0, <1>1, <1>4, <1>5, <1>6 DEF PageKept

\* What an answer brings is a stretch of the file that was asked for.
LEMMA SliceIsRead ==
  ASSUME PageTypes, NEW f, f.step \in PageSteps, f.attempt \in 1..PageTries, f.stream \in PageStreams, f.from \in Nat,
         NEW body \in Slices(f)
  PROVE  PageStretch(body, f.step, f.attempt, f.stream, f.from + Len(body)) /\ Len(body) \in Nat
<1>1. PICK k : k = fileSize[<<f.step, f.attempt, f.stream>>] /\ k \in Nat
  <2>1. <<f.step, f.attempt, f.stream>> \in FileIds
    BY DEF FileIds
  <2> QED
    BY <2>1 DEF PageTypes
<1>2. PICK n \in 0..((IF k > f.from + PageTail THEN f.from + PageTail ELSE k) - f.from) :
        body = [i \in 1..n |-> <<f.step, f.attempt, f.stream, f.from + i>>]
  BY <1>1 DEF Slices
<1>3. n \in Nat /\ f.attempt \in Nat
  BY <1>1, <1>2, PageAssumption
<1>4. body \in [1..n -> PageBytesOf]
  <2>1. \A i \in 1..n : <<f.step, f.attempt, f.stream, f.from + i>> \in PageBytesOf
    BY <1>3 DEF PageBytesOf
  <2> QED
    BY <1>2, <2>1
<1>5. \A i \in 1..n : body[i] = BytesAre(f.step, f.attempt, f.stream)[f.from + i]
  BY <1>2, <1>3 DEF BytesAre
<1>6. Stretch(body, PageBytesOf, BytesAre(f.step, f.attempt, f.stream), f.from + n) /\ Len(body) = n
  BY <1>3, <1>4, <1>5, StretchRead
<1> QED
  BY <1>3, <1>6 DEF PageStretch

\* What is kept of a tail.
LEMMA TailIsBounded ==
  ASSUME NEW text, NEW s, NEW a, NEW t, NEW e \in Nat, PageStretch(text, s, a, t, e)
  PROVE  /\ PageStretch(Bounded(text), s, a, t, e)
         /\ Len(Bounded(text)) < PageTail => Bounded(text) = text
<1>1. Len(text) \in Nat
  BY DEF PageStretch, Stretch
<1>2. CASE Len(text) > PageTail
  <2>1. PICK m \in Nat \ {0} : m = Len(text) - PageTail + 1 /\ m <= Len(text) /\ Len(text) - m + 1 = PageTail
    <3>1. Len(text) - PageTail + 1 \in Nat \ {0} /\ Len(text) - PageTail + 1 <= Len(text)
          /\ Len(text) - (Len(text) - PageTail + 1) + 1 = PageTail
      BY <1>1, <1>2, PageAssumption
    <3> QED
      BY <3>1
  <2>2. Bounded(text) = SubSeq(text, m, Len(text))
    BY <1>2, <2>1 DEF Bounded
  <2>3. /\ Stretch(SubSeq(text, m, Len(text)), PageBytesOf, BytesAre(s, a, t), e)
        /\ Len(SubSeq(text, m, Len(text))) = Len(text) - m + 1
    BY <2>1, StretchSuffix DEF PageStretch
  <2> QED
    BY <2>1, <2>2, <2>3, PageAssumption DEF PageStretch
<1>3. CASE ~(Len(text) > PageTail)
  BY <1>3 DEF Bounded
<1> QED
  BY <1>2, <1>3

\* The answer arrives, or does not.
LEMMA PageHears ==
  ASSUME PageKept, logArrives \/ logFails
  PROVE  PageKept'
<1>0. PageTypes /\ notice \in {0, controlSeq} /\ sending \in {0, controlSeq}
  BY DEF PageKept
<1>1. UNCHANGED <<fileSize, attemptNow, seen, selected, stream, sending, controlSeq, notice, underway>> /\ fetching' = Nothing
      /\ fetching # Nothing
  BY DEF logArrives, logFails, pageRunVars, viewVars, sendVars
<1>2. CASE logFails
  <2>1. logs' = logs
    BY <1>2 DEF logFails
  <2>2. PageTypes'
    BY <1>0, <1>1, <2>1 DEF PageTypes
  <2> QED
    BY <1>0, <1>1, <2>1, <2>2 DEF PageKept
<1>3. CASE logArrives
  <2>1. PICK f, body : f = fetching /\ body \in Slices(f) /\ logs' = [logs EXCEPT ![f.step] = ToppedUp(f, body)]
    BY <1>3 DEF logArrives
  <2>2. AsksOn(f) /\ f.step \in PageSteps
    BY <1>1, <2>1 DEF PageKept, AsksOn
  <2>3. PageTypes' /\ \A u \in PageSteps : logs'[u] = IF u = f.step THEN ToppedUp(f, body) ELSE logs[u]
    BY <1>0, <1>1, <2>1, <2>2 DEF PageTypes
  <2>4. PICK old : old = IF SameTail(f) THEN logs[f.step].text ELSE <<>>
    OBVIOUS
  <2>5. /\ PageStretch(body, f.step, f.attempt, f.stream, f.from + Len(body)) /\ Len(body) \in Nat /\ f.from \in Nat
        /\ f.from + Len(body) \in Nat /\ f.from = (f.from + Len(body)) - Len(body)
    BY <1>0, <2>1, <2>2, SliceIsRead DEF AsksOn
  <2>6. /\ PageStretch(old, f.step, f.attempt, f.stream, f.from)
        /\ Len(old) < PageTail /\ ~underway => f.from = Len(old)
    <3>1. CASE SameTail(f)
      <4>1. TailHolds(logs[f.step], f.step, underway) /\ f.from = logs[f.step].offset /\ old = logs[f.step].text
        BY <2>2, <2>4, <3>1 DEF PageKept, SameTail, AsksOn
      <4> QED
        BY <3>1, <4>1 DEF TailHolds, SameTail
    <3>2. CASE ~SameTail(f)
      <4>1. old = <<>> /\ (~underway => f.from = 0)
        BY <2>2, <2>4, <3>2 DEF AsksOn
      <4>2. PageStretch(<<>>, f.step, f.attempt, f.stream, f.from)
        BY <2>5 DEF PageStretch, Stretch
      <4> QED
        BY <4>1, <4>2
    <3> QED
      BY <3>1, <3>2
  <2>7. /\ PageStretch(old \o body, f.step, f.attempt, f.stream, f.from + Len(body))
        /\ Len(old \o body) = Len(old) + Len(body) /\ Len(old) \in Nat
    <3>1. Len(old) \in Nat
      BY <2>6 DEF PageStretch, Stretch
    <3> QED
      BY <2>5, <2>6, <3>1, StretchJoins DEF PageStretch
  <2>8. PICK l : l = ToppedUp(f, body) /\ l.attempt = f.attempt /\ l.stream = f.stream /\ l.offset = f.from + Len(body)
                 /\ l.text = Bounded(old \o body)
    <3>1. ToppedUp(f, body) = [attempt |-> f.attempt, stream |-> f.stream, offset |-> f.from + Len(body), text |-> Bounded(old \o body)]
      BY <2>4 DEF ToppedUp, SameTail
    <3> HIDE DEF SameTail
    <3> QED
      BY <3>1
  <2>9. TailHolds(l, f.step, underway)
    <3>1. /\ PageStretch(Bounded(old \o body), f.step, f.attempt, f.stream, f.from + Len(body))
          /\ Len(Bounded(old \o body)) < PageTail => Bounded(old \o body) = old \o body
      BY <2>5, <2>7, TailIsBounded
    <3>2. ASSUME Len(l.text) < PageTail, ~underway PROVE l.offset = Len(l.text)
      <4>1. l.text = old \o body /\ Len(old) + Len(body) < PageTail
        BY <2>7, <2>8, <3>1, <3>2
      <4>2. Len(old) < PageTail
        BY <2>5, <2>7, <4>1, PageAssumption
      <4>3. f.from = Len(old)
        BY <2>6, <3>2, <4>2
      <4> QED
        BY <2>7, <2>8, <4>1, <4>3
    <3> QED
      BY <2>2, <2>5, <2>8, <3>1, <3>2 DEF TailHolds, AsksOn
  <2>10. ASSUME NEW u \in PageSteps, logs'[u] # Nothing PROVE TailHolds(logs'[u], u, underway')
    <3>1. CASE u = f.step
      BY <1>1, <2>3, <2>8, <2>9, <3>1
    <3>2. CASE u # f.step
      BY <1>1, <2>3, <2>10, <3>2 DEF PageKept
    <3> QED
      BY <3>1, <3>2
  <2> QED
    BY <1>0, <1>1, <2>3, <2>10 DEF PageKept
<1> QED
  BY <1>2, <1>3

LEMMA PageStays == PageKept /\ [PageNext]_pageVars => PageKept'
<1> SUFFICES ASSUME PageKept, [PageNext]_pageVars PROVE PageKept'
  OBVIOUS
<1>1. CASE UNCHANGED pageVars
  <2>1. PageTypes' /\ notice' \in {0, controlSeq'} /\ sending' \in {0, controlSeq'} /\ UNCHANGED <<logs, fetching, underway>>
    BY <1>1 DEF pageVars, PageKept, PageTypes
  <2> QED
    BY <2>1, PageRests
<1>2. ASSUME NEW s \in PageSteps, StepRetries(s) \/ onFold(s) \/ onStepClick(s) \/ \E t \in PageStreams : StepWrites(s, t)
      PROVE  PageKept'
  BY <1>2, PageLooks, PageAssumption
<1>3. CASE \E t \in PageStreams : onStreamClick(t)
  BY <1>3, PageDrops
<1>4. CASE onSnapshot
  BY <1>4, PageDrops
<1>5. CASE sendControl \/ controlOutcome
  BY <1>5, PageSpeaks
<1>6. CASE topUpLog
  BY <1>6, PageAsks
<1>7. CASE logArrives \/ logFails
  BY <1>7, PageHears
<1> QED
  BY <1>1, <1>2, <1>3, <1>4, <1>5, <1>6, <1>7 DEF PageNext

\* The invariant is the page's promise.
LEMMA PageGives == PageKept => PageIsTheFile
<1> SUFFICES ASSUME PageKept PROVE PageIsTheFile
  OBVIOUS
<1>1. ASSUME NEW s \in PageSteps, logs[s] # Nothing
      PROVE  /\ OneFile(logs[s].text, s, logs[s].stream)
             /\ logs[s].text # <<>> => Last(logs[s].text)[2] = logs[s].attempt /\ Last(logs[s].text)[4] = logs[s].offset
             /\ (logs[s].text # <<>> /\ Len(logs[s].text) < PageTail /\ ~underway) => logs[s].text[1][4] = 1
  <2>1. PICK text, a, t, e : text = logs[s].text /\ a = logs[s].attempt /\ t = logs[s].stream /\ e = logs[s].offset
    OBVIOUS
  <2>2. e \in Nat /\ PageStretch(text, s, a, t, e) /\ (Len(text) < PageTail /\ ~underway => e = Len(text))
    BY <1>1, <2>1 DEF PageKept, TailHolds
  <2>3. Len(text) \in Nat /\ Len(text) <= e /\ text \in Seq(PageBytesOf)
    BY <2>2 DEF PageStretch, Stretch
  <2>4. ASSUME NEW i \in 1..Len(text) PROVE text[i] = <<s, a, t, e - Len(text) + i>>
    <3>1. e - Len(text) + i \in Nat
      BY <2>2, <2>3
    <3>2. text[i] = BytesAre(s, a, t)[e - Len(text) + i]
      BY <2>2 DEF PageStretch, Stretch
    <3> QED
      BY <3>1, <3>2 DEF BytesAre
  <2>5. ASSUME NEW i \in 1..Len(text)
        PROVE  /\ text[i][1] = s /\ text[i][2] = a /\ text[i][3] = t /\ text[i][4] = e - Len(text) + i
    BY <2>4
  <2>6. text # <<>> => 1 \in 1..Len(text) /\ Len(text) \in 1..Len(text) /\ Last(text) = text[Len(text)]
    BY <2>3 DEF Last
  <2>7. OneFile(text, s, t)
    <3>1. ASSUME NEW i \in 1..Len(text)
          PROVE  text[i][1] = s /\ text[i][3] = t /\ text[i][2] = text[1][2] /\ text[i][4] = text[1][4] + i - 1
      <4>1. 1 \in 1..Len(text)
        BY <2>3
      <4>2. text[1][2] = a /\ text[1][4] = e - Len(text) + 1
        BY <2>5, <4>1
      <4>3. (e - Len(text) + 1) + i - 1 = e - Len(text) + i
        BY <2>2, <2>3
      <4> QED
        BY <2>5, <4>2, <4>3
    <3> QED
      BY <3>1 DEF OneFile
  <2>8. ASSUME text # <<>> PROVE Last(text)[2] = a /\ Last(text)[4] = e
    <3>1. e - Len(text) + Len(text) = e
      BY <2>2, <2>3
    <3> QED
      BY <2>5, <2>6, <2>8, <3>1
  <2>9. ASSUME text # <<>>, Len(text) < PageTail, ~underway PROVE text[1][4] = 1
    <3>1. e - Len(text) + 1 = 1
      BY <2>2, <2>3, <2>9
    <3> QED
      BY <2>5, <2>6, <2>9, <3>1
  <2> QED
    BY <2>1, <2>7, <2>8, <2>9
<1>2. OneFile(frame.log, frame.step, frame.stream)
  <2>1. frame.step = selected /\ frame.stream = stream
        /\ frame.log = IF selected # "" /\ logs[selected] # Nothing /\ logs[selected].stream = stream THEN logs[selected].text ELSE <<>>
    BY DEF frame
  <2>2. CASE selected # "" /\ logs[selected] # Nothing /\ logs[selected].stream = stream
    <3>1. selected \in PageSteps
      BY <2>2 DEF PageKept, PageTypes
    <3> QED
      BY <1>1, <2>1, <2>2, <3>1
  <2>3. CASE ~(selected # "" /\ logs[selected] # Nothing /\ logs[selected].stream = stream)
    <3>1. frame.log = <<>>
      BY <2>1, <2>3
    <3>2. OneFile(<<>>, selected, stream)
      BY DEF OneFile
    <3> QED
      BY <2>1, <3>1, <3>2
  <2> QED
    BY <2>2, <2>3
<1> QED
  BY <1>1, <1>2 DEF PageKept, PageIsTheFile


(* What a client of a run is told happened, over the attach socket and in  *)
(* the browser, for any number of callers, tabs and requests, whoever goes *)
(* away meanwhile and however the server is closed: an operation reported  *)
(* applied was, one reported refused was not, and nobody is given what its *)
(* session does not allow (attachsrv/server.go, webui/control.go).  And    *)
(* the log it is shown is a stretch of the current attempt's own file,     *)
(* whatever capacity the ring has, however long the file grows and in      *)
(* whatever order chunks, scrollback, retries, snapshots and clicks meet   *)
(* (tui/model.go, webui/client/main.go).                                   *)
THEOREM TheAnswersAreHonest == AttachSpec /\ UiSpec /\ PaneSpec /\ PageSpec => []AnswersAreHonest
<1>1. AttachKept /\ UiKept /\ PaneKept /\ PageKept => AnswersAreHonest
  BY AttachTellsTheTruth, UiTellsTheTruth, PaneGives, PageGives DEF AnswersAreHonest
<1>2. PaneSpec => []PaneKept
  BY PaneStarts, PaneStays, PTL DEF PaneSpec
<1>3. PageSpec => []PageKept
  BY PageStarts, PageStays, PTL DEF PageSpec
<1> QED
  BY <1>1, <1>2, <1>3, AttachHolds, UiHolds, PTL
-----------------------------------------------------------------------------
(* An attempt in a container.                                              *)

\* Until it was started nobody killed it; a step's kill is one the select saw, a
\* session's one that cut its streams; and what returned with a code has ended.
CtrKept ==
  /\ cat \in {"unresolved", "new", "created", "waiting", "draining", "ran", "closed"}
  /\ cmode \in {"step", "session", "service"}
  /\ cat \in {"unresolved", "new", "created"} => ctr \in {"none", "created"} /\ ~ckilled
  /\ cat \in {"created", "waiting", "draining"} => cid
  /\ cat \notin {"ran", "closed"} => cres = "none"
  /\ cat = "draining" => ctr = "exited" /\ cmode = "step"
  /\ cmode = "step" /\ ckilled => cgiven
  /\ cmode = "session" /\ ckilled => clogs = "cut"
  /\ cat \in {"ran", "closed"} /\ cres # "infra" => ctr # "running"
  /\ cat = "ran" /\ cres # "infra" => cid
  /\ cclosed # "no" => cat = "closed" /\ cred # "made"
  /\ ContainerVerdict

\* The sandbox starts as the invariant says.
LEMMA CtrStarts == CtrInit => CtrKept
  BY DEF CtrInit, CtrKept, ContainerVerdict, ExitCodes

\* The calls that bring a container up.
LEMMA CtrComesUp ==
  ASSUME CtrKept, ImagePull \/ resolve \/ PutSecret \/ ContainerCreate \/ ContainerStart \/ CancelContainer
  PROVE  CtrKept'
<1>1. CASE ImagePull \/ resolve \/ PutSecret \/ CancelContainer
  BY <1>1 DEF CtrKept, ContainerVerdict, ExitCodes, ImagePull, resolve, PutSecret, CancelContainer, daemonVars,
              followVars, restVars
<1>2. CASE ContainerCreate
  BY <1>2 DEF CtrKept, ContainerVerdict, ExitCodes, ContainerCreate, Infra, followVars, restVars
<1>3. CASE ContainerStart
  BY <1>3 DEF CtrKept, ContainerVerdict, ExitCodes, ContainerStart, Infra, StartFailures, restVars
<1> QED
  BY <1>1, <1>2, <1>3

\* The container's own end, the wait for it and the kill.
LEMMA CtrEnds ==
  ASSUME CtrKept, ContainerExits \/ FollowersEnd \/ AwaitExit \/ WaitFails \/ DrainAndReturn
  PROVE  CtrKept'
<1>1. CASE ContainerExits \/ FollowersEnd
  BY <1>1 DEF CtrKept, ContainerVerdict, ExitCodes, ContainerExits, FollowersEnd, daemonVars, followVars, restVars
<1>2. CASE AwaitExit
  BY <1>2 DEF CtrKept, ContainerVerdict, ExitCodes, AwaitExit, Killed, daemonVars, followVars
<1>3. CASE WaitFails \/ DrainAndReturn
  BY <1>3 DEF CtrKept, ContainerVerdict, ExitCodes, WaitFails, DrainAndReturn, Infra, daemonVars, followVars, restVars
<1> QED
  BY <1>1, <1>2, <1>3

\* Sessions, services and Close.
LEMMA CtrIsLeft ==
  ASSUME CtrKept, SessionCancelled \/ SessionEnds \/ StopService \/ ServiceEnds \/ Close
  PROVE  CtrKept'
<1>1. CASE SessionCancelled \/ SessionEnds
  BY <1>1 DEF CtrKept, ContainerVerdict, ExitCodes, SessionCancelled, SessionEnds, Killed, daemonVars, followVars, restVars
<1>2. CASE StopService \/ ServiceEnds
  BY <1>2 DEF CtrKept, ContainerVerdict, ExitCodes, StopService, ServiceEnds, Killed, daemonVars, followVars, restVars
<1>3. CASE Close
  BY <1>3 DEF CtrKept, ContainerVerdict, ExitCodes, Close, daemonVars, followVars
<1> QED
  BY <1>1, <1>2, <1>3

\* Every step of the sandbox, its daemon and its context keeps it.
LEMMA CtrStays == CtrKept /\ [CtrNext]_ctrVars => CtrKept'
<1> SUFFICES ASSUME CtrKept, [CtrNext]_ctrVars PROVE CtrKept'
  OBVIOUS
<1>1. CASE UNCHANGED ctrVars
  BY <1>1 DEF CtrKept, ContainerVerdict, ctrVars
<1> QED
  BY <1>1, CtrComesUp, CtrEnds, CtrIsLeft DEF CtrNext

-----------------------------------------------------------------------------
(* What the ssh executor's invocations share.                              *)

Riders == {i \in Invokers : inv[i] \in {"slot", "riding"}}

\* A master that listens is the one stop would find; and nothing is opened after it.
MuxKept ==
  /\ inv \in [Invokers -> {"idle", "slot", "riding", "direct"}] /\ slots \in Nat
  /\ muxStop \in {"no", "ok", "failed"} /\ (muxStop # "no" => muxOff)
  /\ muxStop = "no" /\ master = "listening" => muxPath /\ muxUp
  /\ MuxIsAccounted

\* An invocation takes a slot, keeps it or gives it back.
LEMMA SlotsMove ==
  ASSUME MuxKept, NEW i \in Invokers, NEW a \in {"idle", "slot", "riding", "direct"},
         inv' = [inv EXCEPT ![i] = a]
  PROVE  /\ inv' \in [Invokers -> {"idle", "slot", "riding", "direct"}]
         /\ i \in Riders /\ a \in {"slot", "riding"} => Cardinality(Riders') = Cardinality(Riders)
         /\ i \notin Riders /\ a \notin {"slot", "riding"} => Cardinality(Riders') = Cardinality(Riders)
         /\ i \notin Riders /\ a \in {"slot", "riding"} => Cardinality(Riders') = Cardinality(Riders) + 1
         /\ i \in Riders /\ a \notin {"slot", "riding"} => Cardinality(Riders') = Cardinality(Riders) - 1
         /\ Cardinality(Riders) \in Nat
<1>1. inv \in [Invokers -> {"idle", "slot", "riding", "direct"}] /\ IsFiniteSet(Riders)
  BY HostAssumption, FS_Subset DEF MuxKept, Riders
<1>2. Riders' = {j \in Invokers : inv'[j] \in {"slot", "riding"}}
  BY DEF Riders
<1>3. \A j \in Invokers : inv'[j] = IF j = i THEN a ELSE inv[j]
  BY <1>1
<1>4. Riders' = IF a \in {"slot", "riding"} THEN Riders \cup {i} ELSE Riders \ {i}
  BY <1>2, <1>3 DEF Riders
<1>5. Cardinality(Riders) \in Nat
  BY <1>1, FS_CardinalityType
<1>6. i \notin Riders => Cardinality(Riders \cup {i}) = Cardinality(Riders) + 1
  BY <1>1, FS_AddElement
<1>7. i \in Riders => Cardinality(Riders \ {i}) = Cardinality(Riders) - 1
  BY <1>1, FS_RemoveElement
<1>8. (i \in Riders => Riders \cup {i} = Riders) /\ (i \notin Riders => Riders \ {i} = Riders)
  OBVIOUS
<1>9. inv' \in [Invokers -> {"idle", "slot", "riding", "direct"}]
  BY <1>1
<1> QED
  BY <1>4, <1>5, <1>6, <1>7, <1>8, <1>9

\* Nobody rides and no master is there at the start.
LEMMA MuxStarts == HostInit => MuxKept
<1> SUFFICES ASSUME HostInit PROVE MuxKept
  OBVIOUS
<1>1. Riders = {}
  BY DEF HostInit, Riders
<1>2. Cardinality(Riders) = 0
  BY <1>1, FS_EmptySet
<1> QED
  BY <1>2, HostAssumption DEF HostInit, MuxKept, MuxIsAccounted, Riders

\* An invocation moves: what the count is then.
LEMMA InvokerMoves ==
  ASSUME MuxKept, NEW i \in Invokers, acquire(i) \/ ensure(i) \/ finish(i)
  PROVE  inv' \in [Invokers -> {"idle", "slot", "riding", "direct"}] /\ slots' \in Nat /\ slots' <= MuxSessions
         /\ slots' = Cardinality(Riders')
<1>0. slots = Cardinality(Riders) /\ slots \in Nat /\ slots <= MuxSessions /\ MuxSessions \in Nat
      /\ inv \in [Invokers -> {"idle", "slot", "riding", "direct"}]
  BY HostAssumption DEF MuxKept, MuxIsAccounted, Riders
<1>4. i \in Riders <=> inv[i] \in {"slot", "riding"}
  BY DEF Riders
<1>1. CASE acquire(i)
  <2>1. CASE slots < MuxSessions
    <3>1. slots' = slots + 1 /\ inv' = [inv EXCEPT ![i] = "slot"] /\ i \notin Riders
      BY <1>1, <1>4, <2>1 DEF acquire
    <3>2. Cardinality(Riders') = slots + 1 /\ inv' \in [Invokers -> {"idle", "slot", "riding", "direct"}]
      BY <1>0, <3>1, SlotsMove
    <3>3. slots + 1 \in Nat /\ slots + 1 <= MuxSessions
      BY <1>0, <2>1
    <3> QED
      BY <3>1, <3>2, <3>3
  <2>2. CASE ~(slots < MuxSessions)
    <3>1. slots' = slots /\ inv' = [inv EXCEPT ![i] = "direct"] /\ i \notin Riders
      BY <1>1, <1>4, <2>2 DEF acquire
    <3> QED
      BY <1>0, <3>1, SlotsMove
  <2> QED
    BY <2>1, <2>2
<1>2. CASE ensure(i)
  <2>1. i \in Riders
    BY <1>2, <1>4 DEF ensure
  <2>2. \/ inv' = [inv EXCEPT ![i] = "direct"] /\ slots' = slots - 1
        \/ inv' = [inv EXCEPT ![i] = "riding"] /\ slots' = slots
    BY <1>2 DEF ensure, resolvePath, open, GoDirect
  <2>3. CASE inv' = [inv EXCEPT ![i] = "direct"] /\ slots' = slots - 1
    <3>1. Cardinality(Riders') = slots - 1 /\ inv' \in [Invokers -> {"idle", "slot", "riding", "direct"}]
      BY <1>0, <2>1, <2>3, SlotsMove
    <3>2. IsFiniteSet(Riders')
      <4>1. Riders' \subseteq Invokers
        BY DEF Riders
      <4> QED
        BY <4>1, HostAssumption, FS_Subset
    <3>3. Cardinality(Riders') \in Nat
      BY <3>2, FS_CardinalityType
    <3> QED
      BY <1>0, <2>3, <3>1, <3>3
  <2>4. CASE inv' = [inv EXCEPT ![i] = "riding"] /\ slots' = slots
    BY <1>0, <2>1, <2>4, SlotsMove
  <2> QED
    BY <2>2, <2>3, <2>4
<1>3. CASE finish(i)
  <2>1. inv' = [inv EXCEPT ![i] = "idle"]
    BY <1>3 DEF finish
  <2>2. CASE inv[i] = "riding"
    <3>1. Cardinality(Riders') = slots - 1 /\ slots' = slots - 1 /\ inv' \in [Invokers -> {"idle", "slot", "riding", "direct"}]
      BY <1>0, <1>3, <1>4, <2>1, <2>2, SlotsMove DEF finish
    <3>2. Riders' \subseteq Invokers
      BY DEF Riders
    <3>3. Cardinality(Riders') \in Nat
      BY <3>2, HostAssumption, FS_Subset, FS_CardinalityType
    <3> QED
      BY <1>0, <3>1, <3>3
  <2>3. CASE inv[i] # "riding"
    <3>1. slots' = slots /\ i \notin Riders
      BY <1>3, <1>4, <2>3 DEF finish
    <3> QED
      BY <1>0, <2>1, <3>1, SlotsMove
  <2> QED
    BY <2>2, <2>3
<1> QED
  BY <1>1, <1>2, <1>3

\* Every invocation, the master's exit and the stop keep it.
LEMMA MuxStays == MuxKept /\ [HostNext]_hostSharedVars => MuxKept'
<1> SUFFICES ASSUME MuxKept, [HostNext]_hostSharedVars PROVE MuxKept'
  OBVIOUS
<1>1. ASSUME NEW i \in Invokers, acquire(i) \/ ensure(i) \/ finish(i) PROVE MuxKept'
  <2>1. /\ inv' \in [Invokers -> {"idle", "slot", "riding", "direct"}] /\ slots' \in Nat /\ slots' <= MuxSessions
        /\ slots' = Cardinality(Riders')
    BY <1>1, InvokerMoves
  <2>2. /\ muxStop' \in {"no", "ok", "failed"} /\ (muxStop' # "no" => muxOff')
        /\ muxStop' = "no" /\ master' = "listening" => muxPath' /\ muxUp'
        /\ muxStop' = "ok" => master' # "listening"
    BY <1>1 DEF MuxKept, MuxIsAccounted, acquire, ensure, finish, resolvePath, open, GoDirect
  <2> QED
    BY <2>1, <2>2 DEF MuxKept, MuxIsAccounted, Riders
<1>2. CASE MasterExits \/ stop
  <2>1. UNCHANGED <<inv, slots>>
    BY <1>2 DEF MasterExits, stop
  <2>2. /\ muxStop' \in {"no", "ok", "failed"} /\ (muxStop' # "no" => muxOff')
        /\ muxStop' = "no" /\ master' = "listening" => muxPath' /\ muxUp'
        /\ muxStop' = "ok" => master' # "listening"
    BY <1>2 DEF MuxKept, MuxIsAccounted, MasterExits, stop
  <2> QED
    BY <2>1, <2>2 DEF MuxKept, MuxIsAccounted
<1>3. CASE UNCHANGED muxVars
  BY <1>3 DEF MuxKept, MuxIsAccounted, muxVars
<1>4. ASSUME NEW c \in Coordinators, hasStaged(c) \/ pushBinary(c) PROVE UNCHANGED muxVars
  BY <1>4 DEF hasStaged, pushBinary
<1>5. UNCHANGED hostSharedVars => UNCHANGED muxVars
  BY DEF hostSharedVars, muxVars
<1> QED
  BY <1>1, <1>2, <1>3, <1>4, <1>5 DEF HostNext, MuxNext

-----------------------------------------------------------------------------
(* Functions that run elsewhere.                                           *)

Hellos == {"ours", "other"}
Results == {"ok", "failed", "panicked", "infra", "late"}
Frames == Hellos \cup Results
FuncTypes ==
  /\ fat \in [Calls -> {"later", "check", "provision", "stage", "run", "running", "settled"}]
  /\ fverdict \in [Calls -> {"none", "refused", "skew"} \cup Results]
  /\ onHost \in [Calls -> {"none"} \cup Hellos] /\ childImage \in [Calls -> {"none"} \cup Hellos]
  /\ childAt \in [Calls -> {"none", "started", "greeted", "called", "returned", "gone"}]
  /\ childAnswered \in [Calls -> {"none", "ok", "failed", "panicked", "infra", "huge"}]
  /\ wire \in [Calls -> Seq(Frames)] /\ heard \in [Calls -> SUBSET Frames]
  /\ exitErr \in [Calls -> {"no", "exit", "error"}]

\* The provisioner: one holder of its mutex, and a platform that was compiled for
\* is remembered.
ProvKept ==
  /\ bins \in [Platforms -> {"none", "ok", "error"}] /\ compiled \in [Platforms -> {0, 1}]
  /\ \A p \in Platforms : compiled[p] = 1 => bins[p] # "none"
  /\ lockedBy \subseteq Calls /\ \A c, d \in lockedBy : c = d
  /\ \A c \in lockedBy : bins[PlatformOf[c]] = "none" /\ fat[c] \in {"check", "provision"}

\* The frames a child has sent, on the wire or read: its greeting says what it was
\* started from, and a result, of which there is one, what its function came to.
SentFrames(w, h) == h \cup {w[i] : i \in 1..Len(w)}
FramesAre(fs, img, cst, answer) ==
  /\ \A f \in fs : f \in Hellos => f = img /\ cst \notin {"none", "started"}
  /\ \A f \in fs : f \in Results => cst = "gone" /\ (f # "late" => f = answer)
  /\ \A f, g \in fs : f \in Results /\ g \in Results => f = g

\* Where a call has a child, frames and a verdict, and what the verdict is then.
CallIs(a, v, on, img, cst, answer, w, h, x) ==
  /\ a \notin {"running", "settled"} => cst = "none" /\ x = "no" /\ v \in {"none", "refused"}
  /\ cst = "none" => w = <<>> /\ h = {}
  /\ cst # "none" => img \in Hellos
  /\ cst = "returned" => answer # "none"
  /\ a = "run" => on \in Hellos
  /\ a = "settled" => w = <<>> /\ (cst = "none" \/ x # "no")
  /\ a = "settled" =>
       /\ v \in {"ok", "panicked", "failed"} => answer = v /\ img = "ours" /\ cst = "gone"
       /\ "other" \in h => v = "skew"
  /\ FramesAre(SentFrames(w, h), img, cst, answer)
CallKeptAt(c) ==
  CallIs(fat[c], fverdict[c], onHost[c], childImage[c], childAt[c], childAnswered[c], wire[c], heard[c], exitErr[c])

FuncKept == FuncTypes /\ ProvKept /\ \A c \in Calls : CallKeptAt(c)

\* Only the call c moves.
OneCallMoves(c) ==
  /\ FuncTypes'
  /\ \A d \in Calls \ {c} :
       /\ fat'[d] = fat[d] /\ fverdict'[d] = fverdict[d] /\ onHost'[d] = onHost[d]
       /\ childImage'[d] = childImage[d] /\ childAt'[d] = childAt[d] /\ childAnswered'[d] = childAnswered[d]
       /\ wire'[d] = wire[d] /\ heard'[d] = heard[d] /\ exitErr'[d] = exitErr[d]

\* It is enough to look at the call that moves.
LEMMA CallLands ==
  ASSUME FuncKept, NEW c \in Calls, OneCallMoves(c), CallKeptAt(c)', ProvKept'
  PROVE  FuncKept'
<1>1. ASSUME NEW d \in Calls, d # c PROVE CallKeptAt(d)'
  <2>1. CallKeptAt(d)
    BY DEF FuncKept
  <2> QED
    BY <1>1, <2>1 DEF OneCallMoves, CallKeptAt
<1> QED
  BY <1>1 DEF FuncKept, OneCallMoves

\* The provisioner's part when nothing of it changes and no holder moves.
LEMMA ProvStays ==
  ASSUME ProvKept, NEW c \in Calls, c \notin lockedBy, UNCHANGED provVars, \A d \in Calls \ {c} : fat'[d] = fat[d]
  PROVE  ProvKept'
  BY DEF ProvKept, provVars

\* Nobody is a child before anything was started.
LEMMA FuncStarts == FuncInit => FuncKept
<1> SUFFICES ASSUME FuncInit PROVE FuncKept
  OBVIOUS
<1>1. FuncTypes
  BY DEF FuncInit, FuncTypes, Hellos, Results, Frames
<1>2. ProvKept
  BY DEF FuncInit, ProvKept
<1>3. ASSUME NEW c \in Calls PROVE CallKeptAt(c)
  <2>1. /\ fat[c] \in {"later", "check"} /\ fverdict[c] = "none" /\ childAt[c] = "none"
        /\ wire[c] = <<>> /\ heard[c] = {} /\ exitErr[c] = "no"
    BY DEF FuncInit
  <2>2. SentFrames(wire[c], heard[c]) = {}
    BY <2>1 DEF SentFrames
  <2> QED
    BY <2>1, <2>2 DEF CallKeptAt, CallIs, FramesAre
<1> QED
  BY <1>1, <1>2, <1>3 DEF FuncKept

\* Before the child: a check, the provisioner and the staging.
LEMMA FuncRefuses ==
  ASSUME FuncKept, NEW c \in Calls, Refuse(c) \/ invokeRemote(c)
  PROVE  FuncKept'
<1>0. FuncTypes /\ ProvKept /\ CallKeptAt(c)
  BY DEF FuncKept
<1>1. OneCallMoves(c) /\ UNCHANGED provVars /\ c \notin lockedBy
  <2>1. UNCHANGED provVars /\ (c \notin lockedBy \/ fat[c] = "later")
    BY DEF Refuse, invokeRemote
  <2>2. c \notin lockedBy
    BY <1>0, <2>1 DEF ProvKept
  <2>3. OneCallMoves(c)
    BY <1>0 DEF Refuse, invokeRemote, OneCallMoves, FuncTypes, childVars
  <2> QED
    BY <2>1, <2>2, <2>3
<1>2. ProvKept'
  BY <1>0, <1>1, ProvStays DEF OneCallMoves
<1>3. /\ fat'[c] \in {"settled", "provision"} /\ fverdict'[c] \in {fverdict[c], "refused"} /\ fat[c] \notin {"running", "settled"}
      /\ onHost'[c] = onHost[c] /\ childImage'[c] = childImage[c] /\ childAt'[c] = childAt[c]
      /\ childAnswered'[c] = childAnswered[c] /\ wire'[c] = wire[c] /\ heard'[c] = heard[c] /\ exitErr'[c] = exitErr[c]
  BY <1>0 DEF Refuse, invokeRemote, FuncTypes, childVars
<1>4. CallKeptAt(c)'
  BY <1>0, <1>3 DEF CallKeptAt, CallIs
<1> QED
  BY <1>1, <1>2, <1>4, CallLands

\* What For leads to.
LEMMA FuncProvisioned ==
  ASSUME FuncKept, NEW c \in Calls, NEW ok \in BOOLEAN, Provisioned(c, ok), fat[c] \in {"check", "provision"},
         UNCHANGED <<onHost, childVars, heard, exitErr>>, ProvKept'
  PROVE  FuncKept'
<1>0. FuncTypes /\ CallKeptAt(c)
  BY DEF FuncKept
<1> DEFINE a == CASE ~ok -> "settled" [] ok /\ fat[c] = "check" -> "later" [] OTHER -> "stage"
           v == IF ok THEN fverdict[c] ELSE "refused"
<1>1. fat' = [fat EXCEPT ![c] = a] /\ fverdict' = [fverdict EXCEPT ![c] = v]
  BY <1>0 DEF Provisioned, FuncTypes
<1>2. a \in {"settled", "later", "stage"} /\ v \in {fverdict[c], "refused"}
  OBVIOUS
<1> HIDE DEF a, v
<1>3. OneCallMoves(c)
  BY <1>0, <1>1, <1>2 DEF OneCallMoves, FuncTypes, childVars
<1>4. /\ fat'[c] \in {"settled", "later", "stage"} /\ fverdict'[c] \in {fverdict[c], "refused"}
      /\ onHost'[c] = onHost[c] /\ childImage'[c] = childImage[c] /\ childAt'[c] = childAt[c]
      /\ childAnswered'[c] = childAnswered[c] /\ wire'[c] = wire[c] /\ heard'[c] = heard[c] /\ exitErr'[c] = exitErr[c]
  BY <1>0, <1>1, <1>2 DEF FuncTypes, childVars
<1>5. CallKeptAt(c)'
  BY <1>0, <1>4 DEF CallKeptAt, CallIs
<1> QED
  BY <1>3, <1>5, CallLands

\* For with a remembered outcome, For that takes the mutex, and the build under it.
LEMMA FuncProvisions ==
  ASSUME FuncKept, NEW c \in Calls, For(c) \/ provision(c)
  PROVE  FuncKept'
<1> DEFINE p == PlatformOf[c]
<1>0. FuncTypes /\ ProvKept /\ CallKeptAt(c) /\ p \in Platforms /\ \A d \in Calls : PlatformOf[d] \in Platforms
  BY DEF FuncKept, Platforms
<1>1. CASE For(c) /\ bins[p] # "none"
  <2>1. Provisioned(c, bins[p] = "ok") /\ fat[c] \in {"check", "provision"} /\ UNCHANGED <<onHost, childVars, heard, exitErr>>
        /\ UNCHANGED provVars
    BY <1>1 DEF For, provVars
  <2>2. \A d \in Calls \ {c} : fat'[d] = fat[d]
    BY <1>0, <2>1 DEF Provisioned, FuncTypes
  <2>3. ProvKept' /\ (bins[p] = "ok") \in BOOLEAN
    BY <1>0, <1>1, <2>1, <2>2, ProvStays DEF ProvKept
  <2> QED
    BY <2>1, <2>3, FuncProvisioned
<1>2. CASE For(c) /\ ~(bins[p] # "none")
  <2>1. lockedBy = {} /\ lockedBy' = {c} /\ fat[c] \in {"check", "provision"} /\ bins[p] = "none"
        /\ UNCHANGED <<fat, fverdict, bins, compiled, onHost, childVars, heard, exitErr>>
    BY <1>2 DEF For
  <2>2. ProvKept'
    BY <1>0, <2>1 DEF ProvKept
  <2>3. OneCallMoves(c) /\ CallKeptAt(c)'
    BY <1>0, <2>1 DEF OneCallMoves, FuncTypes, childVars, CallKeptAt
  <2> QED
    BY <2>2, <2>3, CallLands
<1>3. CASE provision(c)
  <2>1. PICK ok \in BOOLEAN :
          /\ bins' = [bins EXCEPT ![p] = IF ok THEN "ok" ELSE "error"] /\ Provisioned(c, ok)
    BY <1>3 DEF provision
  <2>2. /\ c \in lockedBy /\ lockedBy' = lockedBy \ {c} /\ UNCHANGED <<onHost, childVars, heard, exitErr>>
        /\ compiled' = compiled \/ compiled' = [compiled EXCEPT ![p] = @ + 1]
    <3>1. compiled \in [Platforms -> {0, 1}] => compiled = [compiled EXCEPT ![p] = @]
      OBVIOUS
    <3> QED
      BY <1>0, <1>3, <3>1 DEF provision, ProvKept
  <2>3. bins[p] = "none" /\ fat[c] \in {"check", "provision"} /\ lockedBy' = {} /\ compiled[p] = 0
    BY <1>0, <2>2 DEF ProvKept
  <2>4. /\ bins' \in [Platforms -> {"none", "ok", "error"}] /\ bins'[p] # "none"
        /\ \A q \in Platforms \ {p} : bins'[q] = bins[q]
    BY <1>0, <2>1 DEF ProvKept
  <2>5. /\ compiled' \in [Platforms -> {0, 1}] /\ \A q \in Platforms \ {p} : compiled'[q] = compiled[q]
    BY <1>0, <2>2, <2>3 DEF ProvKept
  <2>6. ProvKept'
    BY <1>0, <2>3, <2>4, <2>5 DEF ProvKept
  <2> QED
    BY <2>1, <2>2, <2>3, <2>6, FuncProvisioned
<1> QED
  BY <1>1, <1>2, <1>3

\* Staging, the start and the deadline: no frame moves.
LEMMA FuncStages ==
  ASSUME FuncKept, NEW c \in Calls, stage(c) \/ Replace(c) \/ StartChild(c)
  PROVE  FuncKept'
<1>0. FuncTypes /\ ProvKept /\ CallKeptAt(c) /\ c \notin lockedBy /\ fat[c] \in {"stage", "run"}
  BY DEF FuncKept, ProvKept, stage, Replace, StartChild
<1>1. OneCallMoves(c) /\ UNCHANGED provVars
  <2>1. UNCHANGED provVars
    BY DEF stage, Replace, StartChild
  <2>2. CASE stage(c)
    <3>1. PICK a \in {"run", "settled"}, v \in {fverdict[c], "infra"}, on \in {onHost[c], "ours"} :
            /\ fat' = [fat EXCEPT ![c] = a] /\ fverdict' = [fverdict EXCEPT ![c] = v] /\ onHost' = [onHost EXCEPT ![c] = on]
      BY <1>0, <2>2 DEF stage, FuncTypes
    <3>2. UNCHANGED <<childImage, childAt, childAnswered, wire, heard, exitErr>>
      BY <2>2 DEF stage, childVars
    <3>3. /\ v \in {"none", "refused", "skew"} \cup Results /\ on \in {"none"} \cup Hellos
          /\ a \in {"later", "check", "provision", "stage", "run", "running", "settled"}
      BY <1>0 DEF FuncTypes, Hellos, Results
    <3>4. /\ fat' \in [Calls -> {"later", "check", "provision", "stage", "run", "running", "settled"}]
          /\ fverdict' \in [Calls -> {"none", "refused", "skew"} \cup Results] /\ onHost' \in [Calls -> {"none"} \cup Hellos]
          /\ \A d \in Calls \ {c} : fat'[d] = fat[d] /\ fverdict'[d] = fverdict[d] /\ onHost'[d] = onHost[d]
      BY <1>0, <3>1, <3>3 DEF FuncTypes
    <3>5. /\ childImage' \in [Calls -> {"none"} \cup Hellos]
          /\ childAt' \in [Calls -> {"none", "started", "greeted", "called", "returned", "gone"}]
          /\ childAnswered' \in [Calls -> {"none", "ok", "failed", "panicked", "infra", "huge"}]
          /\ wire' \in [Calls -> Seq(Frames)] /\ heard' \in [Calls -> SUBSET Frames]
          /\ exitErr' \in [Calls -> {"no", "exit", "error"}]
      BY <1>0, <3>2 DEF FuncTypes
    <3>6. FuncTypes'
      BY <3>4, <3>5 DEF FuncTypes
    <3>7. \A d \in Calls \ {c} :
            /\ childImage'[d] = childImage[d] /\ childAt'[d] = childAt[d] /\ childAnswered'[d] = childAnswered[d]
            /\ wire'[d] = wire[d] /\ heard'[d] = heard[d] /\ exitErr'[d] = exitErr[d]
      BY <3>2
    <3> QED
      BY <2>1, <3>4, <3>6, <3>7 DEF OneCallMoves
  <2>3. CASE Replace(c)
    BY <1>0, <2>3 DEF Replace, OneCallMoves, FuncTypes, childVars, Hellos
  <2>4. CASE StartChild(c)
    BY <1>0, <2>4 DEF StartChild, OneCallMoves, FuncTypes
  <2> QED
    BY <2>1, <2>2, <2>3, <2>4
<1>2. ProvKept'
  BY <1>0, <1>1, ProvStays DEF OneCallMoves
<1>3. /\ childAt[c] = "none" /\ wire[c] = <<>> /\ heard[c] = {} /\ exitErr[c] = "no" /\ fverdict[c] \in {"none", "refused"}
      /\ fat[c] = "run" => onHost[c] \in Hellos
  BY <1>0 DEF CallKeptAt, CallIs
<1>4. SentFrames(<<>>, {}) = {}
  BY DEF SentFrames
<1>5. /\ wire'[c] = <<>> /\ heard'[c] = {} /\ exitErr'[c] = "no" /\ fverdict'[c] \in {fverdict[c], "infra"}
      /\ childAt'[c] = "none" \/ (fat'[c] = "running" /\ childAt'[c] = "started" /\ childImage'[c] \in Hellos)
      /\ fat'[c] = "settled" \/ fverdict'[c] = fverdict[c]
      /\ fat'[c] = "run" => onHost'[c] \in Hellos
      /\ fat'[c] \in {"settled", "run", "running"}
  <2>1. CASE stage(c)
    BY <1>0, <1>3, <2>1 DEF stage, FuncTypes, childVars, Hellos
  <2>2. CASE Replace(c)
    BY <1>0, <1>3, <2>2 DEF Replace, FuncTypes, childVars, Hellos
  <2>3. CASE StartChild(c)
    BY <1>0, <1>3, <2>3 DEF StartChild, FuncTypes
  <2> QED
    BY <2>1, <2>2, <2>3
<1>6. CallKeptAt(c)'
  BY <1>3, <1>4, <1>5 DEF CallKeptAt, CallIs, FramesAre
<1> QED
  BY <1>1, <1>2, <1>6, CallLands

\* The frames there are when one more is sent, one is read and some are lost.
LEMMA FramesMove ==
  ASSUME NEW w \in Seq(Frames), NEW h \in SUBSET Frames
  PROVE  /\ \A f \in Frames : SentFrames(Append(w, f), h) = SentFrames(w, h) \cup {f} /\ Append(w, f) \in Seq(Frames)
         /\ w # <<>> => Head(w) \in Frames /\ Tail(w) \in Seq(Frames) /\ SentFrames(Tail(w), h \cup {Head(w)}) = SentFrames(w, h)
         /\ \A n \in 0..Len(w) : SubSeq(w, 1, n) \in Seq(Frames) /\ SentFrames(SubSeq(w, 1, n), h) \subseteq SentFrames(w, h)
         /\ SentFrames(<<>>, h) = h
<1> HIDE DEF Frames
<1>0. Len(w) \in Nat /\ \A i \in 1..Len(w) : w[i] \in Frames
  OBVIOUS
<1>1. ASSUME NEW f \in Frames PROVE SentFrames(Append(w, f), h) = SentFrames(w, h) \cup {f} /\ Append(w, f) \in Seq(Frames)
  <2>1. /\ Append(w, f) \in Seq(Frames) /\ Len(Append(w, f)) = Len(w) + 1
        /\ Append(w, f)[Len(w) + 1] = f /\ \A i \in 1..Len(w) : Append(w, f)[i] = w[i]
    BY AppendProperties
  <2>2. 1..(Len(w) + 1) = (1..Len(w)) \cup {Len(w) + 1}
    BY <1>0
  <2> QED
    BY <2>1, <2>2 DEF SentFrames
<1>2. ASSUME w # <<>> PROVE Head(w) \in Frames /\ Tail(w) \in Seq(Frames) /\ SentFrames(Tail(w), h \cup {Head(w)}) = SentFrames(w, h)
  <2>1. /\ Head(w) = w[1] /\ Tail(w) \in Seq(Frames) /\ Len(Tail(w)) = Len(w) - 1 /\ Len(w) > 0
        /\ \A i \in 1..(Len(w) - 1) : Tail(w)[i] = w[i + 1]
    BY <1>2, HeadTailProperties
  <2>2. ASSUME NEW f PROVE f \in {Tail(w)[i] : i \in 1..Len(Tail(w))} <=> \E i \in 2..Len(w) : f = w[i]
    <3>1. ASSUME NEW i \in 1..Len(Tail(w)), f = Tail(w)[i] PROVE \E j \in 2..Len(w) : f = w[j]
      <4>1. i + 1 \in 2..Len(w) /\ i \in 1..(Len(w) - 1)
        BY <1>0, <2>1
      <4> QED
        BY <2>1, <3>1, <4>1
    <3>2. ASSUME NEW i \in 2..Len(w), f = w[i] PROVE \E j \in 1..Len(Tail(w)) : f = Tail(w)[j]
      <4>1. i - 1 \in 1..(Len(w) - 1) /\ (i - 1) + 1 = i
        BY <1>0
      <4> QED
        BY <2>1, <3>2, <4>1
    <3> QED
      BY <3>1, <3>2
  <2>3. 1..Len(w) = {1} \cup (2..Len(w))
    BY <1>0, <2>1
  <2>4. \A f : f \in {w[i] : i \in 1..Len(w)} <=> f = w[1] \/ \E i \in 2..Len(w) : f = w[i]
    BY <2>3
  <2>5. \A f : f \in SentFrames(Tail(w), h \cup {Head(w)}) <=> f \in SentFrames(w, h)
    BY <2>1, <2>2, <2>4 DEF SentFrames
  <2> QED
    BY <1>0, <2>1, <2>5
<1>3. ASSUME NEW n \in 0..Len(w) PROVE SubSeq(w, 1, n) \in Seq(Frames) /\ SentFrames(SubSeq(w, 1, n), h) \subseteq SentFrames(w, h)
  <2>1. n \in Int /\ 1 \in Int /\ \A i \in 1..n : w[i] \in Frames
    BY <1>0
  <2>2. /\ SubSeq(w, 1, n) \in Seq(Frames) /\ Len(SubSeq(w, 1, n)) = IF 1 <= n THEN n - 1 + 1 ELSE 0
        /\ \A i \in 1..(n - 1 + 1) : SubSeq(w, 1, n)[i] = w[1 + i - 1]
    BY <2>1, SubSeqProperties
  <2>3. Len(SubSeq(w, 1, n)) = n /\ \A i \in 1..n : i \in 1..Len(w) /\ SubSeq(w, 1, n)[i] = w[i]
    BY <1>0, <2>1, <2>2
  <2> QED
    BY <2>2, <2>3 DEF SentFrames
<1>4. SentFrames(<<>>, h) = h
  BY DEF SentFrames
<1> QED
  BY <1>1, <1>2, <1>3, <1>4

\* Less of what was sent is still what it was.
LEMMA FramesShrink ==
  ASSUME NEW fs, NEW gs, gs \subseteq fs, NEW img, NEW cst, NEW answer, FramesAre(fs, img, cst, answer)
  PROVE  FramesAre(gs, img, cst, answer)
  BY DEF FramesAre

\* The child: it greets, is called, answers, is late or dies; a frame it sends is
\* lost when the connection is.
LEMMA FuncChild ==
  ASSUME FuncKept, NEW c \in Calls,
         Misfit(c) \/ WriteHello(c) \/ invoke(c) \/ Invoke(c) \/ write(c) \/ selfTimeout(c) \/ ChildDies(c)
  PROVE  FuncKept'
<1>0. FuncTypes /\ ProvKept /\ CallKeptAt(c) /\ childAt[c] \in {"started", "greeted", "called", "returned"}
  BY DEF FuncKept, Misfit, WriteHello, invoke, Invoke, write, selfTimeout, ChildDies
<1>1. fat[c] \in {"running", "settled"} /\ UNCHANGED <<fat, fverdict, onHost, childImage, heard, exitErr, provVars>>
  BY <1>0 DEF CallKeptAt, CallIs, FuncTypes, Misfit, WriteHello, invoke, Invoke, write, selfTimeout, ChildDies
<1>2. ProvKept'
  BY <1>0, <1>1 DEF ProvKept, provVars
<1> DEFINE fs == SentFrames(wire[c], heard[c])
<1>3. /\ FramesAre(fs, childImage[c], childAt[c], childAnswered[c]) /\ fs \subseteq Frames /\ fs \cap Results = {}
      /\ wire[c] \in Seq(Frames) /\ heard[c] \in SUBSET Frames
      /\ (fat[c] = "settled" => wire[c] = <<>> /\ exitErr[c] # "no" /\ fverdict[c] \notin {"ok", "panicked", "failed"})
  <2>1. FramesAre(fs, childImage[c], childAt[c], childAnswered[c])
    BY <1>0 DEF CallKeptAt, CallIs
  <2>2. wire[c] \in Seq(Frames) /\ heard[c] \in SUBSET Frames
    BY <1>0 DEF FuncTypes
  <2>3. fs \subseteq Frames
    BY <2>2 DEF SentFrames
  <2>4. fs \cap Results = {}
    BY <1>0, <2>1 DEF FramesAre
  <2>5. fat[c] = "settled" => wire[c] = <<>> /\ exitErr[c] # "no" /\ fverdict[c] \notin {"ok", "panicked", "failed"}
    BY <1>0 DEF CallKeptAt, CallIs
  <2> QED
    BY <2>1, <2>2, <2>3, <2>4, <2>5
<1>4. PICK cst \in {"greeted", "called", "returned", "gone"}, an \in {"none", "ok", "failed", "panicked", "infra", "huge"} :
        /\ childAt' = [childAt EXCEPT ![c] = cst] /\ childAnswered' = [childAnswered EXCEPT ![c] = an]
        /\ cst = "returned" => an # "none"
        /\ \/ wire' = wire
           \/ exitErr[c] = "no" /\ \E f \in Frames :
                /\ wire' = [wire EXCEPT ![c] = Append(wire[c], f)]
                /\ f \in Hellos => f = childImage[c]
                /\ f \in Results => cst = "gone" /\ (f # "late" => f = an)
  <2>1. childAnswered = [childAnswered EXCEPT ![c] = childAnswered[c]] /\ wire = [wire EXCEPT ![c] = wire[c]]
        /\ childAnswered[c] \in {"none", "ok", "failed", "panicked", "infra", "huge"}
    BY <1>0 DEF FuncTypes
  <2>2. CASE Misfit(c) \/ invoke(c) \/ ChildDies(c)
    BY <2>1, <2>2 DEF Misfit, invoke, ChildDies
  <2>3. CASE Invoke(c)
    <3>1. PICK o \in {"ok", "failed", "panicked", "infra", "huge"} : childAnswered' = [childAnswered EXCEPT ![c] = o]
      BY <2>3 DEF Invoke
    <3>2. childAt' = [childAt EXCEPT ![c] = "returned"] /\ wire' = wire
      BY <2>3 DEF Invoke
    <3> QED
      BY <3>1, <3>2
  <2>4. ASSUME NEW f, Sends(c, f) PROVE wire' = wire \/ (exitErr[c] = "no" /\ wire' = [wire EXCEPT ![c] = Append(wire[c], f)])
    <3>1. CASE exitErr[c] # "no"
      BY <2>1, <2>4, <3>1 DEF Sends
    <3>2. CASE ~(exitErr[c] # "no")
      BY <2>4, <3>2 DEF Sends
    <3> QED
      BY <3>1, <3>2
  <2>5. CASE WriteHello(c)
    <3>1. childAt' = [childAt EXCEPT ![c] = "greeted"] /\ childAnswered' = childAnswered /\ Sends(c, childImage[c])
      BY <2>5 DEF WriteHello
    <3>2. childImage[c] \in Hellos /\ childImage[c] \notin Results /\ childImage[c] \in Frames
      BY <1>0, <2>5 DEF CallKeptAt, CallIs, Hellos, Results, Frames, WriteHello
    <3> QED
      BY <2>1, <2>4, <3>1, <3>2
  <2>6. CASE write(c)
    <3>1. childAt' = [childAt EXCEPT ![c] = "gone"] /\ childAnswered' = childAnswered
      BY <2>6 DEF write
    <3>2. CASE childAnswered[c] = "huge"
      BY <2>1, <2>6, <3>1, <3>2 DEF write
    <3>3. CASE childAnswered[c] # "huge"
      <4>1. Sends(c, childAnswered[c]) /\ childAnswered[c] \in Results /\ childAnswered[c] \notin Hellos
        BY <1>0, <2>1, <2>6, <3>3 DEF write, CallKeptAt, CallIs, Results, Hellos
      <4> QED
        BY <2>1, <2>4, <3>1, <4>1 DEF Frames
    <3> QED
      BY <3>2, <3>3
  <2>7. CASE selfTimeout(c)
    <3>1. childAt' = [childAt EXCEPT ![c] = "gone"] /\ childAnswered' = childAnswered /\ Sends(c, "late")
      BY <2>7 DEF selfTimeout
    <3>2. "late" \in Results /\ "late" \notin Hellos /\ "late" \in Frames
      BY DEF Results, Hellos, Frames
    <3> QED
      BY <2>1, <2>4, <3>1, <3>2
  <2> QED
    BY <2>2, <2>3, <2>5, <2>6, <2>7
<1>5. OneCallMoves(c) /\ childAt'[c] = cst /\ childAnswered'[c] = an /\ wire'[c] \in Seq(Frames)
      /\ (wire'[c] = wire[c] \/ (exitErr[c] = "no" /\ \E f \in Frames :
                /\ wire'[c] = Append(wire[c], f)
                /\ f \in Hellos => f = childImage[c]
                /\ f \in Results => cst = "gone" /\ (f # "late" => f = an)))
  <2>1. /\ wire' \in [Calls -> Seq(Frames)] /\ \A d \in Calls \ {c} : wire'[d] = wire[d]
        /\ (wire'[c] = wire[c] \/ (exitErr[c] = "no" /\ \E f \in Frames :
                /\ wire'[c] = Append(wire[c], f)
                /\ f \in Hellos => f = childImage[c]
                /\ f \in Results => cst = "gone" /\ (f # "late" => f = an)))
    <3>0. wire \in [Calls -> Seq(Frames)]
      BY <1>0 DEF FuncTypes
    <3>1. wire' = wire => /\ wire' \in [Calls -> Seq(Frames)] /\ \A d \in Calls \ {c} : wire'[d] = wire[d]
                         /\ wire'[c] = wire[c]
      BY <3>0
    <3>2. ASSUME NEW f \in Frames, wire' = [wire EXCEPT ![c] = Append(wire[c], f)]
          PROVE  /\ wire' \in [Calls -> Seq(Frames)] /\ \A d \in Calls \ {c} : wire'[d] = wire[d]
                 /\ wire'[c] = Append(wire[c], f)
      <4>1. Append(wire[c], f) \in Seq(Frames)
        BY <1>3, FramesMove
      <4>2. wire \in [Calls -> Seq(Frames)]
        BY <1>0 DEF FuncTypes
      <4> QED
        BY <3>2, <4>1, <4>2
    <3>3. CASE wire' = wire
      BY <3>1, <3>3
    <3>4. CASE ~(wire' = wire)
      <4>1. PICK f \in Frames :
                /\ wire' = [wire EXCEPT ![c] = Append(wire[c], f)]
                /\ f \in Hellos => f = childImage[c]
                /\ f \in Results => cst = "gone" /\ (f # "late" => f = an)
        BY <1>4, <3>4
      <4>2. exitErr[c] = "no"
        BY <1>4, <3>4
      <4>3. /\ wire' \in [Calls -> Seq(Frames)] /\ \A d \in Calls \ {c} : wire'[d] = wire[d]
            /\ wire'[c] = Append(wire[c], f)
        BY <3>2, <4>1
      <4> QED
        BY <4>1, <4>2, <4>3
    <3> QED
      BY <3>3, <3>4
  <2>2. OneCallMoves(c) /\ childAt'[c] = cst /\ childAnswered'[c] = an
    BY <1>0, <1>1, <1>4, <2>1 DEF OneCallMoves, FuncTypes
  <2> QED
    BY <2>1, <2>2
<1>6. FramesAre(SentFrames(wire'[c], heard[c]), childImage[c], cst, an)
  <2>1. FramesAre(fs, childImage[c], cst, an)
    <3>1. \A f \in fs : f \in Hellos => f = childImage[c]
      BY <1>3 DEF FramesAre
    <3>2. \A f \in fs : f \notin Results
      BY <1>3
    <3> QED
      BY <3>1, <3>2, <1>4 DEF FramesAre
  <2>2. CASE wire'[c] = wire[c]
    BY <2>1, <2>2
  <2>3. ASSUME NEW f \in Frames, wire'[c] = Append(wire[c], f), f \in Hellos => f = childImage[c],
               f \in Results => cst = "gone" /\ (f # "late" => f = an)
        PROVE  FramesAre(SentFrames(wire'[c], heard[c]), childImage[c], cst, an)
    <3>1. SentFrames(wire'[c], heard[c]) = fs \cup {f}
      <4>1. SentFrames(Append(wire[c], f), heard[c]) = SentFrames(wire[c], heard[c]) \cup {f}
        BY <1>3, FramesMove
      <4> QED
        BY <2>3, <4>1
    <3>2. \A g \in fs : g \notin Results
      BY <1>3
    <3> HIDE DEF fs
    <3> QED
      BY <2>1, <2>3, <3>1, <3>2, <1>4 DEF FramesAre
  <2> QED
    BY <1>5, <2>2, <2>3
<1>7. CallKeptAt(c)'
  <2>1. cst # "none" /\ fat'[c] = fat[c] /\ fverdict'[c] = fverdict[c] /\ onHost'[c] = onHost[c]
        /\ childImage'[c] = childImage[c] /\ heard'[c] = heard[c] /\ exitErr'[c] = exitErr[c]
    BY <1>1, <1>4
  <2>2. "other" \in heard[c] /\ fat[c] = "settled" => fverdict[c] = "skew"
    BY <1>0 DEF CallKeptAt, CallIs
  <2>3. fat[c] = "settled" => wire'[c] = <<>>
    BY <1>3, <1>5
  <2>4. childImage[c] \in Hellos /\ (cst = "returned" => an # "none")
    BY <1>0, <1>4 DEF CallKeptAt, CallIs
  <2> QED
    BY <1>1, <1>3, <1>5, <1>6, <2>1, <2>2, <2>3, <2>4 DEF CallKeptAt, CallIs
<1> QED
  BY <1>2, <1>5, <1>7, CallLands

\* RunInteractive comes back: what was not yet read may be lost, nothing is added.
LEMMA FuncReturns ==
  ASSUME FuncKept, NEW c \in Calls, runReturns(c)
  PROVE  FuncKept'
<1>0. FuncTypes /\ ProvKept /\ CallKeptAt(c) /\ c \notin lockedBy /\ exitErr[c] = "no" /\ fat[c] \in {"run", "running"}
  BY DEF FuncKept, ProvKept, runReturns
<1>1. PICK w \in Seq(Frames), x \in {"exit", "error"} :
        /\ fat' = [fat EXCEPT ![c] = "running"] /\ exitErr' = [exitErr EXCEPT ![c] = x] /\ wire' = [wire EXCEPT ![c] = w]
        /\ SentFrames(w, heard[c]) \subseteq SentFrames(wire[c], heard[c]) /\ (wire[c] = <<>> => w = <<>>)
  <2>1. wire[c] \in Seq(Frames) /\ heard[c] \in SUBSET Frames /\ wire = [wire EXCEPT ![c] = wire[c]]
        /\ fat = [fat EXCEPT ![c] = fat[c]]
    BY <1>0 DEF FuncTypes
  <2>2. CASE fat[c] = "running" /\ exitErr' = [exitErr EXCEPT ![c] = "exit"] /\ UNCHANGED <<fat, wire>>
    BY <2>1, <2>2
  <2>3. ASSUME NEW n \in 0..Len(wire[c]), wire' = [wire EXCEPT ![c] = SubSeq(wire[c], 1, n)],
               fat' = [fat EXCEPT ![c] = "running"], exitErr' = [exitErr EXCEPT ![c] = "error"]
        PROVE  \E w \in Seq(Frames), x \in {"exit", "error"} :
                 /\ fat' = [fat EXCEPT ![c] = "running"] /\ exitErr' = [exitErr EXCEPT ![c] = x] /\ wire' = [wire EXCEPT ![c] = w]
                 /\ SentFrames(w, heard[c]) \subseteq SentFrames(wire[c], heard[c]) /\ (wire[c] = <<>> => w = <<>>)
    <3>1. SubSeq(wire[c], 1, n) \in Seq(Frames) /\ SentFrames(SubSeq(wire[c], 1, n), heard[c]) \subseteq SentFrames(wire[c], heard[c])
      BY <2>1, FramesMove
    <3>2. wire[c] = <<>> => SubSeq(wire[c], 1, n) = <<>>
      <4>1. wire[c] = <<>> => n = 0
        BY <2>3
      <4> QED
        BY <4>1
    <3> QED
      BY <2>3, <3>1, <3>2
  <2> QED
    BY <2>1, <2>2, <2>3 DEF runReturns
<1>2. UNCHANGED <<provVars, onHost, childImage, childAt, childAnswered, heard, fverdict>>
  BY DEF runReturns
<1>3. OneCallMoves(c)
  <2>1. /\ fat' \in [Calls -> {"later", "check", "provision", "stage", "run", "running", "settled"}]
        /\ wire' \in [Calls -> Seq(Frames)] /\ exitErr' \in [Calls -> {"no", "exit", "error"}]
        /\ \A d \in Calls \ {c} : fat'[d] = fat[d] /\ wire'[d] = wire[d] /\ exitErr'[d] = exitErr[d]
    BY <1>0, <1>1 DEF FuncTypes
  <2>2. FuncTypes'
    BY <1>0, <1>2, <2>1 DEF FuncTypes
  <2> QED
    BY <1>2, <2>1, <2>2 DEF OneCallMoves
<1>4. ProvKept'
  BY <1>0, <1>2, <1>3, ProvStays DEF OneCallMoves
<1>5. fat'[c] = "running" /\ wire'[c] = w /\ exitErr'[c] = x
  BY <1>0, <1>1 DEF FuncTypes
<1>6. FramesAre(SentFrames(w, heard[c]), childImage[c], childAt[c], childAnswered[c])
  <2>1. FramesAre(SentFrames(wire[c], heard[c]), childImage[c], childAt[c], childAnswered[c])
    BY <1>0 DEF CallKeptAt, CallIs
  <2> QED
    BY <1>1, <2>1, FramesShrink
<1>7. CallKeptAt(c)'
  BY <1>0, <1>1, <1>2, <1>5, <1>6 DEF CallKeptAt, CallIs
<1> QED
  BY <1>3, <1>4, <1>7, CallLands

\* A frame is read.
LEMMA FuncPumps ==
  ASSUME FuncKept, NEW c \in Calls, pump(c)
  PROVE  FuncKept'
<1>0. FuncTypes /\ ProvKept /\ CallKeptAt(c) /\ c \notin lockedBy /\ fat[c] = "running" /\ wire[c] # <<>>
  BY DEF FuncKept, ProvKept, pump
<1>1. wire[c] \in Seq(Frames) /\ heard[c] \in SUBSET Frames
  BY <1>0 DEF FuncTypes
<1>2. PICK w \in Seq(Frames), h \in SUBSET Frames :
        /\ heard' = [heard EXCEPT ![c] = h] /\ wire' = [wire EXCEPT ![c] = w] /\ SentFrames(w, h) = SentFrames(wire[c], heard[c])
  <2>1. /\ Head(wire[c]) \in Frames /\ Tail(wire[c]) \in Seq(Frames)
        /\ SentFrames(Tail(wire[c]), heard[c] \cup {Head(wire[c])}) = SentFrames(wire[c], heard[c])
    BY <1>0, <1>1, FramesMove
  <2>2. heard' = [heard EXCEPT ![c] = heard[c] \cup {Head(wire[c])}] /\ wire' = [wire EXCEPT ![c] = Tail(wire[c])]
    BY DEF pump
  <2>3. heard[c] \cup {Head(wire[c])} \in SUBSET Frames
    BY <1>1, <2>1
  <2> QED
    BY <2>1, <2>2, <2>3
<1>3. UNCHANGED <<fat, provVars, onHost, childImage, childAt, childAnswered, exitErr, fverdict>>
  BY DEF pump
<1>4. OneCallMoves(c)
  <2>1. /\ wire' \in [Calls -> Seq(Frames)] /\ heard' \in [Calls -> SUBSET Frames]
        /\ \A d \in Calls \ {c} : wire'[d] = wire[d] /\ heard'[d] = heard[d]
    BY <1>0, <1>2 DEF FuncTypes
  <2>2. FuncTypes'
    BY <1>0, <1>3, <2>1 DEF FuncTypes
  <2> QED
    BY <1>3, <2>1, <2>2 DEF OneCallMoves
<1>5. ProvKept'
  BY <1>0, <1>3, <1>4, ProvStays DEF OneCallMoves
<1>6. wire'[c] = w /\ heard'[c] = h
  BY <1>0, <1>2 DEF FuncTypes
<1>7. FramesAre(SentFrames(w, h), childImage[c], childAt[c], childAnswered[c]) /\ childAt[c] # "none"
  BY <1>0, <1>2 DEF CallKeptAt, CallIs
<1>8. CallKeptAt(c)'
  BY <1>0, <1>3, <1>6, <1>7 DEF CallKeptAt, CallIs
<1> QED
  BY <1>4, <1>5, <1>8, CallLands

\* The verdict is read off what was heard: a function's own answer, in the binary
\* that was staged, and a skew as soon as another binary greeted.
LEMMA OutcomeIsHeard ==
  ASSUME FuncKept, NEW c \in Calls
  PROVE  /\ FuncOutcome(c) \in {"skew"} \cup Results
         /\ FuncOutcome(c) \in {"ok", "panicked", "failed"} =>
              childAnswered[c] = FuncOutcome(c) /\ childImage[c] = "ours" /\ childAt[c] = "gone"
         /\ "other" \in heard[c] => FuncOutcome(c) = "skew"
<1> DEFINE h == heard[c]
           o == FuncOutcome(c)
           r == Reported(c)
<1>1. /\ "other" \in h => o = "skew"
      /\ "other" \notin h /\ ("ours" \notin h \/ h \cap Results = {}) => o = "infra"
      /\ "other" \notin h /\ "ours" \in h /\ h \cap Results # {} => o = r
  <2>1. o = CASE "other" \in h -> "skew"
             [] "other" \notin h /\ ("ours" \notin h \/ h \cap Results = {}) -> "infra"
             [] OTHER -> r
    BY DEF FuncOutcome, Results
  <2> HIDE DEF h, o, r
  <2> QED
    BY <2>1
<1>2. h \cap Results # {} => r \in h \cap Results
  <2>1. r = CHOOSE x \in Results : x \in h
    BY DEF Reported, Results
  <2> QED
    BY <2>1
<1>3. FramesAre(SentFrames(wire[c], h), childImage[c], childAt[c], childAnswered[c]) /\ h \subseteq SentFrames(wire[c], h)
  BY DEF FuncKept, CallKeptAt, CallIs, SentFrames
<1> HIDE DEF h, o, r
<1>4. o \in {"skew"} \cup Results
  BY <1>1, <1>2 DEF Results
<1>5. ASSUME o \in {"ok", "panicked", "failed"} PROVE childAnswered[c] = o /\ childImage[c] = "ours" /\ childAt[c] = "gone"
  <2>1. "ours" \in h /\ o = r /\ r \in h /\ r \in Results
    BY <1>1, <1>2, <1>5
  <2>2. "ours" \in Hellos /\ o # "late"
    BY <1>5 DEF Hellos
  <2>3. childImage[c] = "ours"
    BY <1>3, <2>1, <2>2 DEF FramesAre
  <2>4. childAt[c] = "gone" /\ r = childAnswered[c]
    BY <1>3, <2>1, <2>2 DEF FramesAre
  <2> QED
    BY <2>1, <2>3, <2>4
<1>6. "other" \in h => o = "skew"
  BY <1>1
<1> QED
  BY <1>4, <1>5, <1>6 DEF h, o

\* The call settles, or only its deadline passes.
LEMMA FuncSettles ==
  ASSUME FuncKept, NEW c \in Calls, settleChild(c) \/ Expire(c)
  PROVE  FuncKept'
<1>0. FuncTypes /\ ProvKept /\ CallKeptAt(c)
  BY DEF FuncKept
<1>1. CASE settleChild(c)
  <2>0. fat[c] = "running" /\ exitErr[c] # "no" /\ wire[c] = <<>> /\ c \notin lockedBy
    BY <1>0, <1>1 DEF settleChild, Pumped, ProvKept
  <2>1. PICK v \in {"skew"} \cup Results :
          /\ v = FuncOutcome(c) /\ fat' = [fat EXCEPT ![c] = "settled"] /\ fverdict' = [fverdict EXCEPT ![c] = v]
    BY <1>1, OutcomeIsHeard DEF settleChild
  <2>2. UNCHANGED <<provVars, onHost, childImage, childAt, childAnswered, wire, heard, exitErr>>
    BY <1>1 DEF settleChild, childVars
  <2>3. OneCallMoves(c)
    <3>1. /\ fat' \in [Calls -> {"later", "check", "provision", "stage", "run", "running", "settled"}]
          /\ fverdict' \in [Calls -> {"none", "refused", "skew"} \cup Results]
          /\ \A d \in Calls \ {c} : fat'[d] = fat[d] /\ fverdict'[d] = fverdict[d]
      BY <1>0, <2>1 DEF FuncTypes
    <3>2. FuncTypes'
      BY <1>0, <2>2, <3>1 DEF FuncTypes
    <3> QED
      BY <2>2, <3>1, <3>2 DEF OneCallMoves
  <2>4. ProvKept'
    BY <1>0, <2>0, <2>2, <2>3, ProvStays DEF OneCallMoves
  <2>5. fat'[c] = "settled" /\ fverdict'[c] = v
    BY <1>0, <2>1 DEF FuncTypes
  <2>6. /\ v \in {"ok", "panicked", "failed"} => childAnswered[c] = v /\ childImage[c] = "ours" /\ childAt[c] = "gone"
        /\ "other" \in heard[c] => v = "skew"
    BY <2>1, OutcomeIsHeard
  <2>7. CallKeptAt(c)'
    BY <1>0, <2>0, <2>2, <2>5, <2>6 DEF CallKeptAt, CallIs
  <2> QED
    BY <2>3, <2>4, <2>7, CallLands
<1>2. CASE Expire(c)
  <2>1. UNCHANGED <<fat, provVars, onHost, childVars, heard, exitErr, fverdict>>
    BY <1>2 DEF Expire
  <2> QED
    BY <2>1 DEF provVars, childVars, FuncKept, FuncTypes, ProvKept, CallKeptAt
<1> QED
  BY <1>1, <1>2

\* Every step keeps it, and it is what is said of a verdict.
LEMMA FuncStays == FuncKept /\ [FuncNext]_funcVars => FuncKept'
<1> SUFFICES ASSUME FuncKept, [FuncNext]_funcVars PROVE FuncKept'
  OBVIOUS
<1>1. CASE UNCHANGED funcVars
  BY <1>1 DEF funcVars, FuncKept, FuncTypes, ProvKept, CallKeptAt
<1>2. ASSUME NEW c \in Calls, FuncStep(c) PROVE FuncKept'
  <2>1. CASE Refuse(c) \/ invokeRemote(c)
    BY <2>1, FuncRefuses
  <2>2. CASE For(c) \/ provision(c)
    BY <2>2, FuncProvisions
  <2>3. CASE stage(c) \/ Replace(c) \/ StartChild(c)
    BY <2>3, FuncStages
  <2>4. CASE runReturns(c)
    BY <2>4, FuncReturns
  <2>5. CASE pump(c)
    BY <2>5, FuncPumps
  <2>6. CASE settleChild(c) \/ Expire(c)
    BY <2>6, FuncSettles
  <2>7. CASE Misfit(c) \/ WriteHello(c) \/ invoke(c) \/ Invoke(c) \/ write(c) \/ selfTimeout(c) \/ ChildDies(c)
    BY <2>7, FuncChild
  <2> QED
    BY <1>2, <2>1, <2>2, <2>3, <2>4, <2>5, <2>6, <2>7 DEF FuncStep
<1> QED
  BY <1>1, <1>2 DEF FuncNext

LEMMA FuncGives == FuncKept => FuncVerdict
<1> SUFFICES ASSUME FuncKept PROVE FuncVerdict
  OBVIOUS
<1>1. ASSUME NEW c \in Calls, fat[c] = "settled"
      PROVE  /\ fverdict[c] \in {"ok", "panicked", "failed"} => childAnswered[c] = fverdict[c] /\ childImage[c] = "ours"
             /\ \A f \in ToSet(wire[c]) : f \in {"ours", "other"}
             /\ "other" \in heard[c] => fverdict[c] = "skew"
  <2>1. wire[c] = <<>>
    BY <1>1 DEF FuncKept, CallKeptAt, CallIs
  <2>2. ToSet(<<>>) = {}
    BY DEF ToSet
  <2> QED
    BY <1>1, <2>1, <2>2 DEF FuncKept, CallKeptAt, CallIs
<1>2. \A p \in Platforms : compiled[p] <= 1
  BY DEF FuncKept, ProvKept
<1> QED
  BY <1>1, <1>2 DEF FuncVerdict


(* Where a step runs elsewhere, its verdict is its own: a container's exit *)
(* code is the command's, a remote function's result is what the function  *)
(* returned in the binary that was staged, with no platform compiled for   *)
(* twice; and the sessions on a shared connection are as many as its users *)
(* hold.  For any number of calls, platforms, invokers and sessions, in    *)
(* any order of frames, exits, lost connections and deadlines              *)
(* (containerexec.go, funcremote.go, mux.go).                              *)
THEOREM TheVerdictsAreEarned == CtrSpec /\ FuncSpec /\ HostSpec => []VerdictsAreEarned
<1>1. CtrKept /\ FuncKept /\ MuxKept => VerdictsAreEarned
  BY FuncGives DEF VerdictsAreEarned, CtrKept, MuxKept
<1>2. CtrSpec => []CtrKept
  BY CtrStarts, CtrStays, PTL DEF CtrSpec
<1>3. FuncSpec => []FuncKept
  BY FuncStarts, FuncStays, PTL DEF FuncSpec
<1>4. HostSpec => []MuxKept
  BY MuxStarts, MuxStays, PTL DEF HostSpec
<1> QED
  BY <1>1, <1>2, <1>3, <1>4, PTL
=============================================================================
