------------------------------ MODULE Registry ------------------------------
(***************************************************************************)
(* Storing one object in the shared store (internal/oci, internal/s3 under *)
(* internal/remotecache): in a registry a blob, a configuration blob and   *)
(* the manifest that names both, each request retried where that is safe,  *)
(* with a token that may run out; in a bucket one PUT.  Runs that finished *)
(* the same step push the same bytes at once.                              *)
(*                                                                         *)
(* The registry is modelled from what the client says of it: an upload     *)
(* session takes one PUT, a blob is committed some time after it, and a    *)
(* manifest is refused while a blob it names is not.                       *)
(***************************************************************************)
EXTENDS Naturals, FiniteSets

CONSTANTS
  Pushers,    \* runs
  SendAttempts,      \* maxAttempts
  PushFaults  \* bound on requests and answers that are lost, and on refusals

Blobs == {"object", "config"}

VARIABLES
  shelf,      \* "registry" or "bucket"
  blobAt,     \* "absent", "committing", "held"
  tagged,     \* the manifest is stored
  inBucket,
  sessions,   \* upload sessions that were opened, with whether they took their PUT
  push,       \* a pusher: where it is, what it uploads, its session, its tries
  token,      \* what its authenticator has for writing: "none", "good", "expired"
  ready,      \* ociConfigBlob.done
  misused,    \* a PUT arrived at a session that had taken one
  pushFaults

registryVars == <<shelf, blobAt, tagged, inBucket, sessions, push, token, ready, misused, pushFaults>>
serverVars   == <<blobAt, tagged, inBucket, sessions, misused>>

RegistryInit ==
  /\ shelf \in {"registry", "bucket"}
  /\ blobAt = [b \in Blobs |-> "absent"] /\ tagged = FALSE /\ inBucket = FALSE /\ sessions = {}
  /\ push = [p \in Pushers |-> [at |-> IF shelf = "bucket" THEN "put" ELSE "has", blob |-> "object",
                                session |-> 0, tries |-> 1, why |-> ""]]
  /\ token = [p \in Pushers |-> "none"] /\ ready = [p \in Pushers |-> FALSE]
  /\ misused = FALSE /\ pushFaults = PushFaults

-----------------------------------------------------------------------------
(* One request.                                                            *)

\* authenticator.cached and answer: a token that is not taken is answered once
\* with a new one, kept under the scope of the operation.
authorized(p) == token' = [token EXCEPT ![p] = "good"]

\* The token endpoint fails or refuses: that is not tried again.
tokenFails(p) ==
  /\ push[p].at \notin {"ok", "fail"} /\ shelf = "registry" /\ token[p] # "good" /\ pushFaults > 0
  /\ push' = [push EXCEPT ![p].at = "fail", ![p].why = "denied"] /\ pushFaults' = pushFaults - 1
  /\ UNCHANGED <<shelf, serverVars, token, ready>>

\* The registry revokes, or the token outlives what it was told.
TokenExpires(p) ==
  /\ token[p] = "good" /\ pushFaults > 0 /\ pushFaults' = pushFaults - 1
  /\ token' = [token EXCEPT ![p] = "expired"]
  /\ UNCHANGED <<shelf, serverVars, push, ready>>

\* Mutant: the final PUT is repeated on its own.
SameRequest(at) == at

\* Where a retry begins: send repeats the request, PutBlob the whole upload.
FromTheTop(at) == IF at = "upload" THEN "session" ELSE at

\* send and PutBlob: again while attempts are left.
again(p) ==
  push' = IF push[p].tries < SendAttempts
          THEN [push EXCEPT ![p].at = FromTheTop(@), ![p].tries = @ + 1]
          ELSE [push EXCEPT ![p].at = "fail", ![p].why = "exhausted"]

\* classify: a transport error, 429, 5xx, and a manifest that raced another
\* writer are worth another attempt, and nothing else is.
retryable(why) == why \in {"transport", "busy", "raced"}
failed(p, why) ==
  IF retryable(why) THEN again(p) ELSE push' = [push EXCEPT ![p].at = "fail", ![p].why = why]

Goes(p, at) == push' = [push EXCEPT ![p].at = at]
Onward(p, at) == push' = [push EXCEPT ![p].at = at, ![p].tries = 1]

\* The request is lost, refused because the store is busy or denies it, or
\* given up with its context.
requestFails(p) ==
  /\ push[p].at \notin {"ok", "fail"} /\ pushFaults > 0 /\ pushFaults' = pushFaults - 1
  /\ \E why \in {"transport", "busy", "denied", "cancelled"} : failed(p, why)
  /\ UNCHANGED <<shelf, serverVars, token, ready>>

\* The answer of a request that was carried out arrives or is lost.
answerComes(p, then) ==
  \/ then /\ UNCHANGED pushFaults
  \/ pushFaults > 0 /\ pushFaults' = pushFaults - 1 /\ failed(p, "transport")

-----------------------------------------------------------------------------
(* OCIObjects.store.                                                       *)

\* HasBlob, with a token of the reading scope: a blob that is being committed
\* may be answered for.
hasBlob(p) ==
  /\ push[p].at = "has"
  /\ \E there \in {blobAt["object"] = "held", blobAt["object"] # "absent"} :
       answerComes(p, Onward(p, IF there THEN "ensure" ELSE "session"))
  /\ UNCHANGED <<shelf, serverVars, token, ready>>

\* upload, its POST: an empty request opens a session.
startUpload(p) ==
  LET id == Cardinality(sessions) + 1 IN
  /\ push[p].at = "session" /\ authorized(p)
  /\ sessions' = sessions \cup {<<id, "open">>}
  /\ answerComes(p, push' = [push EXCEPT ![p].at = "upload", ![p].session = id])
  /\ UNCHANGED <<shelf, blobAt, tagged, inBucket, ready, misused>>

\* upload, its PUT: the bytes from the top, into the session.
putBlob(p) ==
  LET id == push[p].session  b == push[p].blob  taken == <<id, "open">> \notin sessions IN
  /\ push[p].at = "upload" /\ token[p] = "good"
  /\ sessions' = (sessions \ {<<id, "open">>}) \cup {<<id, "taken">>}
  /\ misused' = (misused \/ taken)
  /\ IF taken THEN failed(p, "unknown session") /\ UNCHANGED <<blobAt, pushFaults>>
     ELSE /\ blobAt' = [blobAt EXCEPT ![b] = IF @ = "absent" THEN "committing" ELSE @]
          /\ answerComes(p, Onward(p, IF b = "object" THEN "ensure" ELSE "ensured"))
  /\ UNCHANGED <<shelf, tagged, inBucket, token, ready>>

\* A token that ran out since the POST: the 401 leaves the session as it was.
putChallenged(p) ==
  /\ push[p].at = "upload" /\ token[p] # "good" /\ authorized(p)
  /\ UNCHANGED <<shelf, serverVars, push, ready, pushFaults>>

\* ociConfigBlob.ensure: pushed once per opened remote.
ensureConfig(p) ==
  /\ push[p].at = "ensure"
  /\ IF ready[p] THEN Onward(p, "manifest")
     ELSE push' = [push EXCEPT ![p].at = "session", ![p].blob = "config", ![p].tries = 1]
  /\ UNCHANGED <<shelf, serverVars, token, ready, pushFaults>>
ensured(p) ==
  /\ push[p].at = "ensured" /\ ready' = [ready EXCEPT ![p] = TRUE] /\ Onward(p, "manifest")
  /\ UNCHANGED <<shelf, serverVars, token, pushFaults>>

\* PutManifest: DIGEST_INVALID and its like while a blob is being committed.
putManifest(p) ==
  /\ push[p].at = "manifest" /\ authorized(p)
  /\ IF \A b \in Blobs : blobAt[b] = "held"
     THEN tagged' = TRUE /\ answerComes(p, Goes(p, "ok"))
     ELSE failed(p, "raced") /\ UNCHANGED <<tagged, pushFaults>>
  /\ UNCHANGED <<shelf, blobAt, inBucket, sessions, misused, ready>>

\* Client.Put of a bucket: the body is rewound for every attempt.
putBucket(p) ==
  /\ push[p].at = "put" /\ inBucket' = TRUE /\ answerComes(p, Goes(p, "ok"))
  /\ UNCHANGED <<shelf, blobAt, tagged, sessions, misused, token, ready>>

-----------------------------------------------------------------------------
(* The registry.                                                           *)

CommitBlob(b) ==
  /\ blobAt[b] = "committing" /\ blobAt' = [blobAt EXCEPT ![b] = "held"]
  /\ UNCHANGED <<shelf, tagged, inBucket, sessions, push, token, ready, misused, pushFaults>>

\* Its collector takes a blob no manifest names.
Collect(b) ==
  /\ blobAt[b] = "held" /\ ~tagged /\ pushFaults > 0 /\ pushFaults' = pushFaults - 1
  /\ blobAt' = [blobAt EXCEPT ![b] = "absent"]
  /\ UNCHANGED <<shelf, tagged, inBucket, sessions, push, token, ready, misused>>

PushStep(p) ==
  \/ hasBlob(p) \/ startUpload(p) \/ putBlob(p) \/ putChallenged(p) \/ ensureConfig(p) \/ ensured(p)
  \/ putManifest(p) \/ putBucket(p) \/ requestFails(p) \/ tokenFails(p) \/ TokenExpires(p)

RegistryNext == (\E p \in Pushers : PushStep(p)) \/ \E b \in Blobs : CommitBlob(b) \/ Collect(b)

RegistrySpec == RegistryInit /\ [][RegistryNext]_registryVars

-----------------------------------------------------------------------------
(* A push that returned without an error can be read back, manifest, blob  *)
(* and configuration, whatever was lost, repeated or collected beside it;  *)
(* no bytes are ever sent to an upload session that took its bytes; and    *)
(* pushing what another run is pushing is no error of its own: a push is   *)
(* given up when it was denied or cancelled or its attempts ran out, never *)
(* because two raced (oci/client.go:345, client.go:697, ociobjects.go:220).*)
PushedIsReadable ==
  /\ \A p \in Pushers : push[p].at = "ok" =>
       IF shelf = "bucket" THEN inBucket ELSE tagged /\ \A b \in Blobs : blobAt[b] = "held"
  /\ ~misused
  /\ \A p \in Pushers : push[p].at = "fail" => push[p].why \in {"denied", "exhausted", "cancelled"}
=============================================================================
