----------------------------- MODULE LfsObjects -----------------------------
(***************************************************************************)
(* Git LFS objects: internal/lfs/store.go and batch.go under the batch and *)
(* verify handlers of cmd/objgitd/lfs.go.  A client asks for a transfer,   *)
(* puts the bytes at its repository's staging key with a presigned URL,    *)
(* and posts a verify, which moves them to the shared blob key and then    *)
(* writes the repository's marker.                                         *)
(*                                                                         *)
(* The presigned PUT signs the checksum, so a staged object has the bytes  *)
(* of its oid, and a blob too; a client may be wrong about the size.  A    *)
(* request to the bucket may fail without effect or after it; failures and *)
(* client timeouts together are at most MaxFaults.                         *)
(***************************************************************************)
EXTENDS Integers, FiniteSets

CONSTANTS
    Upload,        \* clients: [name, repo, oid, size]
    Handler,       \* verify requests the daemon may be serving
    TrueSize,      \* the length of each oid's bytes
    MaxObjectSize, \* BatchOptions.MaxSize
    MaxFaults

ASSUME LfsObjectsAssumption ==
    /\ \A u \in Upload : u.oid \in DOMAIN TrueSize /\ u.size \in Nat
    /\ MaxObjectSize \in Nat /\ MaxFaults \in Nat

NotHeld == -1
NoUpload == "no upload"
NoHandler == "no handler"

VARIABLES
    staged,    \* <<repo, oid>> with bytes at StagingKey
    blobs,     \* oids with bytes at BlobKey
    marker,    \* the size recorded at MarkerKey of each repo and oid
    client,    \* each client, and the verify whose answer it awaits
    verify,    \* each verify handler: where it is and for whom
    proved,    \* history: <<repo, oid>> whose bytes a client put there
    faults

loVars == <<staged, blobs, marker, client, verify, proved, faults>>

Keys == {<<u.repo, u.oid>> : u \in Upload}
KeyOf(u) == <<u.repo, u.oid>>

LfsObjectsInit ==
    /\ staged = {} /\ blobs = {} /\ proved = {} /\ faults = 0
    /\ marker = [k \in Keys |-> NotHeld]
    /\ client = [u \in Upload |-> [at |-> "batch", by |-> NoHandler]]
    /\ verify = [h \in Handler |-> [at |-> "free", for |-> NoUpload]]
-----------------------------------------------------------------------------
Fault == faults < MaxFaults /\ faults' = faults + 1
ClientAt(u, at) == client' = [client EXCEPT ![u] = [at |-> at, by |-> NoHandler]]

(* resolveObject of an upload, behind validateBatch: the marker decides, never
   the blob. *)
UploadAction(u) ==
    IF u.size > MaxObjectSize THEN "invalid"
    ELSE IF marker[KeyOf(u)] = NotHeld THEN "upload"
    ELSE IF marker[KeyOf(u)] = u.size THEN "present" ELSE "size_differs"

Batch(u) ==
    /\ client[u].at = "batch"
    /\ ClientAt(u, CASE UploadAction(u) = "upload"  -> "put"
                     [] UploadAction(u) = "present" -> "done"
                     [] OTHER                       -> "refused")
    /\ UNCHANGED <<staged, blobs, marker, verify, proved, faults>>

(* PresignPut and the client's PUT; the URL may have expired. *)
Put(u) ==
    /\ client[u].at = "put"
    /\ ClientAt(u, "post")
    /\ staged' = staged \union {KeyOf(u)}
    /\ proved' = proved \union {KeyOf(u)}
    /\ UNCHANGED <<blobs, marker, verify, faults>>
PutFails(u) ==
    /\ client[u].at = "put" /\ Fault
    /\ ClientAt(u, "batch")
    /\ UNCHANGED <<staged, blobs, marker, verify, proved>>

(* handleLFSVerify begins.  It asks for no batch and no upload before it: a
   client may post a verify for an object it never put. *)
PostVerify(u) ==
    /\ client[u].at \in {"batch", "post"}
    /\ \E h \in Handler :
         /\ verify[h].at = "free"
         /\ verify' = [verify EXCEPT ![h] = [at |-> "head", for |-> u]]
         /\ client' = [client EXCEPT ![u] = [at |-> "wait", by |-> h]]
    /\ UNCHANGED <<staged, blobs, marker, proved, faults>>

(* The client gives up on the answer and posts again; the handler runs on. *)
Timeout(u) ==
    /\ client[u].at = "wait" /\ Fault
    /\ ClientAt(u, "post")
    /\ UNCHANGED <<staged, blobs, marker, verify, proved>>

(* The answer, if the client still waits for it: 200 ends the transfer, 422
   fails it, and on 404 or 500 the client starts over or verifies again. *)
Answer(h, status) ==
    LET u == verify[h].for IN
    /\ verify' = [verify EXCEPT ![h] = [at |-> "free", for |-> NoUpload]]
    /\ IF client[u].by # h THEN UNCHANGED client
       ELSE CASE status = "ok"       -> ClientAt(u, "done")
              [] status = "mismatch" -> ClientAt(u, "refused")
              [] status = "missing"  -> ClientAt(u, "batch")
              [] status = "error"    -> ClientAt(u, "batch") \/ ClientAt(u, "post")
VerifyAt(h, at) == verify' = [verify EXCEPT ![h].at = at] /\ UNCHANGED client

(* Mutant of HeadStaged: the shared blob will do, whoever put it there. *)
HeadStagedShared(h) ==
    LET u == verify[h].for IN
    /\ verify[h].at = "head"
    /\ VerifyAt(h, IF KeyOf(u) \notin staged
                   THEN IF u.oid \in blobs THEN "mark" ELSE "promoted"
                   ELSE IF TrueSize[u.oid] # u.size THEN "reject" ELSE "rename")
    /\ UNCHANGED <<staged, blobs, marker, proved, faults>>

(* Verify: HEAD of the staged object. *)
HeadStaged(h) ==
    LET u == verify[h].for IN
    /\ verify[h].at = "head"
    /\ VerifyAt(h, IF KeyOf(u) \notin staged THEN "promoted"
                   ELSE IF TrueSize[u.oid] # u.size THEN "reject" ELSE "rename")
    /\ UNCHANGED <<staged, blobs, marker, proved, faults>>

(* rejectStaged: only the caller's own staging key is deleted; the answer to
   the delete may be lost. *)
RejectStaged(h) ==
    /\ verify[h].at = "reject"
    /\ staged' = staged \ {KeyOf(verify[h].for)}
    /\ \/ Answer(h, "mismatch") /\ UNCHANGED faults
       \/ Answer(h, "error") /\ Fault
    /\ UNCHANGED <<blobs, marker, proved>>

(* RenameObject: one request moves the bytes, unless another verify has. *)
Rename(h) ==
    LET k == KeyOf(verify[h].for) IN
    /\ verify[h].at = "rename"
    /\ IF k \in staged
       THEN /\ staged' = staged \ {k} /\ blobs' = blobs \union {k[2]}
            /\ \/ VerifyAt(h, "mark") /\ UNCHANGED faults
               \/ Answer(h, "error") /\ Fault
       ELSE VerifyAt(h, "promoted") /\ UNCHANGED <<staged, blobs, faults>>
    /\ UNCHANGED <<marker, proved>>

PutMarker(h) ==
    /\ verify[h].at = "mark"
    /\ marker' = [marker EXCEPT ![KeyOf(verify[h].for)] = verify[h].for.size]
    /\ \/ Answer(h, "ok") /\ UNCHANGED faults
       \/ Answer(h, "error") /\ Fault
    /\ UNCHANGED <<staged, blobs, proved>>

(* Mutant of VerifyPromoted: nothing staged and no marker is a mismatch. *)
VerifyPromotedFinal(h) ==
    /\ verify[h].at = "promoted"
    /\ Answer(h, IF marker[KeyOf(verify[h].for)] # NotHeld THEN "ok" ELSE "mismatch")
    /\ UNCHANGED <<staged, blobs, marker, proved, faults>>

(* verifyPromoted: nothing is staged, the marker says whether it ever was. *)
VerifyPromoted(h) ==
    /\ verify[h].at = "promoted"
    /\ Answer(h, IF marker[KeyOf(verify[h].for)] # NotHeld THEN "ok" ELSE "missing")
    /\ UNCHANGED <<staged, blobs, marker, proved, faults>>

(* A request of the handler fails without effect, or the daemon stops. *)
VerifyFails(h) ==
    /\ verify[h].at # "free" /\ Fault
    /\ Answer(h, "error")
    /\ UNCHANGED <<staged, blobs, marker, proved>>

VerifyStep(h) ==
    HeadStaged(h) \/ RejectStaged(h) \/ Rename(h) \/ PutMarker(h) \/ VerifyPromoted(h)
ClientStep(u) == Batch(u) \/ Put(u) \/ PostVerify(u)

LfsObjectsNext ==
    \/ \E u \in Upload : ClientStep(u) \/ PutFails(u) \/ Timeout(u)
    \/ \E h \in Handler : VerifyStep(h) \/ VerifyFails(h)

LfsObjectsSpec == LfsObjectsInit /\ [][LfsObjectsNext]_loVars
-----------------------------------------------------------------------------
(* resolveObject of a download, and OpenVerified of a snapshot build. *)
DownloadAction(k) == IF marker[k] = NotHeld THEN "not_found" ELSE "download"
OpenVerified(k, size) ==
    IF marker[k] # size \/ k[2] \notin blobs \/ TrueSize[k[2]] # size THEN "error" ELSE "body"

(* A repository that holds an object was given its bytes through its own
   staging key, and whatever fails or races, the object it then offers for
   download is there with the size recorded; a client told 200 is held. *)
MarkersBacked ==
    /\ \A k \in Keys : DownloadAction(k) = "download" =>
         /\ k \in proved
         /\ OpenVerified(k, marker[k]) = "body"
    /\ \A u \in Upload : client[u].at = "done" => marker[KeyOf(u)] # NotHeld

(* The upload of a client that knows its object's size comes to be recorded once
   bytes were put for it, although a verify may fail between the move and the
   marker, be posted twice, or lose the staged bytes to another client's mismatch
   (Verify, verifyPromoted, rejectStaged). *)
UploadsComplete ==
    <>[]\A u \in Upload :
         u.size = TrueSize[u.oid] =>
             \/ client[u].at = "done"
             \/ client[u].at = "batch" /\ KeyOf(u) \notin proved
=============================================================================
