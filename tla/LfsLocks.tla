------------------------------ MODULE LfsLocks ------------------------------
(***************************************************************************)
(* Git LFS file locks: internal/lfs/locks.go under the lock handlers of    *)
(* cmd/objgitd/lfs.go.  A repository's locks are one JSON document, read   *)
(* whole and rewritten under a conditional PutObject.                      *)
(*                                                                         *)
(* An ETag is a digest of the document, so a condition on it is a          *)
(* condition on the document itself.  Each call is one request; a write    *)
(* may land and still be answered with an error, and the S3 client may     *)
(* then send it again and be told that the condition failed.               *)
(***************************************************************************)
EXTENDS Integers, Sequences, FiniteSets, Functions, Collections

CONSTANTS
    LockCall,        \* requests: [name, op, path, user, force]
    Fold,            \* the case folding of each user name
    MaxLocksPerRepo, \* maxLocksPerRepo
    LockCASRetries   \* lockCASRetries

ASSUME LfsLocksAssumption ==
    /\ \A c \in LockCall : c.op \in {"create", "unlock"} /\ c.force \in BOOLEAN /\ c.user \in DOMAIN Fold
    /\ \A c, d \in LockCall : c.name = d.name => c = d
    /\ MaxLocksPerRepo \in Nat \ {0} /\ LockCASRetries \in Nat \ {0}

NoDoc == [exists |-> FALSE, locks |-> <<>>]
Doc(locks) == [exists |-> TRUE, locks |-> locks]

VARIABLES
    lockDoc,   \* the object at LocksKey: absent, or its sequence of locks
    lockCall   \* where each call is, the id it unlocks, its attempts, its read

llVars == <<lockDoc, lockCall>>

(* readLocks: a repository never locked reads as an empty list. *)
Held(doc) == Range(doc.locks)

LfsLocksInit ==
    /\ lockDoc = NoDoc
    /\ lockCall = [c \in LockCall |-> [at |-> "idle", id |-> <<>>, try |-> 0, seen |-> NoDoc]]
-----------------------------------------------------------------------------
LockAt(c, at) == lockCall' = [lockCall EXCEPT ![c].at = at, ![c].seen = NoDoc]

(* handleLFSLockCreate and handleLFSUnlock: what lfsBegin, the body or the path
   limit refuses never reaches the document.  An unlock names the id of a lock
   it was shown. *)
BeginLock(c) ==
    /\ lockCall[c].at = "idle"
    /\ \/ LockAt(c, "refused")
       \/ c.op = "create" /\ LockAt(c, "room")
       \/ /\ c.op = "unlock"
          /\ \E l \in Held(lockDoc) : lockCall' = [lockCall EXCEPT ![c].at = "read", ![c].id = l.id]
    /\ UNCHANGED lockDoc

(* lockRoomLeft: the cap on the document, which a lock already held passes. *)
RoomLeft(doc, path) ==
    Len(doc.locks) < MaxLocksPerRepo \/ \E l \in Held(doc) : l.path = path
LockRoomLeft(c) ==
    /\ lockCall[c].at = "room"
    /\ LockAt(c, IF RoomLeft(lockDoc, c.path) THEN "read" ELSE "too_many")
    /\ UNCHANGED lockDoc

(* The callbacks of CreateLock and DeleteLock: the verdict on the document
   read, and the document to write when the verdict is "put". *)
CreateVerdict(doc, c) == IF \E l \in Held(doc) : l.path = c.path THEN "conflict" ELSE "put"
(* Mutant of DeleteVerdict: anyone may unlock. *)
DeleteVerdictUnowned(doc, c, id) == IF \A l \in Held(doc) : l.id # id THEN "not_found" ELSE "put"
(* Mutant of DeleteVerdict: names are compared by case. *)
DeleteVerdictByCase(doc, c, id) ==
    IF \A l \in Held(doc) : l.id # id THEN "not_found"
    ELSE IF ~c.force /\ \E l \in Held(doc) : l.id = id /\ l.owner # c.user THEN "forbidden"
    ELSE "put"
DeleteVerdict(doc, c, id) ==
    IF \A l \in Held(doc) : l.id # id THEN "not_found"
    ELSE IF ~c.force /\ \E l \in Held(doc) : l.id = id /\ Fold[l.owner] # Fold[c.user] THEN "forbidden"
    ELSE "put"
IndexOfLock(doc, id) ==
    CHOOSE i \in DOMAIN doc.locks : doc.locks[i].id = id /\ \A j \in 1 .. (i - 1) : doc.locks[j].id # id
Deleted(locks, i) == SubSeq(locks, 1, i - 1) \o SubSeq(locks, i + 1, Len(locks))
Verdict(doc, c) ==
    IF c.op = "create" THEN CreateVerdict(doc, c) ELSE DeleteVerdict(doc, c, lockCall[c].id)
NextDoc(doc, c) ==
    IF c.op = "create"
    THEN Doc(Append(doc.locks, [id |-> <<c.name, lockCall[c].try>>, path |-> c.path, owner |-> c.user]))
    ELSE Doc(Deleted(doc.locks, IndexOfLock(doc, lockCall[c].id)))

(* mutateLocks, one round: read the document and decide. *)
ReadLocks(c) ==
    /\ lockCall[c].at = "read"
    /\ IF Verdict(lockDoc, c) = "put"
       THEN lockCall' = [lockCall EXCEPT ![c].at = "put", ![c].try = @ + 1, ![c].seen = lockDoc]
       ELSE LockAt(c, Verdict(lockDoc, c))
    /\ UNCHANGED lockDoc

(* An error of the bucket, on a read or on a write that did not land. *)
LockError(c) ==
    /\ lockCall[c].at \in {"room", "read", "put"}
    /\ LockAt(c, "error")
    /\ UNCHANGED lockDoc

(* The round is lost: read again, or give up after LockCASRetries. *)
LoseRound(c) == LockAt(c, IF lockCall[c].try < LockCASRetries THEN "read" ELSE "contended")

(* Mutant of Matches: If-Match takes any document. *)
MatchesAny(c) == lockDoc.exists = lockCall[c].seen.exists

(* PutObject with If-Match, or If-None-Match for a first document. *)
Matches(c) == lockDoc = lockCall[c].seen
PutLocks(c) ==
    /\ lockCall[c].at = "put" /\ Matches(c)
    /\ lockDoc' = NextDoc(lockCall[c].seen, c)
    /\ LockAt(c, "ok") \/ LockAt(c, "error") \/ LoseRound(c)
PutRefused(c) ==
    /\ lockCall[c].at = "put" /\ ~Matches(c)
    /\ LoseRound(c)
    /\ UNCHANGED lockDoc

LockStep(c) ==
    BeginLock(c) \/ LockRoomLeft(c) \/ ReadLocks(c) \/ PutLocks(c) \/ PutRefused(c) \/ LockError(c)
LfsLocksNext == \E c \in LockCall : LockStep(c)
LfsLocksSpec == LfsLocksInit /\ [][LfsLocksNext]_llVars
-----------------------------------------------------------------------------
(* ListLocks: the page of a filtered listing that starts at cursor, and the
   next cursor, 0 when the listing is complete.  limit 0 is no limit, AnyPath
   no filter. *)
AnyPath == ""
Filtered(doc, path) == Kept(doc.locks, {l \in Held(doc) : path = AnyPath \/ l.path = path})
ListLocks(doc, path, cursor, limit) ==
    LET all == Filtered(doc, path)
        out == SubSeq(all, cursor + 1, Len(all))
    IN  IF limit > 0 /\ Len(out) > limit
        THEN [page |-> SubSeq(out, 1, limit), next |-> cursor + limit]
        ELSE [page |-> out, next |-> 0]

(* SplitLocks: the caller's own and the others. *)
SplitLocks(locks, user) ==
    LET own == {l \in Range(locks) : Fold[l.owner] = Fold[user]}
    IN  [ours |-> Kept(locks, own), theirs |-> Kept(locks, Range(locks) \ own)]

(* The pages a client reads when it follows the cursors of one document. *)
Pages(doc, path, limit) ==
    LET n == Len(Filtered(doc, path))
        page[cursor \in 0 .. n] ==
            LET got == ListLocks(doc, path, cursor, limit)
            IN  IF got.next = 0 THEN got.page ELSE got.page \o page[got.next]
    IN  page[0]
-----------------------------------------------------------------------------
(* A path has one lock and an id names one lock, however creates, unlocks and
   their retries interleave; and the lock of a create answered 201 is in the
   document unless an unlock was granted it. *)
LocksExclusive ==
    /\ \A i, j \in DOMAIN lockDoc.locks :
         LET k == lockDoc.locks[i]
             l == lockDoc.locks[j]
         IN  k.path = l.path \/ k.id = l.id => i = j
    /\ \A c \in LockCall :
         c.op = "create" /\ lockCall[c].at = "ok" =>
           \/ \E l \in Held(lockDoc) : l.id = <<c.name, lockCall[c].try>> /\ l.owner = c.user
           \/ \E u \in LockCall : u.op = "unlock" /\ lockCall[u].id = <<c.name, lockCall[c].try>>

(* A step that takes a lock out of the document is the write of an unlock of
   that very lock, by its owner or with force: no write of another caller
   undoes a lock. *)
LocksReleasedByHolder ==
    [][\A l \in Held(lockDoc) :
         \/ \E k \in Held(lockDoc') : k = l
         \/ \E c \in LockCall :
              /\ c.op = "unlock" /\ lockCall[c].at = "put" /\ lockCall[c].id = l.id
              /\ c.force \/ Fold[c.user] = Fold[l.owner]]_llVars

(* locks/verify, read page by page, reports every lock of the document once,
   as the caller's or as another's, and what it calls the caller's the caller
   may release without force. *)
VerifyReportsAll ==
    \A user \in DOMAIN Fold, limit \in 0 .. MaxLocksPerRepo + 1 :
      LET split == SplitLocks(Pages(lockDoc, AnyPath, limit), user)
      IN  /\ Range(split.ours) \union Range(split.theirs) = Held(lockDoc)
          /\ Len(split.ours) + Len(split.theirs) = Len(lockDoc.locks)
          /\ \A l \in Range(split.ours) :
               DeleteVerdict(lockDoc, [user |-> user, force |-> FALSE], l.id) = "put"
=============================================================================
