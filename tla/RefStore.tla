------------------------------ MODULE RefStore ------------------------------
(***************************************************************************)
(* The references of one repository: the packed-refs object, the legacy    *)
(* loose layer, and the Storers that read and rewrite them.                *)
(* internal/storage/tigris/refs.go and refcache.go.                        *)
(*                                                                         *)
(* One Storer serves one request.  Every S3 request is one step, so any    *)
(* two Storers interleave between any two requests; local computation      *)
(* belongs to the step of the request that follows it.                     *)
(***************************************************************************)
EXTENDS Naturals, FiniteSets

CONSTANTS
    Storer,         \* the Storers (one per request, any daemon)
    Name,           \* reference names
    Value,          \* reference targets
    Absent,         \* the reference does not exist
    Keep,           \* a batch leaves the name alone
    Any,            \* a batch expects nothing of the name
    NoObject,       \* the packed-refs key does not exist
    MaxRetries,     \* maxRefCASRetries
    PackedWriters,  \* the Storers with WithPackedRefs(true)
    Packers,        \* the Storers that run PackRefs
    Batches,        \* the mutation batches callers hand to a Storer
    InitPacked,     \* the packed-refs object at the start
    InitLoose,      \* the loose layer at the start
    KeyErrors,      \* whether DeleteObjects may answer an error for one key
    MaxCalls        \* bound: calls per Storer

RefMap == [Name -> Value \cup {Absent}]
EmptyMap == [n \in Name |-> Absent]

(***************************************************************************)
(* A batch: upd[n] is the new target, Absent for a removal, Keep for a     *)
(* name not in the batch; expect and strict are the refExpectations.       *)
(***************************************************************************)
Batch == [upd    : [Name -> Value \cup {Absent, Keep}],
          expect : [Name -> Value \cup {Absent, Any}],
          strict : BOOLEAN]
NoBatch == [upd    |-> [n \in Name |-> Keep],
            expect |-> [n \in Name |-> Any],
            strict |-> FALSE]

ASSUME RefStoreAssumption ==
    /\ MaxRetries \in Nat \ {0}
    /\ MaxCalls \in Nat
    /\ KeyErrors \in BOOLEAN
    /\ PackedWriters \subseteq Storer
    /\ Packers \subseteq Storer
    /\ Absent \notin Value /\ Keep \notin Value /\ Any \notin Value
    /\ Absent # Keep /\ Absent # Any
    /\ NoObject \notin RefMap
    /\ Batches \subseteq Batch
    /\ InitPacked \in RefMap \cup {NoObject}
    /\ InitLoose \in RefMap

VARIABLES
    packed,      \* bucket: the packed-refs object, its own ETag
    loose,       \* bucket: the refs/<name> objects
    cache,       \* refCache of each Storer
    pc,          \* what the Storer's current call does next
    batch,       \* the call's sets, removes and expectations
    attempt,     \* refused compare-and-swaps of the call
    keys,        \* listed loose keys not read yet
    drop,        \* loose keys the commit still has to delete
    call,        \* the call's kind while it runs, then its result
    calls,       \* calls made (bounded by MaxCalls)
    lastWriter   \* history: who last wrote a name on a caller's behalf

vars == <<packed, loose, cache, pc, batch, attempt, keys, drop, call, calls,
          lastWriter>>

Running == {"reading", "committing", "packing"}
Result == {"ok", "changed", "contention", "error", "cleanup"}
NoOne == "nobody"

Cache == [built : BOOLEAN, etag : RefMap \cup {NoObject}, loose : RefMap]
Control == {"idle", "pack", "check", "flush", "load", "list", "get", "put",
            "putLoose", "delLoose", "drop"}

TypeOK ==
    /\ packed \in RefMap \cup {NoObject}
    /\ loose \in RefMap
    /\ cache \in [Storer -> Cache]
    /\ pc \in [Storer -> Control]
    /\ batch \in [Storer -> Batch]
    /\ attempt \in [Storer -> 0 .. MaxRetries]
    /\ keys \in [Storer -> SUBSET Name]
    /\ drop \in [Storer -> SUBSET Name]
    /\ call \in [Storer -> {"none"} \cup Running \cup Result]
    /\ calls \in [Storer -> 0 .. MaxCalls]
    /\ lastWriter \in [Name -> Storer \cup {NoOne}]

-----------------------------------------------------------------------------
(* The pure parts. *)

(* An absent packed-refs object reads as an empty map. *)
Content(object) == IF object = NoObject THEN EmptyMap ELSE object

(* The merged view: a loose reference wins. *)
Merge(p, l) == [n \in Name |-> IF l[n] # Absent THEN l[n] ELSE p[n]]

(* What a fresh reader that saw the bucket at one instant would see. *)
View == Merge(Content(packed), loose)
CachedView(s) == Merge(Content(cache[s].etag), cache[s].loose)

Apply(view, b) == [n \in Name |-> IF b.upd[n] = Keep THEN view[n] ELSE b.upd[n]]

Touched(b) == {n \in Name : b.upd[n] # Keep}
Removed(b) == {n \in Name : b.upd[n] = Absent}

(* Mutant of ExpectationsHold: a strict caller is treated like a lenient one. *)
ExpectationsLenient(view, b) ==
    \A n \in Name : b.expect[n] \in {Any, Absent, view[n]} \/ view[n] = Absent

(* checkRefExpectations: a strict expectation must match exactly; a lenient
   one is waived when the caller named no old value or the name is absent. *)
ExpectationsHold(view, b) ==
    \A n \in Name :
        \/ b.expect[n] = Any
        \/ view[n] = b.expect[n]
        \/ ~b.strict /\ (b.expect[n] = Absent \/ view[n] = Absent)

EmptyCache == [built |-> FALSE, etag |-> NoObject, loose |-> EmptyMap]

Bystander(n) == \A b \in Batches : b.upd[n] = Keep

Init ==
    /\ packed = InitPacked
    /\ loose = InitLoose
    /\ cache = [s \in Storer |-> EmptyCache]
    /\ pc = [s \in Storer |-> "idle"]
    /\ batch = [s \in Storer |-> NoBatch]
    /\ attempt = [s \in Storer |-> 0]
    /\ keys = [s \in Storer |-> {}]
    /\ drop = [s \in Storer |-> {}]
    /\ call = [s \in Storer |-> "none"]
    /\ calls = [s \in Storer |-> 0]
    /\ lastWriter = [n \in Name |-> NoOne]

-----------------------------------------------------------------------------
(* Starting a call. *)

Begin(s, kind, b, at) ==
    /\ pc[s] = "idle" /\ calls[s] < MaxCalls
    /\ calls' = [calls EXCEPT ![s] = @ + 1]
    /\ call' = [call EXCEPT ![s] = kind]
    /\ batch' = [batch EXCEPT ![s] = b]
    /\ attempt' = [attempt EXCEPT ![s] = 0]
    /\ pc' = [pc EXCEPT ![s] = at]
    /\ UNCHANGED <<packed, loose, cache, keys, drop, lastWriter>>

(* Reference, IterReferences and CountLooseRefs: a built cache
   answers without a request, so only the fill is a call. *)
Read(s) == ~cache[s].built /\ Begin(s, "reading", NoBatch, "load")

(* UpdateReferencesChecked, UpdateReferences, SetReference, RemoveReference
   and CheckAndSetReference of a packed-refs Storer are all commitRefs. *)
Commit(s) ==
    /\ s \in PackedWriters
    /\ \E b \in Batches : Touched(b) # {} /\ Begin(s, "committing", b, "flush")

(* The same calls without packed refs: one loose object per reference.
   SetReference flushes first, RemoveReference does not, and
   CheckAndSetReference reads the view before it does either. *)
CommitLoose(s) ==
    /\ s \notin PackedWriters
    /\ \E b \in Batches : \E n \in Name :
         /\ Touched(b) = {n} /\ ~b.strict
         /\ Begin(s, "committing", b,
                  IF b.upd[n] = Absent THEN "delLoose"
                  ELSE IF b.expect[n] \notin Value THEN "flush"
                  ELSE IF cache[s].built THEN "check" ELSE "load")

(* PackRefs fills the cache, then hands commitRefs the cached loose
   references as sets; without any it is done. *)
PackRefs(s) ==
    /\ s \in PackedWriters \cap Packers
    /\ Begin(s, "packing", NoBatch, IF cache[s].built THEN "pack" ELSE "load")

(* The call returns r to its caller. *)
Return(s, r) ==
    /\ pc' = [pc EXCEPT ![s] = "idle"]
    /\ call' = [call EXCEPT ![s] = r]

PackLoose(s) ==
    /\ pc[s] = "pack"
    /\ IF cache[s].loose = EmptyMap
         THEN Return(s, "ok") /\ UNCHANGED batch
         ELSE /\ batch' = [batch EXCEPT ![s].upd = [n \in Name |->
                    IF cache[s].loose[n] = Absent THEN Keep ELSE cache[s].loose[n]]]
              /\ pc' = [pc EXCEPT ![s] = "flush"]
              /\ UNCHANGED call
    /\ UNCHANGED <<packed, loose, cache, attempt, keys, drop, calls, lastWriter>>

-----------------------------------------------------------------------------
(* commitRefsNotifying: flush once, then the compare-and-swap loop. *)

(* Every upload of this Storer has finished without an error. *)
FlushOk(s) ==
    /\ pc[s] = "flush"
    /\ pc' = [pc EXCEPT ![s] = IF s \notin PackedWriters THEN "putLoose"
                               ELSE IF cache[s].built THEN "put" ELSE "load"]
    /\ UNCHANGED <<packed, loose, cache, batch, attempt, keys, drop, call, calls, lastWriter>>

FlushFailed(s) ==
    /\ pc[s] = "flush"
    /\ Return(s, "error")
    /\ UNCHANGED <<packed, loose, cache, batch, attempt, keys, drop, calls, lastWriter>>

(* ensureRefsBuilt: one GetObject, one ListObjectsV2, then one GetObject for
   each listed key; a key that vanished in between is skipped. *)
GetPacked(s) ==
    /\ pc[s] = "load"
    /\ cache' = [cache EXCEPT ![s] = [EmptyCache EXCEPT !.etag = packed]]
    /\ pc' = [pc EXCEPT ![s] = "list"]
    /\ UNCHANGED <<packed, loose, batch, attempt, keys, drop, call, calls, lastWriter>>

(* Where the call goes on once the cache is filled. *)
Built(s, c) ==
    /\ cache' = [cache EXCEPT ![s] = [c EXCEPT !.built = TRUE]]
    /\ pc' = [pc EXCEPT ![s] =
                IF call[s] = "reading" THEN "idle"
                ELSE IF s \notin PackedWriters THEN "check"
                ELSE IF Touched(batch[s]) = {} THEN "pack" ELSE "put"]
    /\ call' = [call EXCEPT ![s] = IF @ = "reading" THEN "none" ELSE @]

ListLoose(s) ==
    LET listed == {n \in Name : loose[n] # Absent} IN
    /\ pc[s] = "list"
    /\ keys' = [keys EXCEPT ![s] = listed]
    /\ IF listed = {} THEN Built(s, cache[s])
                      ELSE /\ pc' = [pc EXCEPT ![s] = "get"]
                           /\ UNCHANGED <<cache, call>>
    /\ UNCHANGED <<packed, loose, batch, attempt, drop, calls, lastWriter>>

GetLoose(s) ==
    /\ pc[s] = "get"
    /\ \E n \in keys[s] :
         LET c == [cache[s] EXCEPT !.loose[n] = loose[n]] IN
         /\ keys' = [keys EXCEPT ![s] = @ \ {n}]
         /\ IF keys[s] = {n} THEN Built(s, c)
                             ELSE /\ cache' = [cache EXCEPT ![s] = c]
                                  /\ UNCHANGED <<pc, call>>
    /\ UNCHANGED <<packed, loose, batch, attempt, drop, calls, lastWriter>>

(* A failed request leaves the cache unbuilt and ends the call, except that
   CheckAndSetReference on the loose path takes it for a missing reference. *)
LoadFailed(s) ==
    /\ pc[s] \in {"load", "list", "get"}
    /\ IF call[s] = "committing" /\ s \notin PackedWriters
         THEN pc' = [pc EXCEPT ![s] = "flush"] /\ UNCHANGED call
         ELSE Return(s, "error")
    /\ keys' = [keys EXCEPT ![s] = {}]
    /\ UNCHANGED <<packed, loose, cache, batch, attempt, drop, calls, lastWriter>>

(* Mutant of ExpectationFailed: commitRefs waits for the value to come back. *)
ExpectationAwaited(s) ==
    /\ pc[s] = "check"
    /\ ~ExpectationsHold(CachedView(s), batch[s])
    /\ Return(s, "changed")
    /\ UNCHANGED <<packed, loose, cache, batch, attempt, keys, drop, calls, lastWriter>>

(* An expectation no longer holds in the view this attempt works from. *)
ExpectationFailed(s) ==
    /\ pc[s] \in {"put", "check"}
    /\ ~ExpectationsHold(CachedView(s), batch[s])
    /\ Return(s, "changed")
    /\ UNCHANGED <<packed, loose, cache, batch, attempt, keys, drop, calls, lastWriter>>

(* Mutant of NextMap: the loose layer is deleted without being folded. *)
NextMapUnfolded(s) == Apply(Content(cache[s].etag), batch[s])

(* The new object: packed, the folded loose layer over it, the batch on top. *)
NextMap(s) == Apply(CachedView(s), batch[s])
Folded(s) == {n \in Name : cache[s].loose[n] # Absent}

(* The bucket's If-Match / If-None-Match test. *)
CanPut(s) == pc[s] = "put" /\ ExpectationsHold(CachedView(s), batch[s])
Matches(s) == packed = cache[s].etag

(* A PackRefs call rewrites names on nobody's behalf. *)
Write(s) ==
    /\ packed' = NextMap(s)
    /\ lastWriter' = [n \in Name |->
         IF call[s] = "committing" /\ n \in Touched(batch[s]) THEN s ELSE lastWriter[n]]

PutLands(s) ==
    /\ CanPut(s) /\ Matches(s)
    /\ Write(s)
    /\ cache' = [cache EXCEPT ![s] = [built |-> TRUE, etag |-> NextMap(s), loose |-> EmptyMap]]
    /\ drop' = [drop EXCEPT ![s] = Folded(s) \cup Removed(batch[s])]
    /\ pc' = [pc EXCEPT ![s] = "drop"]
    /\ UNCHANGED <<loose, batch, attempt, keys, call, calls>>

(* Mutant of Retry: one attempt too many. *)
RetryOnceMore(s) ==
    /\ attempt' = [attempt EXCEPT ![s] = @ + 1]
    /\ IF attempt[s] = MaxRetries
         THEN Return(s, "contention") /\ UNCHANGED cache
         ELSE /\ pc' = [pc EXCEPT ![s] = "load"]
              /\ cache' = [cache EXCEPT ![s] = EmptyCache]
              /\ UNCHANGED call

(* The attempt after a refusal starts from an empty cache. *)
Retry(s) ==
    /\ attempt' = [attempt EXCEPT ![s] = @ + 1]
    /\ IF attempt[s] + 1 = MaxRetries
         THEN Return(s, "contention") /\ UNCHANGED cache
         ELSE /\ pc' = [pc EXCEPT ![s] = "load"]
              /\ cache' = [cache EXCEPT ![s] = EmptyCache]
              /\ UNCHANGED call

(* Mutant of PutRefused: the failed precondition is taken for an object that is
   there already. *)
PutRefusedAsDone(s) ==
    /\ CanPut(s) /\ ~Matches(s)
    /\ Return(s, "ok")
    /\ UNCHANGED <<packed, loose, cache, batch, attempt, keys, drop, calls, lastWriter>>

PutRefused(s) ==
    /\ CanPut(s) /\ ~Matches(s)
    /\ Retry(s)
    /\ UNCHANGED <<packed, loose, batch, keys, drop, calls, lastWriter>>

(* Any other error ends the call, and the cache is kept. *)
PutFailed(s) ==
    /\ CanPut(s)
    /\ Return(s, "error")
    /\ UNCHANGED <<packed, loose, cache, batch, attempt, keys, drop, calls, lastWriter>>

(* The write landed and its answer was lost: the client library gives up... *)
PutLostReply(s) ==
    /\ CanPut(s) /\ Matches(s)
    /\ Write(s)
    /\ Return(s, "error")
    /\ UNCHANGED <<loose, cache, batch, attempt, keys, drop, calls>>

(* ... or repeats the request, which its own first copy makes fail the
   precondition. *)
PutRepeated(s) ==
    /\ CanPut(s) /\ Matches(s)
    /\ NextMap(s) # packed
    /\ Write(s)
    /\ Retry(s)
    /\ UNCHANGED <<loose, batch, keys, drop, calls>>

-----------------------------------------------------------------------------
(* dropFoldedLooseRefs: DeleteObjects works key by key. *)

DropKey(s) ==
    /\ pc[s] = "drop"
    /\ \E n \in drop[s] :
         /\ loose' = [loose EXCEPT ![n] = Absent]
         /\ drop' = [drop EXCEPT ![s] = @ \ {n}]
    /\ UNCHANGED <<packed, cache, pc, batch, attempt, keys, call, calls, lastWriter>>

(* A per-key error in an otherwise successful answer is not looked at. *)
DropKeyIgnored(s) ==
    /\ KeyErrors /\ pc[s] = "drop"
    /\ \E n \in drop[s] :
         /\ loose[n] # Absent
         /\ drop' = [drop EXCEPT ![s] = @ \ {n}]
    /\ UNCHANGED <<packed, loose, cache, pc, batch, attempt, keys, call, calls, lastWriter>>

DropFailed(s) ==
    /\ pc[s] = "drop" /\ drop[s] # {}
    /\ cache' = [cache EXCEPT ![s] = EmptyCache]
    /\ drop' = [drop EXCEPT ![s] = {}]
    /\ Return(s, "cleanup")
    /\ UNCHANGED <<packed, loose, batch, attempt, keys, calls, lastWriter>>

(* The keys left are deleted, and the answer is lost. *)
DropLostReply(s) ==
    /\ pc[s] = "drop" /\ drop[s] # {}
    /\ loose' = [n \in Name |-> IF n \in drop[s] THEN Absent ELSE loose[n]]
    /\ cache' = [cache EXCEPT ![s] = EmptyCache]
    /\ drop' = [drop EXCEPT ![s] = {}]
    /\ Return(s, "cleanup")
    /\ UNCHANGED <<packed, batch, attempt, keys, calls, lastWriter>>

DropDone(s) ==
    /\ pc[s] = "drop" /\ drop[s] = {}
    /\ Return(s, "ok")
    /\ UNCHANGED <<packed, loose, cache, batch, attempt, keys, drop, calls, lastWriter>>

-----------------------------------------------------------------------------
(* The loose write path of a Storer without packed refs. *)

CheckLoose(s) ==
    /\ pc[s] = "check"
    /\ ExpectationsHold(CachedView(s), batch[s])
    /\ pc' = [pc EXCEPT ![s] = "flush"]
    /\ UNCHANGED <<packed, loose, cache, batch, attempt, keys, drop, call, calls, lastWriter>>

(* setLooseReference's PutObject, RemoveReference's DeleteObject. *)
WriteLoose(s) ==
    /\ pc[s] \in {"putLoose", "delLoose"}
    /\ loose' = Apply(loose, batch[s])
    /\ lastWriter' = [n \in Name |->
         IF n \in Touched(batch[s]) THEN s ELSE lastWriter[n]]
    /\ cache' = [cache EXCEPT ![s] = EmptyCache]
    /\ Return(s, "ok")
    /\ UNCHANGED <<packed, batch, attempt, keys, drop, calls>>

WriteLooseFailed(s) ==
    /\ pc[s] \in {"putLoose", "delLoose"}
    /\ Return(s, "error")
    /\ UNCHANGED <<packed, loose, cache, batch, attempt, keys, drop, calls, lastWriter>>

(* The PUT or DELETE lands, and its answer is lost: an error, and the cache is
   kept. *)
LooseLostReply(s) ==
    /\ pc[s] \in {"putLoose", "delLoose"}
    /\ loose' = Apply(loose, batch[s])
    /\ lastWriter' = [n \in Name |->
         IF n \in Touched(batch[s]) THEN s ELSE lastWriter[n]]
    /\ Return(s, "error")
    /\ UNCHANGED <<packed, cache, batch, attempt, keys, drop, calls>>

(* The daemon dies, or the request is abandoned, between any two requests:
   what the Storer held in memory is gone, and a new one takes its place. *)
Crash(s) ==
    /\ pc[s] # "idle"
    /\ Return(s, "none")
    /\ cache' = [cache EXCEPT ![s] = EmptyCache]
    /\ batch' = [batch EXCEPT ![s] = NoBatch]
    /\ attempt' = [attempt EXCEPT ![s] = 0]
    /\ keys' = [keys EXCEPT ![s] = {}]
    /\ drop' = [drop EXCEPT ![s] = {}]
    /\ UNCHANGED <<packed, loose, calls, lastWriter>>

Step(s) ==
    \/ PackLoose(s) \/ FlushOk(s) \/ FlushFailed(s)
    \/ GetPacked(s) \/ ListLoose(s) \/ GetLoose(s) \/ LoadFailed(s)
    \/ ExpectationFailed(s)
    \/ PutLands(s) \/ PutRefused(s) \/ PutFailed(s)
    \/ PutLostReply(s) \/ PutRepeated(s)
    \/ DropKey(s) \/ DropKeyIgnored(s) \/ DropFailed(s) \/ DropLostReply(s) \/ DropDone(s)
    \/ CheckLoose(s) \/ WriteLoose(s) \/ WriteLooseFailed(s) \/ LooseLostReply(s)

Next == \E s \in Storer :
    Read(s) \/ Commit(s) \/ CommitLoose(s) \/ PackRefs(s) \/ Step(s) \/ Crash(s)

(* Every S3 request is answered or times out, so a started call keeps moving. *)
Spec == Init /\ [][Next]_vars /\ \A s \in Storer : WF_vars(Step(s))

-----------------------------------------------------------------------------
(* Properties. *)

(* A call that reported success and is still the last to have written a name
   is what the repository shows under that name: no other commit, by carrying
   an old copy of the name or by folding an old loose key, undid it. *)
AckedUpdateEffective ==
    \A s \in Storer : \A n \in Touched(batch[s]) :
        call[s] = "ok" /\ lastWriter[n] = s => View[n] = batch[s].upd[n]

(* A reference no caller asks to change shows its first value for ever,
   through every fold, refused or lost write, failed cleanup and crash, and
   whatever loose writers do to other names. *)
BystanderKept ==
    \A n \in Name : Bystander(n) =>
        View[n] = Merge(Content(InitPacked), InitLoose)[n]

(* Packing the loose layer changes where references live: a PackRefs whose last
   read is still what the repository shows leaves it showing the same. *)
PackRefsOnlyFolds ==
    [][\A s \in Storer :
          call[s] = "packing" /\ pc[s] = "put" /\ pc'[s] # "put" /\ CachedView(s) = View
          => View' = View]_vars

(* Without a loose layer the packed object is an atomic reference map, at
   every compare-and-swap, whichever of the answers are lost. *)
Refs == INSTANCE AtomicRefs
            WITH refs <- Content(packed), InitRefs <- Content(InitPacked)
AtomicRefUpdates == Refs!Spec

(* Every call returns: a started call is over, or its daemon died, after
   finitely many requests, however often it lost the compare-and-swap. *)
CallReturns ==
    \A s \in Storer : pc[s] # "idle" ~> pc[s] = "idle"
=============================================================================
