---------------------------- MODULE BucketProofs ----------------------------
(***************************************************************************)
(* Proofs about what is kept in the bucket by a compare-and-swap, and what *)
(* is remembered of it.                                                    *)
(*                                                                         *)
(* RefStore, for every set of Storers, names, values and batches, and      *)
(* every bound.  Three parts: types, for every initial bucket and both     *)
(* kinds of writers; a repository without a loose layer, which implements  *)
(* AtomicRefs; and the references nobody updates, again for every initial  *)
(* bucket.                                                                 *)
(*                                                                         *)
(* ListingCache: the listings that s3fs caches, the calls that read        *)
(* through them and the changes that invalidate them.                      *)
(***************************************************************************)
EXTENDS RefStore, ListingCache, TLAPS

(* The pure operators return reference maps. *)
LEMMA MapTypes ==
    /\ EmptyMap \in RefMap
    /\ EmptyCache \in Cache
    /\ NoBatch \in Batch
    /\ \A p \in RefMap \cup {NoObject} : Content(p) \in RefMap
    /\ \A p, l \in RefMap : Merge(p, l) \in RefMap
    /\ \A v \in RefMap, b \in Batch : Apply(v, b) \in RefMap
<1>1. EmptyMap \in RefMap
  BY Zenon DEF EmptyMap, RefMap
<1>2. EmptyCache \in Cache
  BY <1>1, Zenon DEF EmptyCache, Cache
<1>3. NoBatch \in Batch
  BY Zenon DEF NoBatch, Batch
<1>4. \A p \in RefMap \cup {NoObject} : Content(p) \in RefMap
  BY <1>1, Zenon DEF Content
<1>5. \A p, l \in RefMap : Merge(p, l) \in RefMap
  BY Zenon DEF Merge, RefMap
<1>6. \A v \in RefMap, b \in Batch : Apply(v, b) \in RefMap
  BY Zenon DEF Apply, RefMap, Batch
<1>7. QED
  BY <1>1, <1>2, <1>3, <1>4, <1>5, <1>6, Zenon

(* What a Storer writes, and the view it computes, are reference maps. *)
LEMMA ViewTypes ==
    ASSUME TypeOK, NEW s \in Storer
    PROVE  CachedView(s) \in RefMap /\ NextMap(s) \in RefMap /\ View \in RefMap
  BY MapTypes, Zenon DEF TypeOK, CachedView, NextMap, View, Cache

(* A call that still runs has an attempt left. *)
AttemptLeft == \A s \in Storer : pc[s] # "idle" => attempt[s] < MaxRetries

(* A refused write uses up one attempt and there is one to use. *)
LEMMA RetryCounts ==
    ASSUME TypeOK, AttemptLeft, NEW s \in Storer, Retry(s), pc[s] = "put"
    PROVE  attempt' \in [Storer -> 0 .. MaxRetries]
<1>1. MaxRetries \in Nat
  BY RefStoreAssumption, Zenon
<1>2. attempt \in [Storer -> 0 .. MaxRetries] /\ attempt[s] < MaxRetries
  BY Zenon DEF TypeOK, AttemptLeft
<1>3. attempt[s] + 1 \in 0 .. MaxRetries
  BY <1>1, <1>2
<1>4. QED
  BY <1>2, <1>3, Zenon DEF Retry

(* Every step keeps the types of the state. *)
LEMMA TypeStep == TypeOK /\ AttemptLeft /\ [Next]_vars => TypeOK'
<1> SUFFICES ASSUME TypeOK, AttemptLeft, [Next]_vars PROVE TypeOK'
  BY Zenon
<1> USE RefStoreAssumption, MapTypes DEF Running, Result, Control
<1>1. CASE UNCHANGED vars
  BY <1>1, Zenon DEF TypeOK, vars
<1>2. ASSUME NEW s \in Storer, NEW kind \in Running, NEW b \in Batch,
             NEW at \in {"idle", "pack", "check", "flush", "load", "delLoose"},
             Begin(s, kind, b, at)
      PROVE  TypeOK'
  BY <1>2 DEF TypeOK, Begin
<1>3. ASSUME NEW s \in Storer, Read(s) PROVE TypeOK'
  BY <1>2, <1>3, Zenon DEF Read
<1>4. ASSUME NEW s \in Storer, Commit(s) PROVE TypeOK'
  BY <1>2, <1>4, Zenon DEF Commit
<1>5. ASSUME NEW s \in Storer, CommitLoose(s) PROVE TypeOK'
  BY <1>2, <1>5, Zenon DEF CommitLoose
<1>6. ASSUME NEW s \in Storer, PackRefs(s) PROVE TypeOK'
  BY <1>2, <1>6, Zenon DEF PackRefs
<1>7. ASSUME NEW s \in Storer, PackLoose(s) PROVE TypeOK'
  <2> DEFINE u == [n \in Name |-> IF cache[s].loose[n] = Absent THEN Keep ELSE cache[s].loose[n]]
  <2>1. cache[s].loose \in RefMap
    BY Zenon DEF TypeOK, Cache
  <2>2. u \in [Name -> Value \cup {Absent, Keep}]
    BY <2>1, Zenon DEF RefMap
  <2>3. [batch[s] EXCEPT !.upd = u] \in Batch
    BY ZenonT(40), <2>2 DEF TypeOK, Batch
  <2> HIDE DEF u
  <2>4. batch' = batch \/ batch' = [batch EXCEPT ![s] = [batch[s] EXCEPT !.upd = u]]
    BY <1>7, Zenon DEF PackLoose, TypeOK, u
  <2>5. batch' \in [Storer -> Batch]
    BY <2>3, <2>4, Zenon DEF TypeOK
  <2>6. QED
    BY <1>7, <2>5, Zenon DEF TypeOK, PackLoose, Return
<1>8. ASSUME NEW s \in Storer, FlushOk(s) \/ FlushFailed(s) PROVE TypeOK'
  BY <1>8, Zenon DEF TypeOK, FlushOk, FlushFailed, Return
<1>9. ASSUME NEW s \in Storer, GetPacked(s) PROVE TypeOK'
  <2>1. [EmptyCache EXCEPT !.etag = packed] \in Cache
    BY Zenon DEF TypeOK, Cache, EmptyCache
  <2>2. QED
    BY <1>9, <2>1, Zenon DEF TypeOK, GetPacked
<1>10. ASSUME NEW s \in Storer, NEW c \in Cache, Built(s, c)
       PROVE  /\ cache' \in [Storer -> Cache]
              /\ pc' \in [Storer -> Control]
              /\ call' \in [Storer -> {"none"} \cup Running \cup Result]
  <2>1. [c EXCEPT !.built = TRUE] \in Cache
    BY Zenon DEF Cache
  <2>2. QED
    BY <1>10, <2>1, Zenon DEF TypeOK, Built
<1>11. ASSUME NEW s \in Storer, ListLoose(s) PROVE TypeOK'
  BY <1>11, <1>10, Zenon DEF TypeOK, ListLoose
<1>12. ASSUME NEW s \in Storer, GetLoose(s) PROVE TypeOK'
  <2>1. PICK n \in keys[s] : GetLoose(s)!2!(n)
    BY <1>12, Zenon DEF GetLoose
  <2> DEFINE c == [cache[s] EXCEPT !.loose[n] = loose[n]]
  <2>2. n \in Name
    BY Zenon DEF TypeOK
  <2>3. c \in Cache
    BY ZenonT(40), <2>2 DEF TypeOK, Cache, RefMap
  <2> HIDE DEF c
  <2>4. /\ cache' \in [Storer -> Cache]
        /\ pc' \in [Storer -> Control]
        /\ call' \in [Storer -> {"none"} \cup Running \cup Result]
    <3>1. CASE keys[s] = {n}
      BY <2>1, <3>1, <1>10, <2>3, Zenon DEF c
    <3>2. CASE keys[s] # {n}
      BY ZenonT(40), <2>1, <3>2, <2>3 DEF c, TypeOK
    <3>3. QED
      BY <3>1, <3>2, Zenon
  <2>5. keys' \in [Storer -> SUBSET Name]
    BY <2>1, Zenon DEF TypeOK
  <2>6. QED
    BY <1>12, <2>4, <2>5, Zenon DEF TypeOK, GetLoose
<1>13. ASSUME NEW s \in Storer, LoadFailed(s) PROVE TypeOK'
  BY <1>13, Zenon DEF TypeOK, LoadFailed, Return
<1>14. ASSUME NEW s \in Storer, ExpectationFailed(s) \/ PutFailed(s) PROVE TypeOK'
  BY <1>14, Zenon DEF TypeOK, ExpectationFailed, PutFailed, Return
<1>15. ASSUME NEW s \in Storer, Retry(s), pc[s] = "put"
       PROVE  /\ cache' \in [Storer -> Cache]
              /\ pc' \in [Storer -> Control]
              /\ call' \in [Storer -> {"none"} \cup Running \cup Result]
              /\ attempt' \in [Storer -> 0 .. MaxRetries]
  <2>1. attempt' \in [Storer -> 0 .. MaxRetries]
    BY <1>15, RetryCounts, Zenon
  <2>2. CASE attempt[s] + 1 = MaxRetries
    BY <1>15, <2>1, <2>2, Zenon DEF TypeOK, Retry, Return
  <2>3. CASE attempt[s] + 1 # MaxRetries
    <3>1. cache' = [cache EXCEPT ![s] = EmptyCache] /\ EmptyCache \in Cache
      BY <1>15, <2>3, Zenon DEF Retry
    <3>2. cache' \in [Storer -> Cache]
      BY <3>1, Zenon DEF TypeOK
    <3>3. QED
      BY <1>15, <2>1, <2>3, <3>2, Zenon DEF TypeOK, Retry
  <2>4. QED
    BY <2>2, <2>3, Zenon
<1>16. ASSUME NEW s \in Storer, PutRefused(s) PROVE TypeOK'
  BY <1>16, <1>15, Zenon DEF TypeOK, PutRefused, CanPut
<1>17. ASSUME NEW s \in Storer, Write(s)
       PROVE  packed' \in RefMap /\ lastWriter' \in [Name -> Storer \cup {NoOne}]
  BY <1>17, ViewTypes, Zenon DEF TypeOK, Write
<1>18. ASSUME NEW s \in Storer, PutLands(s) PROVE TypeOK'
  <2>1. [built |-> TRUE, etag |-> NextMap(s), loose |-> EmptyMap] \in Cache
    BY ViewTypes, Zenon DEF Cache
  <2>2. Folded(s) \cup Removed(batch[s]) \in SUBSET Name
    BY Zenon DEF Folded, Removed
  <2>3. QED
    BY <1>17, <1>18, <2>1, <2>2, Zenon DEF TypeOK, PutLands
<1>19. ASSUME NEW s \in Storer, PutLostReply(s) PROVE TypeOK'
  BY <1>17, <1>19, Zenon DEF TypeOK, PutLostReply, Return
<1>20. ASSUME NEW s \in Storer, PutRepeated(s) PROVE TypeOK'
  BY <1>15, <1>17, <1>20, Zenon DEF TypeOK, PutRepeated, CanPut
<1>21. ASSUME NEW s \in Storer, DropKey(s) PROVE TypeOK'
  <2>1. PICK n \in drop[s] : DropKey(s)!2!(n)
    BY <1>21, Zenon DEF DropKey
  <2>2. loose' \in RefMap
    BY <2>1, Zenon DEF TypeOK, RefMap
  <2>3. drop' \in [Storer -> SUBSET Name]
    BY <2>1, Zenon DEF TypeOK
  <2>4. QED
    BY <1>21, <2>2, <2>3, Zenon DEF TypeOK, DropKey
<1>22. ASSUME NEW s \in Storer, DropKeyIgnored(s) \/ DropFailed(s) \/ DropDone(s)
       PROVE  TypeOK'
  <2>1. CASE DropKeyIgnored(s)
    <3>1. PICK n \in drop[s] : drop' = [drop EXCEPT ![s] = @ \ {n}]
      BY <2>1, Zenon DEF DropKeyIgnored
    <3>2. drop' \in [Storer -> SUBSET Name]
      BY <3>1, Zenon DEF TypeOK
    <3>3. QED
      BY <2>1, <3>2, Zenon DEF TypeOK, DropKeyIgnored
  <2>2. CASE DropFailed(s)
    BY <2>2, Zenon DEF TypeOK, DropFailed, Return
  <2>3. CASE DropDone(s)
    BY <2>3, Zenon DEF TypeOK, DropDone, Return
  <2>4. QED
    BY <1>22, <2>1, <2>2, <2>3, Zenon
<1>23. ASSUME NEW s \in Storer, CheckLoose(s) \/ WriteLooseFailed(s) PROVE TypeOK'
  BY <1>23, Zenon DEF TypeOK, CheckLoose, WriteLooseFailed, Return
<1>24. ASSUME NEW s \in Storer, WriteLoose(s) PROVE TypeOK'
  <2>1. Apply(loose, batch[s]) \in RefMap
    BY Zenon DEF TypeOK
  <2>2. QED
    BY <1>24, <2>1, Zenon DEF TypeOK, WriteLoose, Return
<1>26. ASSUME NEW s \in Storer, LooseLostReply(s) PROVE TypeOK'
  <2>1. Apply(loose, batch[s]) \in RefMap
    BY Zenon DEF TypeOK
  <2>2. QED
    BY <1>26, <2>1, Zenon DEF TypeOK, LooseLostReply, Return
<1>27. ASSUME NEW s \in Storer, DropLostReply(s) PROVE TypeOK'
  <2>1. loose' \in RefMap
    BY <1>27, Zenon DEF TypeOK, DropLostReply, RefMap
  <2>2. QED
    BY <1>27, <2>1, Zenon DEF TypeOK, DropLostReply, Return
<1>25. ASSUME NEW s \in Storer, Crash(s) PROVE TypeOK'
  BY <1>25 DEF TypeOK, Crash, Return
<1>28. QED
  BY <1>1, <1>3, <1>4, <1>5, <1>6, <1>7, <1>8, <1>9, <1>11, <1>12, <1>13, <1>14,
     <1>16, <1>18, <1>19, <1>20, <1>21, <1>22, <1>23, <1>24, <1>26, <1>27, <1>25, Zenon
     DEF Next, Step

(* Every step leaves a running call an attempt. *)
LEMMA AttemptStep == TypeOK /\ AttemptLeft /\ [Next]_vars => AttemptLeft'
<1> SUFFICES ASSUME TypeOK, AttemptLeft, [Next]_vars, NEW t \in Storer,
                    pc'[t] # "idle"
             PROVE  attempt'[t] < MaxRetries
  BY Zenon DEF AttemptLeft
<1>1. MaxRetries \in Nat /\ 0 < MaxRetries
  BY RefStoreAssumption
<1>2. attempt[t] \in 0 .. MaxRetries /\ attempt \in [Storer -> 0 .. MaxRetries]
  BY Zenon DEF TypeOK
<1>3. pc \in [Storer -> Control]
  BY Zenon DEF TypeOK
<1>4. CASE UNCHANGED vars
  BY <1>4, Zenon DEF AttemptLeft, vars
<1>5. ASSUME NEW s \in Storer, NEW kind, NEW b, NEW at, Begin(s, kind, b, at)
      PROVE  attempt'[t] < MaxRetries
  BY <1>1, <1>2, <1>3, <1>5, Zenon DEF AttemptLeft, Begin
<1>6. ASSUME NEW s \in Storer, Read(s) \/ Commit(s) \/ CommitLoose(s) \/ PackRefs(s)
      PROVE  attempt'[t] < MaxRetries
  BY <1>5, <1>6, Zenon DEF Read, Commit, CommitLoose, PackRefs
<1>7. ASSUME NEW s \in Storer, pc[s] # "idle", attempt' = attempt,
             \A r \in Storer \ {s} : pc'[r] = pc[r]
      PROVE  attempt'[t] < MaxRetries
  BY <1>7, Zenon DEF AttemptLeft
<1>8. ASSUME NEW s \in Storer, pc[s] = "put", Retry(s)
      PROVE  attempt'[t] < MaxRetries
  <2>1. CASE t # s
    BY <1>2, <1>3, <1>8, <2>1, Zenon DEF AttemptLeft, Retry, Return
  <2>2. CASE t = s
    <3>1. attempt[s] + 1 # MaxRetries
      BY <1>3, <1>8, <2>2, Zenon DEF Retry, Return
    <3>2. attempt[s] < MaxRetries
      BY <1>8, Zenon DEF AttemptLeft
    <3>3. attempt'[s] = attempt[s] + 1
      BY <1>2, <1>8, Zenon DEF Retry
    <3>4. QED
      BY <1>1, <1>2, <2>2, <3>1, <3>2, <3>3
  <2>3. QED
    BY <2>1, <2>2, Zenon
<1>9. ASSUME NEW s \in Storer, PutRefused(s) \/ PutRepeated(s)
      PROVE  attempt'[t] < MaxRetries
  BY <1>8, <1>9, Zenon DEF PutRefused, PutRepeated, CanPut
<1>10. ASSUME NEW s \in Storer,
              \/ PackLoose(s) \/ FlushOk(s) \/ FlushFailed(s)
              \/ GetPacked(s) \/ LoadFailed(s)
              \/ ExpectationFailed(s) \/ PutLands(s) \/ PutFailed(s) \/ PutLostReply(s)
       PROVE  attempt'[t] < MaxRetries
  BY <1>3, <1>7, <1>10, Zenon DEF PackLoose, FlushOk, FlushFailed, GetPacked, LoadFailed,
     ExpectationFailed, PutLands, PutFailed, PutLostReply, CanPut, Return
<1>11. ASSUME NEW s \in Storer, ListLoose(s) \/ GetLoose(s)
       PROVE  attempt'[t] < MaxRetries
  BY ZenonT(30), <1>3, <1>7, <1>11 DEF ListLoose, GetLoose, Built
<1>12. ASSUME NEW s \in Storer,
              \/ DropKey(s) \/ DropKeyIgnored(s) \/ DropFailed(s) \/ DropLostReply(s) \/ DropDone(s)
              \/ CheckLoose(s) \/ WriteLoose(s) \/ WriteLooseFailed(s) \/ LooseLostReply(s)
       PROVE  attempt'[t] < MaxRetries
  BY <1>3, <1>7, <1>12, Zenon DEF DropKey, DropKeyIgnored, DropFailed, DropLostReply, DropDone,
     CheckLoose, WriteLoose, WriteLooseFailed, LooseLostReply, Return
<1>13. ASSUME NEW s \in Storer, Crash(s) PROVE attempt'[t] < MaxRetries
  BY <1>1, <1>2, <1>3, <1>13, Zenon DEF AttemptLeft, Crash, Return
<1>14. QED
  BY <1>4, <1>6, <1>9, <1>10, <1>11, <1>12, <1>13, Zenon DEF Next, Step

(* Type correctness of the reference store. *)
THEOREM TypeCorrect == Spec => [](TypeOK /\ AttemptLeft)
<1>1. Init => TypeOK /\ AttemptLeft
  <2> SUFFICES ASSUME Init PROVE TypeOK /\ AttemptLeft
    BY Zenon
  <2>1. MaxRetries \in Nat /\ MaxCalls \in Nat
    BY RefStoreAssumption, Zenon
  <2>2. QED
    BY <2>1, RefStoreAssumption, MapTypes
       DEF Init, TypeOK, AttemptLeft, Control, Running, Result
<1>2. TypeOK /\ AttemptLeft /\ [Next]_vars => (TypeOK /\ AttemptLeft)'
  BY TypeStep, AttemptStep, Zenon
<1>3. QED
  BY <1>1, <1>2, PTL DEF Spec

(* The operators at one name. *)
LEMMA Pointwise ==
    ASSUME NEW n \in Name
    PROVE  /\ \A p, l : Merge(p, l)[n] = IF l[n] # Absent THEN l[n] ELSE p[n]
           /\ \A v, b : Apply(v, b)[n] = IF b.upd[n] = Keep THEN v[n] ELSE b.upd[n]
           /\ EmptyMap[n] = Absent
           /\ \A p \in RefMap : Content(p) = p
  BY RefStoreAssumption, Zenon DEF Merge, Apply, EmptyMap, Content
-----------------------------------------------------------------------------
(***************************************************************************)
(* A repository without a loose layer, written by packed-refs Storers only:*)
(* there RefStore implements AtomicRefs.                                   *)
(***************************************************************************)

NoLegacy == InitLoose = EmptyMap /\ PackedWriters = Storer

(* Nothing loose ever appears, only a commit reaches the compare-and-swap,
   and a commit past it is what packed-refs holds for the names it was the
   last to write. *)
PackedStorer(s) ==
    /\ cache[s].loose = EmptyMap
    /\ pc[s] \in {"idle", "pack", "flush", "load", "list", "put", "drop"}
    /\ pc[s] \in {"flush", "put", "drop"} => call[s] = "committing"
    /\ pc[s] \in {"load", "list"} => call[s] \in Running
    /\ pc[s] = "pack" => call[s] = "packing"
    /\ call[s] = "packing" => Touched(batch[s]) = {}
    /\ call[s] = "committing" => batch[s] \in Batches /\ Touched(batch[s]) # {}

Effective(s) ==
    \A n \in Touched(batch[s]) :
        (call[s] = "ok" \/ pc[s] = "drop") /\ lastWriter[n] = s =>
            Content(packed)[n] = batch[s].upd[n]

PackedInv ==
    /\ loose = EmptyMap
    /\ \A s \in Storer : PackedStorer(s) /\ Effective(s)

(* With an empty loose layer the merge is the packed map. *)
LEMMA MergeEmpty == \A p \in RefMap : Merge(p, EmptyMap) = p
  BY Zenon DEF Merge, EmptyMap, RefMap

(* Without a loose layer both views are the packed map. *)
LEMMA PackedView ==
    ASSUME TypeOK, PackedInv, NEW s \in Storer
    PROVE  /\ CachedView(s) = Content(cache[s].etag)
           /\ View = Content(packed)
  BY MergeEmpty, MapTypes, Zenon DEF TypeOK, PackedInv, PackedStorer, CachedView, View, Cache

(* A write that passes the compare-and-swap is the batch applied to the
   current content, with the expectations holding in it. *)
LEMMA PackedWrite ==
    ASSUME TypeOK, PackedInv, NEW s \in Storer, CanPut(s), Matches(s), Write(s)
    PROVE  /\ batch[s] \in Batches
           /\ ExpectationsHold(Content(packed), batch[s])
           /\ Content(packed') = Apply(Content(packed), batch[s])
           /\ lastWriter' = [n \in Name |->
                IF n \in Touched(batch[s]) THEN s ELSE lastWriter[n]]
<1>1. CachedView(s) = Content(packed)
  BY PackedView, Zenon DEF Matches
<1>2. call[s] = "committing" /\ batch[s] \in Batches
  BY Zenon DEF CanPut, PackedInv, PackedStorer
<1>3. packed' = Apply(Content(packed), batch[s])
  BY <1>1, Zenon DEF Write, NextMap
<1>4. Content(packed') = packed'
  BY ViewTypes, RefStoreAssumption, Zenon DEF Write, Content
<1>5. QED
  BY <1>1, <1>2, <1>3, <1>4, Zenon DEF CanPut, Write

(* Such a write keeps what every other Storer was told. *)
LEMMA WriteKeepsOthers ==
    ASSUME TypeOK, PackedInv, NEW s \in Storer, CanPut(s), Matches(s), Write(s),
           NEW t \in Storer, t # s,
           batch'[t] = batch[t], call'[t] = call[t], pc'[t] = pc[t]
    PROVE  Effective(t)'
<1> SUFFICES ASSUME NEW n \in Touched(batch[t]),
                    call[t] = "ok" \/ pc[t] = "drop", lastWriter'[n] = t
             PROVE  Content(packed')[n] = batch[t].upd[n]
  BY Zenon DEF Effective
<1>1. n \in Name
  BY Zenon DEF Touched
<1>2. n \notin Touched(batch[s]) /\ lastWriter[n] = t
  BY <1>1, PackedWrite, Zenon
<1>3. Content(packed')[n] = Content(packed)[n]
  BY <1>1, <1>2, PackedWrite, Pointwise DEF Touched
<1>4. QED
  BY <1>2, <1>3, Zenon DEF PackedInv, Effective

(* Every step keeps the invariant of the packed layout. *)
LEMMA PackedStep ==
    ASSUME NoLegacy, TypeOK, PackedInv, [Next]_vars
    PROVE  PackedInv'
<1>1. CASE UNCHANGED vars
  BY <1>1, Zenon DEF vars, PackedInv, PackedStorer, Effective
<1>2. \A s \in Storer : PackedStorer(s) /\ Effective(s)
  BY Zenon DEF PackedInv
<1>3. ASSUME NEW s \in Storer, packed' = packed, loose' = loose, lastWriter' = lastWriter,
             \A t \in Storer \ {s} : /\ pc'[t] = pc[t] /\ batch'[t] = batch[t]
                                     /\ cache'[t] = cache[t] /\ call'[t] = call[t],
             PackedStorer(s)', Effective(s)'
      PROVE  PackedInv'
  <2>1. \A t \in Storer \ {s} : PackedStorer(t)' /\ Effective(t)'
    BY <1>2, <1>3 DEF PackedStorer, Effective
  <2>2. QED
    BY <1>3, <2>1, Zenon DEF PackedInv
<1>4. ASSUME NEW s \in Storer, NEW kind \in {"reading", "packing"},
             NEW at \in {"pack", "load"}, at = "pack" => kind = "packing",
             Begin(s, kind, NoBatch, at)
      PROVE  PackedInv'
  <2>1. Touched(NoBatch) = {}
    BY Zenon DEF Touched, NoBatch
  <2>2. /\ pc'[s] = at /\ batch'[s] = NoBatch /\ call'[s] = kind /\ cache' = cache
    BY <1>4, Zenon DEF Begin, TypeOK
  <2>3. PackedStorer(s)' /\ Effective(s)'
    BY <1>2, <1>4, <2>1, <2>2, Zenon DEF PackedStorer, Effective, Running
  <2>4. QED
    BY <1>3, <1>4, <2>3, Zenon DEF Begin, TypeOK
<1>5. ASSUME NEW s \in Storer, Read(s) \/ PackRefs(s) PROVE PackedInv'
  BY <1>4, <1>5, Zenon DEF Read, PackRefs
<1>6. ASSUME NEW s \in Storer, Commit(s) PROVE PackedInv'
  <2>1. PICK b \in Batches : Touched(b) # {} /\ Begin(s, "committing", b, "flush")
    BY <1>6, Zenon DEF Commit
  <2>2. /\ pc'[s] = "flush" /\ batch'[s] = b /\ call'[s] = "committing" /\ cache' = cache
    BY <2>1, Zenon DEF Begin, TypeOK
  <2>3. PackedStorer(s)' /\ Effective(s)'
    BY <1>2, <2>1, <2>2, Zenon DEF PackedStorer, Effective, Running
  <2>4. QED
    BY <1>3, <2>1, <2>3, Zenon DEF Begin, TypeOK
<1>7. ASSUME NEW s \in Storer, CommitLoose(s) PROVE FALSE
  BY <1>7, Zenon DEF CommitLoose, NoLegacy
<1>8. ASSUME NEW s \in Storer, PackLoose(s) PROVE PackedInv'
  <2>1. cache[s].loose = EmptyMap
    BY <1>2, Zenon DEF PackedStorer
  <2>2. call'[s] = "ok" /\ pc'[s] = "idle" /\ batch' = batch /\ cache' = cache
    BY <1>8, <2>1, Zenon DEF PackLoose, Return, TypeOK
  <2>3. Touched(batch[s]) = {}
    BY <1>2, <1>8, Zenon DEF PackLoose, PackedStorer
  <2>4. PackedStorer(s)' /\ Effective(s)'
    BY <1>2, <2>1, <2>2, <2>3, Zenon DEF PackedStorer, Effective
  <2>5. QED
    BY <1>3, <1>8, <2>1, <2>4, Zenon DEF PackLoose, Return, TypeOK
<1>9. ASSUME NEW s \in Storer,
             FlushOk(s) \/ FlushFailed(s) \/ ExpectationFailed(s) \/ PutFailed(s)
      PROVE  PackedInv'
  <2>1. PackedStorer(s)' /\ Effective(s)'
    BY <1>2, <1>9, Zenon DEF FlushOk, FlushFailed, ExpectationFailed, PutFailed, Return, TypeOK,
       PackedStorer, Effective, NoLegacy, Running
  <2>2. QED
    BY <1>3, <1>9, <2>1, Zenon DEF FlushOk, FlushFailed, ExpectationFailed, PutFailed, Return, TypeOK
<1>10. ASSUME NEW s \in Storer, GetPacked(s) PROVE PackedInv'
  <2>1. cache'[s].loose = EmptyMap /\ pc'[s] = "list" /\ batch' = batch /\ call' = call
    BY <1>10, Zenon DEF GetPacked, EmptyCache, TypeOK
  <2>2. PackedStorer(s)' /\ Effective(s)'
    BY <1>2, <1>10, <2>1, Zenon DEF GetPacked, PackedStorer, Effective, Running
  <2>3. QED
    BY <1>3, <1>10, <2>2, Zenon DEF GetPacked, TypeOK
<1>11. ASSUME NEW s \in Storer, ListLoose(s) PROVE PackedInv'
  <2>1. {n \in Name : loose[n] # Absent} = {}
    BY Zenon DEF PackedInv, EmptyMap
  <2>2. Built(s, cache[s])
    BY <1>11, <2>1, Zenon DEF ListLoose
  <2>3. cache'[s].loose = EmptyMap /\ batch' = batch
    BY <1>2, <1>11, <2>2 DEF ListLoose, Built, PackedStorer, TypeOK, Cache
  <2>4. /\ call[s] \in Running
        /\ call'[s] = IF call[s] = "reading" THEN "none" ELSE call[s]
        /\ pc'[s] = IF call[s] = "reading" THEN "idle"
                    ELSE IF Touched(batch[s]) = {} THEN "pack" ELSE "put"
    BY <1>2, <1>11, <2>2, Zenon DEF ListLoose, Built, PackedStorer, TypeOK, NoLegacy
  <2>5. PackedStorer(s)' /\ Effective(s)'
    BY <1>2, <2>3, <2>4, Zenon DEF PackedStorer, Effective, Running
  <2>6. QED
    BY <1>3, <1>11, <2>2, <2>5, Zenon DEF ListLoose, Built, TypeOK
<1>12. ASSUME NEW s \in Storer,
              GetLoose(s) \/ CheckLoose(s) \/ WriteLoose(s) \/ WriteLooseFailed(s) \/ LooseLostReply(s)
       PROVE  FALSE
  BY <1>2, <1>12, Zenon DEF GetLoose, CheckLoose, WriteLoose, WriteLooseFailed, LooseLostReply, PackedStorer
<1>13. ASSUME NEW s \in Storer, LoadFailed(s) PROVE PackedInv'
  <2>1. PackedStorer(s)' /\ Effective(s)'
    BY <1>2, <1>13 DEF LoadFailed, Return, TypeOK, PackedStorer, Effective, NoLegacy
  <2>2. QED
    BY <1>3, <1>13, <2>1, Zenon DEF LoadFailed, Return, TypeOK
<1>14. EmptyCache.loose = EmptyMap
  BY Zenon DEF EmptyCache
<1>15. ASSUME NEW s \in Storer, PutRefused(s) PROVE PackedInv'
  <2>1. PackedStorer(s)' /\ Effective(s)'
    BY <1>2, <1>14, <1>15 DEF PutRefused, CanPut, Retry, Return, TypeOK, PackedStorer,
       Effective, Running
  <2>2. QED
    BY <1>3, <1>15, <2>1, Zenon DEF PutRefused, Retry, Return, TypeOK
<1>16. ASSUME NEW s \in Storer, CanPut(s), Matches(s), Write(s), loose' = loose,
              \A t \in Storer \ {s} : /\ pc'[t] = pc[t] /\ batch'[t] = batch[t]
                                      /\ cache'[t] = cache[t] /\ call'[t] = call[t],
              PackedStorer(s)', Effective(s)'
       PROVE  PackedInv'
  <2>1. \A t \in Storer \ {s} : PackedStorer(t)'
    BY <1>2, <1>16 DEF PackedStorer
  <2>2. \A t \in Storer \ {s} : Effective(t)'
    BY <1>16, WriteKeepsOthers, Zenon
  <2>3. QED
    BY <1>16, <2>1, <2>2, Zenon DEF PackedInv
<1>17. ASSUME NEW s \in Storer, PutLostReply(s) PROVE PackedInv'
  <2>1. PackedStorer(s)' /\ Effective(s)'
    BY <1>2, <1>17, Zenon DEF PutLostReply, Return, TypeOK, PackedStorer, Effective
  <2>2. QED
    BY <1>16, <1>17, <2>1, Zenon DEF PutLostReply, Return, TypeOK
<1>18. ASSUME NEW s \in Storer, PutRepeated(s) PROVE PackedInv'
  <2>1. PackedStorer(s)' /\ Effective(s)'
    BY <1>2, <1>14, <1>18 DEF PutRepeated, CanPut, Retry, Return, TypeOK, PackedStorer,
       Effective, Running
  <2>2. QED
    BY <1>16, <1>18, <2>1, Zenon DEF PutRepeated, Retry, Return, TypeOK
<1>19. ASSUME NEW s \in Storer, PutLands(s) PROVE PackedInv'
  <2>1. /\ cache'[s].loose = EmptyMap /\ pc'[s] = "drop" /\ batch' = batch /\ call' = call
    BY <1>19, Zenon DEF PutLands, TypeOK
  <2>2. PackedStorer(s)'
    BY <1>2, <1>19, <2>1, Zenon DEF PutLands, CanPut, PackedStorer
  <2>3. ASSUME NEW n \in Touched(batch[s])
        PROVE  Content(packed')[n] = batch[s].upd[n]
    <3>1. n \in Name /\ batch[s].upd[n] # Keep
      BY Zenon DEF Touched
    <3>2. Content(packed') = Apply(Content(packed), batch[s])
      BY <1>19, PackedWrite, Zenon DEF PutLands
    <3>3. QED
      BY <3>1, <3>2, Pointwise
  <2>4. Effective(s)'
    BY <2>1, <2>3, Zenon DEF Effective
  <2>5. QED
    BY <1>16, <1>19, <2>2, <2>4, Zenon DEF PutLands, TypeOK
<1>20. ASSUME NEW s \in Storer, DropKey(s) PROVE PackedInv'
  <2>1. PICK n \in drop[s] : loose' = [loose EXCEPT ![n] = Absent]
    BY <1>20, Zenon DEF DropKey
  <2>2. loose' = EmptyMap
    BY <2>1, Zenon DEF PackedInv, EmptyMap, TypeOK
  <2>3. QED
    BY <1>2, <1>20, <2>2, Zenon DEF DropKey, PackedInv, PackedStorer, Effective
<1>21. ASSUME NEW s \in Storer, DropKeyIgnored(s) \/ DropDone(s) PROVE PackedInv'
  <2>1. CASE DropKeyIgnored(s)
    BY <1>2, <2>1, Zenon DEF DropKeyIgnored, PackedInv, PackedStorer, Effective
  <2>2. CASE DropDone(s)
    <3>1. call'[s] = "ok" /\ pc'[s] = "idle"
      BY <2>2, Zenon DEF DropDone, Return, TypeOK
    <3>2. PackedStorer(s)' /\ Effective(s)'
      BY <1>2, <2>2, <3>1, Zenon DEF DropDone, PackedStorer, Effective
    <3>3. QED
      BY <1>3, <2>2, <3>2, Zenon DEF DropDone, Return, TypeOK
  <2>3. QED
    BY <1>21, <2>1, <2>2, Zenon
<1>22. ASSUME NEW s \in Storer, DropFailed(s) \/ Crash(s) PROVE PackedInv'
  <2>1. PackedStorer(s)' /\ Effective(s)'
    BY <1>2, <1>14, <1>22 DEF DropFailed, Crash, Return, TypeOK, PackedStorer, Effective
  <2>2. QED
    BY <1>3, <1>22, <2>1, Zenon DEF DropFailed, Crash, Return, TypeOK
<1>23. ASSUME NEW s \in Storer, DropLostReply(s) PROVE PackedInv'
  <2>1. loose' = EmptyMap
    BY <1>23, Zenon DEF DropLostReply, PackedInv, EmptyMap, TypeOK
  <2>2. PackedStorer(s)' /\ Effective(s)'
    BY <1>2, <1>14, <1>23 DEF DropLostReply, Return, TypeOK, PackedStorer, Effective
  <2>3. \A t \in Storer \ {s} : PackedStorer(t)' /\ Effective(t)'
    BY <1>2, <1>23, Zenon DEF DropLostReply, Return, TypeOK, PackedStorer, Effective
  <2>4. QED
    BY <2>1, <2>2, <2>3, Zenon DEF PackedInv
<1>24. QED
  BY <1>1, <1>5, <1>6, <1>7, <1>8, <1>9, <1>10, <1>11, <1>12, <1>13, <1>15, <1>17,
     <1>18, <1>19, <1>20, <1>21, <1>22, <1>23, Zenon DEF Next, Step

(* The packed layout holds at the start. *)
LEMMA PackedInit == ASSUME NoLegacy, Init PROVE PackedInv
<1>1. Touched(NoBatch) = {}
  BY Zenon DEF Touched, NoBatch
<1>2. QED
  BY <1>1, Zenon DEF Init, NoLegacy, PackedInv, PackedStorer, Effective, EmptyCache

(* In a repository with no loose layer an acknowledged update is undone by
   nobody: while no later call wrote the name, it is what the repository
   shows. *)
THEOREM AckedUpdatesStay == ASSUME NoLegacy PROVE Spec => []AckedUpdateEffective
<1>1. Init => PackedInv
  BY PackedInit, Zenon
<1>2. TypeOK /\ PackedInv /\ [Next]_vars => PackedInv'
  BY PackedStep, Zenon
<1>3. TypeOK /\ PackedInv => AckedUpdateEffective
  BY PackedView, Zenon DEF PackedInv, Effective, AckedUpdateEffective
<1>4. QED
  BY <1>1, <1>2, <1>3, TypeCorrect, PTL DEF Spec

(* There packed-refs implements the atomic reference map: every write that
   passes the compare-and-swap is one whole batch, applied to the current
   content while its expectations hold in it, and nothing else changes it. *)
THEOREM ImplementsAtomicRefs == ASSUME NoLegacy PROVE Spec => AtomicRefUpdates
<1>1. Init => PackedInv
  BY PackedInit, Zenon
<1>2. TypeOK /\ PackedInv /\ [Next]_vars => PackedInv'
  BY PackedStep, Zenon
<1>3. Init => Refs!Init
  BY Zenon DEF Init, Refs!Init
<1>4. TypeOK /\ PackedInv /\ [Next]_vars => [Refs!Next]_(Content(packed))
  <2> SUFFICES ASSUME TypeOK, PackedInv, [Next]_vars, packed' # packed PROVE Refs!Next
    BY Zenon DEF Content
  <2>1. ASSUME NEW s \in Storer, CanPut(s), Matches(s), Write(s) PROVE Refs!Next
    BY <2>1, PackedWrite, Zenon
       DEF Refs!Next, Refs!Update, Refs!Current, ExpectationsHold, Apply
  <2>2. ASSUME NEW s \in Storer, PutLands(s) \/ PutLostReply(s) \/ PutRepeated(s)
        PROVE  Refs!Next
    <3>1. CanPut(s) /\ Matches(s) /\ Write(s)
      BY <2>2, Zenon DEF PutLands, PutLostReply, PutRepeated
    <3>2. QED
      BY <2>1, <3>1, Zenon
  <2>3. ASSUME NEW s \in Storer, Read(s) \/ Commit(s) \/ CommitLoose(s) \/ PackRefs(s)
        PROVE  FALSE
    BY <2>3, Zenon DEF Read, Commit, CommitLoose, PackRefs, Begin
  <2>4. ASSUME NEW s \in Storer, PackLoose(s) \/ FlushOk(s) \/ FlushFailed(s)
        PROVE  FALSE
    BY <2>4, Zenon DEF PackLoose, FlushOk, FlushFailed
  <2>5. ASSUME NEW s \in Storer, GetPacked(s) \/ ListLoose(s) \/ GetLoose(s) \/ LoadFailed(s)
        PROVE  FALSE
    BY <2>5, Zenon DEF GetPacked, ListLoose, GetLoose, LoadFailed
  <2>6. ASSUME NEW s \in Storer, ExpectationFailed(s) \/ PutRefused(s) \/ PutFailed(s)
        PROVE  FALSE
    BY <2>6, Zenon DEF ExpectationFailed, PutRefused, PutFailed
  <2>7. ASSUME NEW s \in Storer,
               DropKey(s) \/ DropKeyIgnored(s) \/ DropFailed(s) \/ DropLostReply(s) \/ DropDone(s)
        PROVE  FALSE
    BY <2>7, Zenon DEF DropKey, DropKeyIgnored, DropFailed, DropLostReply, DropDone
  <2>8. ASSUME NEW s \in Storer,
               CheckLoose(s) \/ WriteLoose(s) \/ WriteLooseFailed(s) \/ LooseLostReply(s) \/ Crash(s)
        PROVE  FALSE
    BY <2>8, Zenon DEF CheckLoose, WriteLoose, WriteLooseFailed, LooseLostReply, Crash
  <2>9. Next
    BY Zenon DEF vars
  <2>10. QED
    BY <2>2, <2>3, <2>4, <2>5, <2>6, <2>7, <2>8, <2>9, Zenon DEF Next, Step
<1>5. QED
  BY <1>1, <1>2, <1>3, <1>4, TypeCorrect, PTL DEF Spec, AtomicRefUpdates, Refs!Spec
-----------------------------------------------------------------------------
(***************************************************************************)
(* RefStore keeps the references nobody updates.                           *)
(***************************************************************************)

Shown(n) == Merge(Content(InitPacked), InitLoose)[n]

(* What one Storer may hold about the bystander n.  The last conjunct but one
   is the heart of it: packed-refs and the loose layer are read by different
   requests, so a reader can miss n in both; but then packed-refs has taken n
   up since, and the compare-and-swap of that reader will be refused. *)
StorerKnows(n, s) ==
    /\ \/ batch[s].upd[n] = Keep
       \/ batch[s].upd[n] = Shown(n) /\ Shown(n) # Absent
    /\ cache[s].loose[n] \in {Absent, Shown(n)}
    /\ n \in drop[s] => Content(packed)[n] = Shown(n)
    /\ cache[s].built \/ (pc[s] = "get" /\ n \notin keys[s]) =>
         CachedView(s)[n] = Shown(n) \/ Content(packed)[n] = Shown(n)
    /\ pc[s] = "put" => cache[s].built

BystanderInv(n) ==
    /\ View[n] = Shown(n)
    /\ loose[n] \in {Absent, Shown(n)}
    /\ \A s \in Storer : StorerKnows(n, s)

(* A step that writes neither bucket object keeps what the other Storers
   know, and the view. *)
LEMMA QuietStep ==
    ASSUME NEW n \in Name, NEW s \in Storer, BystanderInv(n),
           packed' = packed, loose' = loose,
           \A t \in Storer \ {s} :
              /\ pc'[t] = pc[t] /\ batch'[t] = batch[t] /\ cache'[t] = cache[t]
              /\ keys'[t] = keys[t] /\ drop'[t] = drop[t],
           StorerKnows(n, s)'
    PROVE  BystanderInv(n)'
<1>1. View' = View
  BY Zenon DEF View
<1>2. \A t \in Storer \ {s} : StorerKnows(n, t)'
  BY DEF BystanderInv, StorerKnows, CachedView
<1>3. QED
  BY <1>1, <1>2, Zenon DEF BystanderInv

(* A write that passes the compare-and-swap carries the bystander along. *)
LEMMA PutCarries ==
    ASSUME TypeOK, NEW n \in Name, NEW s \in Storer, BystanderInv(n),
           CanPut(s), Matches(s)
    PROVE  NextMap(s)[n] = Shown(n) /\ Content(NextMap(s))[n] = Shown(n)
<1>1. /\ cache[s].built
      /\ cache[s].loose[n] \in {Absent, Shown(n)}
      /\ CachedView(s)[n] = Shown(n) \/ Content(packed)[n] = Shown(n)
      /\ batch[s].upd[n] \in {Keep, Shown(n)}
  BY Zenon DEF CanPut, BystanderInv, StorerKnows
<1>2. packed = cache[s].etag
  BY Zenon DEF Matches
<1>3. CachedView(s)[n] = Shown(n)
  BY <1>1, <1>2, Pointwise, Zenon DEF CachedView
<1>4. NextMap(s)[n] = Shown(n)
  BY <1>1, <1>3, Pointwise DEF NextMap
<1>5. Content(NextMap(s)) = NextMap(s)
  BY Pointwise, ViewTypes, Zenon
<1>6. QED
  BY <1>4, <1>5, Zenon

(* Such a write keeps the invariant if its own Storer keeps its part. *)
LEMMA PutStep ==
    ASSUME TypeOK, NEW n \in Name, NEW s \in Storer, BystanderInv(n),
           CanPut(s), Matches(s), packed' = NextMap(s), loose' = loose,
           \A t \in Storer \ {s} :
              /\ pc'[t] = pc[t] /\ batch'[t] = batch[t] /\ cache'[t] = cache[t]
              /\ keys'[t] = keys[t] /\ drop'[t] = drop[t],
           StorerKnows(n, s)'
    PROVE  BystanderInv(n)'
<1>1. Content(packed')[n] = Shown(n)
  BY PutCarries, Zenon
<1>2. View'[n] = Shown(n)
  BY <1>1, Pointwise DEF View, BystanderInv
<1>3. \A t \in Storer \ {s} : StorerKnows(n, t)'
  BY <1>1 DEF BystanderInv, StorerKnows, CachedView
<1>4. QED
  BY <1>2, <1>3, Zenon DEF BystanderInv

(* Every step keeps a bystander. *)
LEMMA BystanderStep ==
    ASSUME TypeOK, NEW n \in Name, Bystander(n), BystanderInv(n), [Next]_vars
    PROVE  BystanderInv(n)'
<1>1. CASE UNCHANGED vars
  BY <1>1, Zenon DEF vars, BystanderInv, StorerKnows, CachedView, View
<1>2. \A s \in Storer : StorerKnows(n, s)
  BY Zenon DEF BystanderInv
<1>3. ASSUME NEW s \in Storer, NEW kind, NEW b, NEW at, at # "put", at # "get",
             b.upd[n] = Keep, Begin(s, kind, b, at)
      PROVE  BystanderInv(n)'
  <2>1. StorerKnows(n, s)'
    BY <1>2, <1>3, Zenon DEF Begin, StorerKnows, CachedView, TypeOK
  <2>2. QED
    BY <1>3, <2>1, QuietStep, Zenon DEF Begin, TypeOK
<1>4. ASSUME NEW s \in Storer, Read(s) \/ Commit(s) \/ CommitLoose(s) \/ PackRefs(s)
      PROVE  BystanderInv(n)'
  <2>1. NoBatch.upd[n] = Keep
    BY Zenon DEF NoBatch
  <2>2. \A b \in Batches : b.upd[n] = Keep
    BY Zenon DEF Bystander
  <2>3. QED
    BY <1>3, <1>4, <2>1, <2>2, Zenon DEF Read, Commit, CommitLoose, PackRefs
<1>5. ASSUME NEW s \in Storer, PackLoose(s) PROVE BystanderInv(n)'
  <2>1. \/ batch'[s].upd[n] = Keep
        \/ batch'[s].upd[n] = Shown(n) /\ Shown(n) # Absent
    <3>1. cache[s].loose[n] \in {Absent, Shown(n)}
      BY <1>2, Zenon DEF StorerKnows
    <3>2. CASE cache[s].loose = EmptyMap
      BY <1>2, <1>5, <3>2 DEF PackLoose, StorerKnows
    <3>3. CASE cache[s].loose # EmptyMap
      <4> DEFINE u == [m \in Name |->
                         IF cache[s].loose[m] = Absent THEN Keep ELSE cache[s].loose[m]]
      <4>1. batch' = [batch EXCEPT ![s] = [batch[s] EXCEPT !.upd = u]]
        BY <1>5, <3>3, Zenon DEF PackLoose
      <4>2. batch'[s].upd = u
        BY <4>1 DEF TypeOK, Batch
      <4>3. u[n] = IF cache[s].loose[n] = Absent THEN Keep ELSE cache[s].loose[n]
        BY Zenon
      <4>4. QED
        BY <3>1, <4>2, <4>3, Zenon
    <3>4. QED
      BY <3>2, <3>3, Zenon
  <2>2. StorerKnows(n, s)'
    BY <1>2, <1>5, <2>1, Zenon DEF PackLoose, StorerKnows, CachedView, Return, TypeOK
  <2>3. QED
    BY <1>5, <2>2, QuietStep, Zenon DEF PackLoose, Return, TypeOK
<1>6. ASSUME NEW s \in Storer, FlushOk(s) \/ FlushFailed(s) PROVE BystanderInv(n)'
  <2>1. StorerKnows(n, s)'
    BY <1>2, <1>6, Zenon DEF FlushOk, FlushFailed, StorerKnows, CachedView, Return, TypeOK
  <2>2. QED
    BY <1>6, <2>1, QuietStep, Zenon DEF FlushOk, FlushFailed, Return, TypeOK
<1>7. ASSUME NEW s \in Storer, GetPacked(s) PROVE BystanderInv(n)'
  <2>1. cache'[s].built = FALSE /\ cache'[s].loose = EmptyMap
    BY <1>7, Zenon DEF GetPacked, EmptyCache, TypeOK
  <2>2. StorerKnows(n, s)'
    BY <1>2, <1>7, <2>1, Pointwise, Zenon DEF GetPacked, StorerKnows, TypeOK
  <2>3. QED
    BY <1>7, <2>2, QuietStep, Zenon DEF GetPacked, TypeOK
<1>8. loose[n] = Absent => Content(packed)[n] = Shown(n)
  BY Pointwise, Zenon DEF BystanderInv, View
<1>9. ASSUME NEW s \in Storer, NEW c \in Cache, Built(s, c),
             c.loose[n] \in {Absent, Shown(n)},
             Merge(Content(c.etag), c.loose)[n] = Shown(n) \/ Content(packed)[n] = Shown(n),
             packed' = packed, batch' = batch, drop' = drop
      PROVE  StorerKnows(n, s)'
  <2>1. /\ cache'[s].built /\ cache'[s].etag = c.etag /\ cache'[s].loose = c.loose
    BY <1>9, Zenon DEF Built, TypeOK, Cache
  <2>2. QED
    BY <1>2, <1>9, <2>1, Zenon DEF StorerKnows, CachedView
<1>10. ASSUME NEW s \in Storer, ListLoose(s) PROVE BystanderInv(n)'
  <2> DEFINE listed == {m \in Name : loose[m] # Absent}
  <2>1. CASE listed = {}
    <3>1. Content(packed)[n] = Shown(n)
      BY <1>8, <2>1, Zenon
    <3>2. Built(s, cache[s]) /\ cache[s] \in Cache
      BY <1>10, <2>1, Zenon DEF ListLoose, TypeOK
    <3>3. StorerKnows(n, s)'
      BY <1>2, <1>9, <1>10, <3>1, <3>2, Zenon DEF ListLoose, StorerKnows
    <3>4. QED
      BY <1>10, <2>1, <3>3, QuietStep, Zenon DEF ListLoose, Built, TypeOK
  <2>2. CASE listed # {}
    <3>1. /\ keys'[s] = listed /\ pc'[s] = "get"
          /\ cache' = cache /\ batch' = batch /\ drop' = drop /\ packed' = packed
      BY <1>10, <2>2, Zenon DEF ListLoose, TypeOK
    <3>2. n \notin keys'[s] => Content(packed)[n] = Shown(n)
      BY <1>8, <3>1, Zenon
    <3>3. StorerKnows(n, s)'
      BY <1>2, <3>1, <3>2, Zenon DEF StorerKnows, CachedView
    <3>4. QED
      BY <1>10, <2>2, <3>3, QuietStep, Zenon DEF ListLoose, TypeOK
  <2>3. QED
    BY <2>1, <2>2, Zenon
<1>11. ASSUME NEW s \in Storer, GetLoose(s) PROVE BystanderInv(n)'
  <2>1. PICK m \in keys[s] : GetLoose(s)!2!(m)
    BY <1>11, Zenon DEF GetLoose
  <2> DEFINE c == [cache[s] EXCEPT !.loose[m] = loose[m]]
  <2>2. m \in Name /\ cache[s] \in Cache /\ loose \in RefMap
    BY Zenon DEF TypeOK
  <2>3. /\ c \in Cache /\ c.etag = cache[s].etag /\ c.built = cache[s].built
        /\ c.loose[n] = IF m = n THEN loose[n] ELSE cache[s].loose[n]
    BY <2>2, Zenon DEF Cache, RefMap
  <2> HIDE DEF c
  <2>4. keys'[s] = keys[s] \ {m} /\ packed' = packed /\ batch' = batch /\ drop' = drop
        /\ loose' = loose
    BY <1>11, <2>1, Zenon DEF TypeOK, GetLoose
  <2>5. c.loose[n] \in {Absent, Shown(n)}
    BY <1>2, <2>3, Zenon DEF StorerKnows, BystanderInv
  <2>6. n \notin keys'[s] =>
          Merge(Content(c.etag), c.loose)[n] = Shown(n) \/ Content(packed)[n] = Shown(n)
    <3>1. CASE m = n
      BY <1>8, <2>3, <3>1, Pointwise DEF BystanderInv
    <3>2. CASE m # n
      <4>1. n \notin keys'[s] =>
              CachedView(s)[n] = Shown(n) \/ Content(packed)[n] = Shown(n)
        BY <1>2, <1>11, <2>4, <3>2, Zenon DEF GetLoose, StorerKnows
      <4>2. Merge(Content(c.etag), c.loose)[n] = CachedView(s)[n]
        BY <2>3, <3>2, Pointwise DEF CachedView
      <4>3. QED
        BY <4>1, <4>2, Zenon
    <3>3. QED
      BY <3>1, <3>2, Zenon
  <2>7. CASE keys[s] = {m}
    <3>1. Built(s, c)
      BY <2>1, <2>7, Zenon DEF c
    <3>2. n \notin keys'[s]
      BY <2>4, <2>7, Zenon
    <3>3. StorerKnows(n, s)'
      BY <1>9, <2>3, <2>4, <2>5, <2>6, <3>1, <3>2, Zenon
    <3>4. QED
      BY <1>11, <2>1, <2>4, <3>1, <3>3, QuietStep, Zenon DEF Built, TypeOK
  <2>8. CASE keys[s] # {m}
    <3>1. cache' = [cache EXCEPT ![s] = c] /\ pc' = pc
      BY <2>1, <2>8, Zenon DEF c
    <3>2. cache'[s] = c /\ CachedView(s)' = Merge(Content(c.etag), c.loose)
      BY <3>1, Zenon DEF TypeOK, CachedView
    <3>3. cache[s].built => n \notin keys'[s] \/ CachedView(s)'[n] = Shown(n) \/ Content(packed)[n] = Shown(n)
      <4>1. m # n => CachedView(s)'[n] = CachedView(s)[n]
        BY <2>3, <3>2, Pointwise DEF CachedView
      <4>2. m = n => n \notin keys'[s]
        BY <2>4, Zenon
      <4>3. QED
        BY <1>2, <4>1, <4>2, Zenon DEF StorerKnows
    <3>4. StorerKnows(n, s)'
      BY <1>2, <2>3, <2>4, <2>5, <2>6, <3>1, <3>2, <3>3, Zenon DEF StorerKnows
    <3>5. QED
      BY <1>11, <2>1, <2>4, <3>1, <3>4, QuietStep, Zenon DEF TypeOK
  <2>9. QED
    BY <2>7, <2>8, Zenon
<1>12. ASSUME NEW s \in Storer,
              LoadFailed(s) \/ ExpectationFailed(s) \/ PutFailed(s) \/ CheckLoose(s)
              \/ WriteLooseFailed(s) \/ DropDone(s) \/ DropKeyIgnored(s)
       PROVE  BystanderInv(n)'
  <2>1. StorerKnows(n, s)'
    BY <1>2, <1>12, Zenon DEF LoadFailed, ExpectationFailed, PutFailed, CheckLoose,
       WriteLooseFailed, DropDone, DropKeyIgnored, StorerKnows, CachedView, Return, TypeOK
  <2>2. QED
    BY <1>12, <2>1, QuietStep, Zenon DEF LoadFailed, ExpectationFailed, PutFailed, CheckLoose,
       WriteLooseFailed, DropDone, DropKeyIgnored, Return, TypeOK
<1>13. ASSUME NEW s \in Storer, cache'[s] = EmptyCache, pc'[s] \notin {"get", "put"},
              batch'[s] \in {batch[s], NoBatch}, drop'[s] = {}
       PROVE  StorerKnows(n, s)'
  BY <1>2, <1>13, Pointwise DEF StorerKnows, EmptyCache, NoBatch
<1>14. ASSUME NEW s \in Storer, DropFailed(s) \/ Crash(s) PROVE BystanderInv(n)'
  <2>1. StorerKnows(n, s)'
    BY <1>13, <1>14, Zenon DEF DropFailed, Crash, Return, TypeOK
  <2>2. QED
    BY <1>14, <2>1, QuietStep, Zenon DEF DropFailed, Crash, Return, TypeOK
<1>15. ASSUME NEW s \in Storer, cache' = cache \/ cache'[s] = EmptyCache,
              pc'[s] \notin {"get", "put"}, batch' = batch, drop' = drop,
              CanPut(s), Matches(s), packed' = NextMap(s)
       PROVE  StorerKnows(n, s)'
  BY <1>2, <1>15, PutCarries, Pointwise DEF StorerKnows, EmptyCache
<1>16. ASSUME NEW s \in Storer, PutRefused(s) PROVE BystanderInv(n)'
  <2>1. StorerKnows(n, s)'
    BY <1>2, <1>16, Pointwise
       DEF PutRefused, Retry, Return, StorerKnows, CachedView, EmptyCache, TypeOK
  <2>2. QED
    BY <1>16, <2>1, QuietStep, Zenon DEF PutRefused, Retry, Return, TypeOK
<1>17. ASSUME NEW s \in Storer, PutLostReply(s) PROVE BystanderInv(n)'
  <2>1. StorerKnows(n, s)'
    BY <1>15, <1>17, Zenon DEF PutLostReply, Write, Return, TypeOK
  <2>2. QED
    BY <1>17, <2>1, PutStep, Zenon DEF PutLostReply, Write, Return, TypeOK
<1>18. ASSUME NEW s \in Storer, PutRepeated(s) PROVE BystanderInv(n)'
  <2>1. StorerKnows(n, s)'
    BY <1>15, <1>18, Zenon DEF PutRepeated, Write, Retry, Return, TypeOK
  <2>2. QED
    BY <1>18, <2>1, PutStep, Zenon DEF PutRepeated, Write, Retry, Return, TypeOK
<1>19. ASSUME NEW s \in Storer, PutLands(s) PROVE BystanderInv(n)'
  <2>1. NextMap(s)[n] = Shown(n) /\ Content(packed')[n] = Shown(n)
    BY <1>19, PutCarries, Zenon DEF PutLands, Write
  <2>2. cache'[s] = [built |-> TRUE, etag |-> NextMap(s), loose |-> EmptyMap]
    BY <1>19, Zenon DEF PutLands, TypeOK
  <2>3. StorerKnows(n, s)'
    BY <1>2, <1>19, <2>1, <2>2, Pointwise, Zenon DEF PutLands, StorerKnows, TypeOK
  <2>4. QED
    BY <1>19, <2>3, PutStep, Zenon DEF PutLands, Write, TypeOK
<1>20. ASSUME NEW s \in Storer, DropKey(s) PROVE BystanderInv(n)'
  <2>1. PICK m \in drop[s] : DropKey(s)!2!(m)
    BY <1>20, Zenon DEF DropKey
  <2>2. loose'[n] = IF m = n THEN Absent ELSE loose[n]
    BY <2>1, Zenon DEF TypeOK, RefMap
  <2>3. m = n => Content(packed)[n] = Shown(n)
    BY <1>2, <2>1, Zenon DEF StorerKnows
  <2>4. packed' = packed /\ batch' = batch /\ cache' = cache /\ pc' = pc /\ keys' = keys
    BY <1>20, Zenon DEF DropKey
  <2>5. View'[n] = Shown(n)
    BY <2>2, <2>3, <2>4, Pointwise DEF View, BystanderInv
  <2>6. \A t \in Storer : drop'[t] \subseteq drop[t]
    BY <2>1, Zenon DEF TypeOK
  <2>7. \A t \in Storer : StorerKnows(n, t)'
    BY <1>2, <2>4, <2>6, Zenon DEF StorerKnows, CachedView
  <2>8. QED
    BY <2>2, <2>5, <2>7, Zenon DEF BystanderInv
<1>21. ASSUME NEW s \in Storer, WriteLoose(s) \/ LooseLostReply(s) PROVE BystanderInv(n)'
  <2>1. loose'[n] = loose[n] \/ (loose'[n] = Shown(n) /\ Shown(n) # Absent)
    <3>1. loose' = Apply(loose, batch[s])
      BY <1>21, Zenon DEF WriteLoose, LooseLostReply
    <3>2. Apply(loose, batch[s])[n] =
            IF batch[s].upd[n] = Keep THEN loose[n] ELSE batch[s].upd[n]
      BY Pointwise
    <3>3. \/ batch[s].upd[n] = Keep
          \/ batch[s].upd[n] = Shown(n) /\ Shown(n) # Absent
      BY <1>2, Zenon DEF StorerKnows
    <3>4. QED
      BY <3>1, <3>2, <3>3, Zenon
  <2>2. packed' = packed /\ batch' = batch /\ drop' = drop /\ keys' = keys
    BY <1>21, Zenon DEF WriteLoose, LooseLostReply
  <2>3. View'[n] = Shown(n) /\ loose'[n] \in {Absent, Shown(n)}
    <3>1. /\ View[n] = IF loose[n] # Absent THEN loose[n] ELSE Content(packed)[n]
          /\ View'[n] = IF loose'[n] # Absent THEN loose'[n] ELSE Content(packed)[n]
      BY <2>2, Pointwise, Zenon DEF View
    <3>2. QED
      BY <2>1, <3>1, Zenon DEF BystanderInv
  <2>4. StorerKnows(n, s)'
    <3>1. cache'[s] \in {cache[s], EmptyCache} /\ pc'[s] = "idle"
      BY <1>21, Zenon DEF WriteLoose, LooseLostReply, Return, TypeOK
    <3>2. CASE cache'[s] = EmptyCache
      BY <1>2, <2>2, <3>1, <3>2, Pointwise DEF StorerKnows, EmptyCache
    <3>3. CASE cache'[s] = cache[s]
      BY <1>2, <2>2, <3>1, <3>3, Zenon DEF StorerKnows, CachedView
    <3>4. QED
      BY <3>1, <3>2, <3>3, Zenon
  <2>5. \A t \in Storer \ {s} : StorerKnows(n, t)'
    <3>1. \A t \in Storer \ {s} : cache'[t] = cache[t] /\ pc'[t] = pc[t]
      BY <1>21, Zenon DEF WriteLoose, LooseLostReply, Return, TypeOK
    <3>2. QED
      BY <1>2, <2>2, <3>1 DEF StorerKnows, CachedView
  <2>6. QED
    BY <2>3, <2>4, <2>5, Zenon DEF BystanderInv
<1>22. ASSUME NEW s \in Storer, DropLostReply(s) PROVE BystanderInv(n)'
  <2>1. loose'[n] = IF n \in drop[s] THEN Absent ELSE loose[n]
    BY <1>22, Zenon DEF DropLostReply
  <2>2. n \in drop[s] => Content(packed)[n] = Shown(n)
    BY <1>2, Zenon DEF StorerKnows
  <2>3. packed' = packed
    BY <1>22, Zenon DEF DropLostReply
  <2>4. View'[n] = Shown(n)
    BY <2>1, <2>2, <2>3, Pointwise DEF View, BystanderInv
  <2>5. StorerKnows(n, s)'
    BY <1>13, <1>22, Zenon DEF DropLostReply, Return, TypeOK
  <2>6. \A t \in Storer \ {s} :
           /\ pc'[t] = pc[t] /\ batch'[t] = batch[t] /\ cache'[t] = cache[t]
           /\ keys'[t] = keys[t] /\ drop'[t] = drop[t]
    BY <1>22, Zenon DEF DropLostReply, Return, TypeOK
  <2>7. \A t \in Storer \ {s} : StorerKnows(n, t)'
    BY <1>2, <2>3, <2>6 DEF StorerKnows, CachedView
  <2>8. QED
    BY <2>1, <2>4, <2>5, <2>7, Zenon DEF BystanderInv
<1>23. QED
  BY <1>1, <1>4, <1>5, <1>6, <1>7, <1>10, <1>11, <1>12, <1>14, <1>16, <1>17, <1>18,
     <1>19, <1>20, <1>21, <1>22, Zenon DEF Next, Step

(* No run of the store, with any mixture of packed, packing and loose writers,
   folds, lost answers, failed cleanups and crashes, loses or changes a
   reference that no caller asked to change. *)
THEOREM BystandersKept == Spec => []BystanderKept
<1> DEFINE All == \A n \in Name : Bystander(n) => BystanderInv(n)
<1>1. Init => All
  <2> SUFFICES ASSUME Init, NEW n \in Name PROVE BystanderInv(n)
    BY Zenon
  <2>1. View[n] = Shown(n) /\ loose[n] \in {Absent, Shown(n)}
    BY Pointwise DEF Init, View, Shown
  <2>2. \A s \in Storer : StorerKnows(n, s)
    BY Pointwise, Zenon DEF Init, StorerKnows, EmptyCache, NoBatch
  <2>3. QED
    BY <2>1, <2>2, Zenon DEF BystanderInv
<1>2. TypeOK /\ All /\ [Next]_vars => All'
  BY BystanderStep, Zenon
<1>3. All => BystanderKept
  BY Zenon DEF BystanderInv, BystanderKept, Shown
<1>4. QED
  BY <1>1, <1>2, <1>3, TypeCorrect, PTL DEF Spec
-----------------------------------------------------------------------------
(* ListingCache. *)

(* The listing of p shows the object of k, or a folder on the way to it. *)
Affects(p, k) == Below(p, k) /\ k[Len(p) + 1] # NoName
Quiet(p, open) == \A k \in open : ~Affects(p, k)

(* The keys of the writes that have not invalidated yet. *)
OpenKeys == UNION {Unfinished(c) : c \in FsCall}

(* An entry shows what the bucket objs has, as far as no open write affects it.
   Nobody asks for the head of a directory marker. *)
Shows(id, data, objs, open) ==
    /\ id[1] = "listing" => (Quiet(id[2], open) => data = Children(objs, id[2]))
    /\ id[1] = "subtree" => \A p \in Folders : Under(id[2], p) /\ Quiet(p, open) => Children(data, p) = Children(objs, p)
    /\ id[1] = "head" => splitBase(id[2]) # NoName /\ (id[2] \in open \/ data = objs[id[2]])

FsReads == {"stat", "readdir", "warm"}
FsWrites == {"put", "mkdir", "remove", "rename"}
CallGood(c, s, gs) ==
    /\ s.at \in {"gen", "look", "wait"} =>
         c.op \in FsReads /\ s.on \in Tables /\ (s.on[1] = "head" => splitBase(s.on[2]) # NoName)
    /\ s.at = "look" => s.gen \in Int /\ s.gen <= gs[Prefix(s.on)]
    /\ s.at \in {"written", "half"} => c.op \in FsWrites
    /\ s.at = "half" => c.op = "rename"
FlightGood(id, e, gs, objs, open) ==
    e # Nothing =>
      /\ {"at", "gen"} \subseteq DOMAIN e /\ e.gen \in Int /\ e.gen <= gs[Prefix(id)]
      /\ id[1] = "head" => splitBase(id[2]) # NoName
      /\ e.at = "store" /\ e.gen = gs[Prefix(id)] => Shows(id, e.data, objs, open)
CachedGood(id, e, gs, objs, open) ==
    /\ e.gen \in Int /\ e.gen <= gs[Prefix(id)]
    /\ e.gen = gs[Prefix(id)] /\ (id[1] = "head" => e.meta) => Shows(id, e.data, objs, open)

(* The inductive invariant of ListingCache. *)
ListingInv ==
    /\ DOMAIN objects = FsKey /\ roots \subseteq FsRoots /\ gens \in [Folders -> Nat]
    /\ DOMAIN fsCall = FsCall /\ DOMAIN flight = Tables /\ DOMAIN cached = Tables
    /\ \A c \in FsCall : CallGood(c, fsCall[c], gens)
    /\ \A id \in Tables : FlightGood(id, flight[id], gens, objects, OpenKeys)
    /\ \A id \in Tables : CachedGood(id, cached[id], gens, objects, OpenKeys)

(* What the bucket has below a prefix, seen through two maps that agree on it. *)
LEMMA ChildrenAgree ==
    ASSUME NEW o1, NEW o2, NEW p, \A k : Affects(p, k) => (k \in DOMAIN o1 /\ o1[k] # 0 <=> k \in DOMAIN o2 /\ o2[k] # 0),
           \A k : Affects(p, k) /\ k \in DOMAIN o1 /\ o1[k] # 0 => o1[k] = o2[k]
    PROVE  Children(o1, p) = Children(o2, p)
<1> DEFINE B(o) == {k \in DOMAIN o : o[k] # 0 /\ Below(p, k) /\ k[Len(p) + 1] # NoName}
           R(o, k) == [name |-> k[Len(p) + 1], version |-> IF Len(k) = Len(p) + 1 THEN o[k] ELSE 0]
<1>1. \A k : k \in B(o1) => k \in B(o2) /\ o1[k] = o2[k]
  BY Zenon DEF Affects
<1>2. \A k : k \in B(o2) => k \in B(o1)
  BY Zenon DEF Affects
<1>3. \A k \in B(o1) : R(o1, k) = R(o2, k)
  BY <1>1, Zenon
<1>4. Children(o1, p) = {R(o1, k) : k \in B(o1)} /\ Children(o2, p) = {R(o2, k) : k \in B(o2)}
  BY Zenon DEF Children
<1> HIDE DEF B, R
<1>5. {R(o1, k) : k \in B(o1)} = {R(o2, k) : k \in B(o2)}
  BY <1>1, <1>2, <1>3, Zenon
<1> QED
  BY <1>4, <1>5, Zenon

(* Equal element by element is equal. *)
LEMMA SamePath ==
    ASSUME NEW S, NEW s \in Seq(S), NEW t \in Seq(S), Len(s) = Len(t),
           \A i \in 1 .. Len(s) : s[i] = t[i]
    PROVE  s = t
<1>1. s = [i \in 1 .. Len(s) |-> s[i]] /\ t = [i \in 1 .. Len(t) |-> t[i]]
  OBVIOUS
<1> QED
  BY <1>1, Zenon

(* Paths: a folder is a sequence of names, and so is every folder above it. *)
LEMMA PrefixMeans ==
    ASSUME NEW S, NEW s \in Seq(S), NEW t \in Seq(S)
    PROVE  Under(s, t) <=> Len(s) <= Len(t) /\ \A n \in 1 .. Len(s) : s[n] = t[n]
<1>1. Len(s) \in Nat /\ Len(t) \in Nat
  OBVIOUS
<1>3. CASE Len(s) <= Len(t)
  <2> DEFINE u == SubSeq(t, 1, Len(s))
  <2>1. u \in Seq(S) /\ Len(u) = Len(s) /\ \A n \in 1 .. Len(s) : u[n] = t[n]
    BY <1>1, <1>3
  <2>2. (s = u) <=> \A n \in 1 .. Len(s) : s[n] = u[n]
    BY <2>1, SamePath
  <2> QED
    BY <1>3, <2>1, <2>2, Zenon DEF Under
<1> QED
  BY <1>3, Zenon DEF Under
LEMMA PrefixTransitive ==
    ASSUME NEW S, NEW s \in Seq(S), NEW t \in Seq(S), NEW u \in Seq(S), Under(s, t), Under(t, u)
    PROVE  Under(s, u)
<1>1. Len(s) \in Nat /\ Len(t) \in Nat /\ Len(u) \in Nat
  OBVIOUS
<1>2. Len(s) <= Len(t) /\ Len(t) <= Len(u)
  BY Zenon DEF Under
<1>3. Len(s) <= Len(u) /\ \A n \in 1 .. Len(s) : n \in 1 .. Len(t)
  BY <1>1, <1>2
<1>4. (\A n \in 1 .. Len(s) : s[n] = t[n]) /\ (\A n \in 1 .. Len(t) : t[n] = u[n])
  BY PrefixMeans
<1>5. \A n \in 1 .. Len(s) : s[n] = u[n]
  BY <1>3, <1>4, Zenon
<1> QED
  BY <1>3, <1>5, PrefixMeans, Zenon

(* ancestorPrefixes: the prefixes, no more and no less. *)
LEMMA AncestorsArePrefixes ==
    ASSUME NEW S, NEW t \in Seq(S)
    PROVE  \A s : s \in ancestorPrefixes(t) <=> s \in Seq(S) /\ Under(s, t)
<1>1. Len(t) \in Nat
  OBVIOUS
<1>2. ASSUME NEW n \in 0 .. Len(t) PROVE SubSeq(t, 1, n) \in Seq(S) /\ Under(SubSeq(t, 1, n), t)
  <2> DEFINE s == SubSeq(t, 1, n)
  <2>1. s \in Seq(S) /\ Len(s) = n /\ \A m \in 1 .. n : s[m] = t[m]
    BY <1>1
  <2>2. n <= Len(t)
    BY <1>1
  <2> HIDE DEF s
  <2>3. Under(s, t)
    BY <2>1, <2>2, PrefixMeans, Zenon
  <2> QED
    BY <2>1, <2>3, Zenon DEF s
<1>3. ASSUME NEW s \in Seq(S), Under(s, t) PROVE s = SubSeq(t, 1, Len(s)) /\ Len(s) \in 0 .. Len(t)
  <2>1. SubSeq(s, 1, Len(s)) = s /\ Len(s) \in Nat
    OBVIOUS
  <2>2. Len(s) <= Len(t)
    BY <1>3, Zenon DEF Under
  <2>3. Len(s) \in 0 .. Len(t)
    BY <1>1, <2>1, <2>2
  <2> QED
    BY <1>3, <2>1, <2>3, Zenon DEF Under
<1> QED
  BY <1>2, <1>3, Zenon DEF ancestorPrefixes

LEMMA SplitIsPath ==
    ASSUME NEW k \in Seq(STRING) \ {<<>>}
    PROVE  /\ splitKey(k) \in Seq(STRING) /\ Len(splitKey(k)) = Len(k) - 1 /\ Len(k) \in Nat \ {0}
           /\ \A n \in 1 .. Len(k) - 1 : splitKey(k)[n] = k[n]
<1>1. Len(k) \in Nat \ {0}
  OBVIOUS
<1>2. Len(k) - 1 \in Nat /\ 1 .. Len(k) - 1 \subseteq 1 .. Len(k)
  BY <1>1
<1> DEFINE f == SubSeq(k, 1, Len(k) - 1)
<1>3. f \in Seq(STRING) /\ Len(f) = Len(k) - 1 /\ \A n \in 1 .. Len(k) - 1 : f[n] = k[n]
  <2>1. \A n \in 1 .. Len(k) - 1 : k[n] \in STRING
    BY <1>2
  <2> DEFINE m == Len(k) - 1
  <2>2. m \in Nat /\ \A n \in 1 .. m : k[n] \in STRING
    BY <1>2, <2>1, Zenon
  <2>3. /\ SubSeq(k, 1, m) \in Seq(STRING) /\ Len(SubSeq(k, 1, m)) = m
        /\ \A n \in 1 .. m : SubSeq(k, 1, m)[n] = k[n]
    <3> HIDE DEF m
    <3> QED
      BY <2>2
  <2> QED
    BY <2>3, Zenon
<1> QED
  BY <1>1, <1>3, Zenon DEF splitKey
LEMMA FoldersArePaths ==
    /\ \A p \in Folders : p \in Seq(STRING)
    /\ \A p \in Folders, r \in Seq(STRING) : Under(r, p) => r \in Folders
    /\ \A k \in FsKey : splitKey(k) \in Folders
<1>1. \A k \in FsKey : splitKey(k) \in Seq(STRING)
  BY SplitIsPath, ListingCacheAssumption, Zenon
<1>2. \A k \in FsKey : \A p : p \in ancestorPrefixes(splitKey(k)) <=> p \in Seq(STRING) /\ Under(p, splitKey(k))
  BY <1>1, AncestorsArePrefixes, Zenon DEF splitKey
<1>3. \A p : p \in Folders <=> p \in Seq(STRING) /\ \E k \in FsKey : Under(p, splitKey(k))
  BY <1>2, Zenon DEF Folders
<1>4. \A p \in Folders, r \in Seq(STRING) : Under(r, p) => r \in Folders
  BY <1>1, <1>3, PrefixTransitive, Zenon
<1>5. \A k \in FsKey : Under(splitKey(k), splitKey(k))
  <2> TAKE k \in FsKey
  <2> DEFINE q == splitKey(k)
  <2> HIDE DEF q
  <2>1. q \in Seq(STRING)
    BY <1>1, Zenon DEF q
  <2>2. Under(q, q)
    BY <2>1 DEF Under
  <2> QED
    BY <2>2, Zenon DEF q
<1> QED
  BY <1>1, <1>3, <1>4, <1>5, Zenon

(* A folder whose listing shows a key is above the folder of the key; a marker
   shows only above its directory. *)
LEMMA AffectsAbove ==
    ASSUME NEW p \in Seq(STRING), NEW k \in Seq(STRING) \ {<<>>}, NEW q \in Seq(STRING) \ {<<>>},
           k = q \/ k = Append(q, NoName), Affects(p, k)
    PROVE  p \in ancestorPrefixes(splitKey(q))
<1>1. Len(p) \in Nat /\ Len(k) \in Nat /\ Len(q) \in Nat \ {0}
  BY SplitIsPath
<1>2. Under(p, k) /\ p # k /\ k[Len(p) + 1] # NoName
  BY Zenon DEF Affects, Below
<1>3. Len(p) <= Len(k) /\ \A n \in 1 .. Len(p) : p[n] = k[n]
  BY <1>2, PrefixMeans
<1>4. Len(p) # Len(k)
  BY <1>2, <1>3, SamePath
<1>5. Len(p) <= Len(q) - 1 /\ \A n \in 1 .. Len(p) : k[n] = q[n] /\ n \in 1 .. Len(q) - 1
  <2>1. CASE k = q
    BY <1>1, <1>3, <1>4, <2>1
  <2>2. CASE k = Append(q, NoName)
    <3>1. Len(k) = Len(q) + 1 /\ k[Len(q) + 1] = NoName /\ \A n \in 1 .. Len(q) : k[n] = q[n]
      <4> DEFINE S == STRING \union {NoName}
      <4>1. q \in Seq(S) /\ NoName \in S
        OBVIOUS
      <4> HIDE DEF S
      <4> QED
        BY <2>2, <4>1
    <3>2. Len(p) + 1 # Len(q) + 1
      BY <1>2, <3>1, Zenon
    <3>3. Len(p) <= Len(q) - 1
      BY <1>1, <1>3, <1>4, <3>1, <3>2
    <3>4. \A n \in 1 .. Len(p) : n \in 1 .. Len(q) - 1 /\ n \in 1 .. Len(q)
      BY <1>1, <3>3
    <3> QED
      BY <3>1, <3>3, <3>4, Zenon
  <2> QED
    BY <2>1, <2>2, Zenon
<1>6. splitKey(q) \in Seq(STRING) /\ Len(splitKey(q)) = Len(q) - 1 /\ \A n \in 1 .. Len(q) - 1 : splitKey(q)[n] = q[n]
  BY SplitIsPath, Zenon
<1>7. \A n \in 1 .. Len(p) : p[n] = splitKey(q)[n]
  BY <1>3, <1>5, <1>6, Zenon
<1>8. Under(p, splitKey(q))
  BY <1>5, <1>6, <1>7, PrefixMeans, Zenon
<1> QED
  BY <1>6, <1>8, AncestorsArePrefixes, Zenon

(* listSubtree shows every folder below its prefix as the bucket has it. *)
LEMMA SubtreeShows ==
    ASSUME NEW r \in Seq(STRING), NEW p \in Seq(STRING), Under(r, p), DOMAIN objects = FsKey
    PROVE  Children(Subtree(r), p) = Children(objects, p)
<1>1. ASSUME NEW k \in FsKey, Affects(p, k) PROVE Under(r, k)
  <2>1. Under(p, k) /\ k \in Seq(STRING)
    BY <1>1, ListingCacheAssumption, Zenon DEF Affects, Below
  <2> QED
    BY <2>1, PrefixTransitive, Zenon
<1> DEFINE o == Subtree(r)
<1>2. /\ \A k : k \in DOMAIN o <=> k \in FsKey /\ objects[k] # 0 /\ Under(r, k)
      /\ \A k \in DOMAIN o : o[k] = objects[k]
  BY Zenon DEF Subtree
<1> HIDE DEF o
<1>3. \A k : Affects(p, k) => (k \in DOMAIN o /\ o[k] # 0 <=> k \in DOMAIN objects /\ objects[k] # 0)
  BY <1>1, <1>2, Zenon
<1>4. \A k : Affects(p, k) /\ k \in DOMAIN o /\ o[k] # 0 => o[k] = objects[k]
  BY <1>2, Zenon
<1>5. Children(o, p) = Children(objects, p)
  BY <1>3, <1>4, ChildrenAgree, Zenon
<1> QED
  BY <1>5, Zenon DEF o

LEMMA TablesAre ==
    /\ \A id \in Tables : \/ id[1] \in {"listing", "subtree"} /\ id[2] \in Folders
                          \/ id[1] = "head" /\ id[2] \in FsKey
    /\ \A id \in Tables : Prefix(id) \in Folders
    /\ \A p \in Folders : <<"listing", p>> \in Tables /\ <<"subtree", p>> \in Tables
    /\ \A k \in FsKey : <<"head", k>> \in Tables
<1>1. \A id \in Tables : \/ id[1] \in {"listing", "subtree"} /\ id[2] \in Folders
                         \/ id[1] = "head" /\ id[2] \in FsKey
  BY DEF Tables
<1>2. "head" \notin {"listing", "subtree"}
  OBVIOUS
<1>3. \A id \in Tables : Prefix(id) \in Folders
  BY <1>1, <1>2, FoldersArePaths, Zenon DEF Prefix, splitKey
<1>4. \A p \in Folders : <<"listing", p>> \in Tables /\ <<"subtree", p>> \in Tables
  BY DEF Tables
<1>5. \A k \in FsKey : <<"head", k>> \in Tables
  BY DEF Tables
<1> QED
  BY <1>1, <1>3, <1>4, <1>5, Zenon

(* The keys a call at this place has still to invalidate. *)
OpenAt(c, at) ==
    IF at = "written" THEN {Written(c)} \union (IF c.op = "rename" THEN {c.to} ELSE {})
    ELSE IF at = "half" THEN {c.to} ELSE {}
LEMMA OpenKeysAre ==
    /\ OpenKeys = UNION {OpenAt(c, fsCall[c].at) : c \in FsCall}
    /\ OpenKeys' = UNION {OpenAt(c, fsCall'[c].at) : c \in FsCall}
<1>1. \A c \in FsCall : Unfinished(c) = OpenAt(c, fsCall[c].at)
  BY DEF Unfinished, OpenAt
<1>2. \A c \in FsCall : Unfinished(c)' = OpenAt(c, fsCall'[c].at)
  BY DEF Unfinished, OpenAt
<1>3. OpenKeys = UNION {OpenAt(c, fsCall[c].at) : c \in FsCall}
  BY <1>1, Zenon DEF OpenKeys
<1>4. OpenKeys' = UNION {OpenAt(c, fsCall'[c].at) : c \in FsCall}
  BY <1>2, Zenon DEF OpenKeys
<1> QED
  BY <1>3, <1>4, Zenon

(* A call that neither begins nor ends a write opens and closes no key. *)
LEMMA OpenKeysStay ==
    ASSUME \A c \in FsCall : \/ fsCall'[c].at = fsCall[c].at
                             \/ fsCall[c].at \notin {"written", "half"} /\ fsCall'[c].at \notin {"written", "half"}
    PROVE  OpenKeys' = OpenKeys
<1>1. \A at : at \notin {"written", "half"} => \A c : OpenAt(c, at) = {}
  BY Zenon DEF OpenAt
<1>2. \A c \in FsCall : OpenAt(c, fsCall'[c].at) = OpenAt(c, fsCall[c].at)
  BY <1>1, Zenon
<1> QED
  BY <1>2, OpenKeysAre, Zenon

(* A step that leaves the bucket and the generations alone and touches no write. *)
LEMMA ReadsKeep ==
    ASSUME ListingInv, UNCHANGED objects, UNCHANGED gens, roots' \subseteq FsRoots,
           DOMAIN fsCall' = FsCall, DOMAIN flight' = Tables, DOMAIN cached' = Tables,
           \A c \in FsCall : CallGood(c, fsCall'[c], gens),
           \A c \in FsCall : \/ fsCall'[c].at = fsCall[c].at
                             \/ fsCall[c].at \notin {"written", "half"} /\ fsCall'[c].at \notin {"written", "half"},
           \A id \in Tables : FlightGood(id, flight'[id], gens, objects, OpenKeys),
           \A id \in Tables : CachedGood(id, cached'[id], gens, objects, OpenKeys)
    PROVE  ListingInv'
<1>1. OpenKeys' = OpenKeys
  BY OpenKeysStay, Zenon
<1>2. (DOMAIN objects = FsKey /\ gens \in [Folders -> Nat])'
  BY Zenon DEF ListingInv
<1>3. \A id \in Tables : FlightGood(id, flight'[id], gens', objects', OpenKeys')
  BY <1>1, Zenon
<1>4. \A id \in Tables : CachedGood(id, cached'[id], gens', objects', OpenKeys')
  BY <1>1, Zenon
<1>5. \A c \in FsCall : CallGood(c, fsCall'[c], gens')
  BY Zenon
<1> QED
  BY <1>2, <1>3, <1>4, <1>5, Zenon DEF ListingInv

(* Where a read may be. *)
LEMMA ReadStages ==
    ASSUME NEW c \in FsCall, NEW gs
    PROVE  /\ CallGood(c, Done, gs) /\ Done.at \notin {"written", "half"}
           /\ \A id \in Tables : c.op \in FsReads /\ (id[1] = "head" => splitBase(id[2]) # NoName)
                => CallGood(c, Consult(id), gs) /\ Consult(id).at \notin {"written", "half"}
<1>1. Done.at = "done" /\ \A id : Consult(id).at = "gen" /\ Consult(id).on = id
  BY DEF Done, Consult
<1>2. "done" \notin {"gen", "look", "wait", "written", "half"} /\ "gen" \notin {"look", "written", "half"}
      /\ "done" # "look" /\ "done" # "half" /\ "gen" # "half" /\ "gen" # "look" /\ "done" \notin {"written", "half"}
      /\ "gen" \notin {"written", "half"} /\ "done" \notin {"gen", "look", "wait"}
  OBVIOUS
<1>3. CallGood(c, Done, gs)
  BY <1>1, <1>2, Zenon DEF CallGood
<1>4. ASSUME NEW id \in Tables, c.op \in FsReads, id[1] = "head" => splitBase(id[2]) # NoName
      PROVE  CallGood(c, Consult(id), gs)
  <2> DEFINE s == Consult(id)
  <2>1. s.at = "gen" /\ s.on = id
    BY <1>1, Zenon
  <2> HIDE DEF s
  <2>2. CallGood(c, s, gs)
    BY <1>2, <1>4, <2>1, Zenon DEF CallGood
  <2> QED
    BY <2>2, Zenon DEF s
<1> QED
  BY <1>1, <1>2, <1>3, <1>4, Zenon

LEMMA FoldersRead ==
    ASSUME NEW c \in FsCall, c.op \in {"stat", "readdir"}
    PROVE  Folder(c) \in Folders /\ (c.op = "stat" => c.key \in FsKey /\ splitBase(c.key) # NoName)
<1>1. c.op = "stat" => c.op # "readdir" /\ c.op \in {"stat", "put", "remove", "rename"}
  OBVIOUS
<1> QED
  BY <1>1, FoldersArePaths, ListingCacheAssumption, Zenon DEF Folder, splitKey

LEMMA ListGood ==
    ASSUME ListingInv, NEW c \in FsCall, c.op \in FsReads, NEW p \in Folders
    PROVE  CallGood(c, List(p), gens) /\ List(p).at \notin {"written", "half"}
<1> DEFINE r == CHOOSE r \in recursiveRoot(p) : TRUE
           id == IF recursiveRoot(p) = {} THEN <<"listing", p>> ELSE <<"subtree", r>>
<1>1. ASSUME recursiveRoot(p) # {} PROVE r \in Folders
  <2>1. r \in recursiveRoot(p)
    BY <1>1, Zenon
  <2> HIDE DEF r
  <2>2. r \in Seq(STRING) /\ Under(r, p)
    BY <2>1, ListingCacheAssumption, Zenon DEF recursiveRoot, ListingInv
  <2> QED
    BY <2>2, FoldersArePaths, Zenon
<1> HIDE DEF r
<1>2. id \in Tables
  BY <1>1, TablesAre, Zenon
<1>3. id[1] # "head"
  OBVIOUS
<1>4. List(p) = Consult(id)
  BY Zenon DEF List, r
<1> HIDE DEF id
<1> QED
  BY <1>2, <1>3, <1>4, ReadStages, Zenon

LEMMA ProceedGood ==
    ASSUME NEW c \in FsCall, c.op \in FsReads, NEW id, NEW data, NEW ok, NEW gs
    PROVE  CallGood(c, Proceed(c, id, data, ok), gs) /\ Proceed(c, id, data, ok).at \notin {"written", "half"}
<1> DEFINE l == <<"listing", Folder(c)>>
           h == <<"head", c.key>>
           s == Proceed(c, id, data, ok)
<1>1. s \in {Done, Consult(l)} \/ (c.op = "stat" /\ s = Consult(h))
  BY Zenon DEF Proceed, Resolved
<1>2. s = Done \/ c.op \in {"stat", "readdir"}
  <2>1. c.op = "warm" \/ c.op \in {"stat", "readdir"}
    BY DEF FsReads
  <2> QED
    BY <2>1, Zenon DEF Proceed
<1> SUFFICES CallGood(c, s, gs) /\ s.at \notin {"written", "half"}
  BY Zenon
<1> HIDE DEF s
<1>3. CASE s = Done
  BY <1>3, ReadStages, Zenon
<1>4. CASE s # Done
  <2>1. Folder(c) \in Folders /\ (c.op = "stat" => c.key \in FsKey /\ splitBase(c.key) # NoName)
    BY <1>2, <1>4, FoldersRead, Zenon
  <2>2. l \in Tables /\ (c.op = "stat" => h \in Tables)
    BY <2>1, TablesAre, Zenon
  <2>3. l[1] # "head" /\ h[2] = c.key
    OBVIOUS
  <2> HIDE DEF l, h
  <2>4. CASE s = Consult(l)
    BY <2>2, <2>3, <2>4, ReadStages, Zenon
  <2>5. CASE c.op = "stat" /\ s = Consult(h)
    BY <2>1, <2>2, <2>3, <2>5, ReadStages, Zenon
  <2> QED
    BY <1>1, <1>4, <2>4, <2>5, Zenon
<1> QED
  BY <1>3, <1>4, Zenon

(* One call moves on, to a place that is good for it. *)
LEMMA CallMoves ==
    ASSUME ListingInv, NEW c \in FsCall, NEW s, fsCall' = [fsCall EXCEPT ![c] = s], CallGood(c, s, gens),
           fsCall[c].at \notin {"written", "half"}, s.at \notin {"written", "half"}
    PROVE  /\ DOMAIN fsCall' = FsCall /\ \A d \in FsCall : CallGood(d, fsCall'[d], gens)
           /\ \A d \in FsCall : \/ fsCall'[d].at = fsCall[d].at
                                \/ fsCall[d].at \notin {"written", "half"} /\ fsCall'[d].at \notin {"written", "half"}
<1>1. DOMAIN fsCall' = FsCall /\ fsCall'[c] = s /\ \A d \in FsCall : d # c => fsCall'[d] = fsCall[d]
  BY Zenon DEF ListingInv
<1> QED
  BY <1>1, Zenon DEF ListingInv

LEMMA RegisterRootKeeps == ASSUME ListingInv, NEW r \in FsRoots, RegisterRoot(r) PROVE ListingInv'
<1>1. roots' \subseteq FsRoots
  BY Zenon DEF RegisterRoot, ListingInv
<1>2. UNCHANGED <<objects, gens, cached, flight, fsCall>>
  BY Zenon DEF RegisterRoot
<1>3. OpenKeys' = OpenKeys
  BY <1>2, OpenKeysStay, Zenon
<1> QED
  BY <1>1, <1>2, <1>3, ReadsKeep, Zenon DEF ListingInv

LEMMA NotBegunAt == NotBegun.at \notin {"written", "half"}
BY DEF NotBegun

(* Stat, Open, ReadDir and the warmer begin. *)
LEMMA BeginKeeps ==
    ASSUME ListingInv, NEW c \in FsCall, BeginRead(c) \/ \E p \in Folders : Warm(c, p)
    PROVE  ListingInv'
<1>1. UNCHANGED <<objects, gens, cached, flight, roots>> /\ fsCall[c] = NotBegun
  BY Zenon DEF BeginRead, Warm
<1>2. PICK s : fsCall' = [fsCall EXCEPT ![c] = s] /\ CallGood(c, s, gens) /\ s.at \notin {"written", "half"}
  <2>1. CASE BeginRead(c)
    <3>1. c.op \in {"stat", "readdir"} /\ fsCall' = [fsCall EXCEPT ![c] = List(Folder(c))]
      BY <2>1, Zenon DEF BeginRead
    <3>2. c.op \in FsReads
      BY <3>1 DEF FsReads
    <3> QED
      BY <3>1, <3>2, FoldersRead, ListGood, Zenon
  <2>2. ASSUME NEW p \in Folders, Warm(c, p)
        PROVE  \E s : fsCall' = [fsCall EXCEPT ![c] = s] /\ CallGood(c, s, gens) /\ s.at \notin {"written", "half"}
    <3>1. c.op = "warm" /\ (fsCall' = [fsCall EXCEPT ![c] = List(p)] \/ fsCall' = [fsCall EXCEPT ![c] = Done])
      BY <2>2, Zenon DEF Warm
    <3>2. c.op \in FsReads
      BY <3>1 DEF FsReads
    <3> QED
      BY <3>1, <3>2, ListGood, ReadStages, Zenon
  <2> QED
    BY <2>1, <2>2, Zenon
<1>3. fsCall[c].at \notin {"written", "half"}
  BY <1>1, NotBegunAt, Zenon
<1>4. /\ DOMAIN fsCall' = FsCall /\ \A d \in FsCall : CallGood(d, fsCall'[d], gens)
      /\ \A d \in FsCall : \/ fsCall'[d].at = fsCall[d].at
                           \/ fsCall[d].at \notin {"written", "half"} /\ fsCall'[d].at \notin {"written", "half"}
  BY <1>2, <1>3, CallMoves, Zenon
<1> QED
  BY <1>1, <1>4, ReadsKeep, Zenon DEF ListingInv

LEMMA GensKnown == ASSUME ListingInv, NEW id \in Tables PROVE gens[Prefix(id)] \in Nat /\ gens[Prefix(id)] \in Int
<1>1. gens[Prefix(id)] \in Nat
  BY TablesAre, Zenon DEF ListingInv
<1> QED
  BY <1>1

LEMMA ReadGenKeeps == ASSUME ListingInv, NEW c \in FsCall, ReadGen(c) PROVE ListingInv'
<1> DEFINE id == fsCall[c].on
           n == gens[Prefix(id)]
           s == [at |-> "look", on |-> id, gen |-> n]
<1>1. UNCHANGED <<objects, gens, cached, flight, roots>> /\ fsCall[c].at = "gen" /\ fsCall' = [fsCall EXCEPT ![c] = s]
  BY Zenon DEF ReadGen
<1>2. "gen" \notin {"written", "half"} /\ "look" \notin {"written", "half"} /\ "look" # "half"
      /\ "look" \in {"gen", "look", "wait"} /\ "gen" \in {"gen", "look", "wait"}
  OBVIOUS
<1>3. c.op \in FsReads /\ id \in Tables /\ (id[1] = "head" => splitBase(id[2]) # NoName)
  BY <1>1, <1>2, Zenon DEF ListingInv, CallGood
<1>4. n \in Int /\ n <= n
  <2>1. n \in Int
    BY <1>3, GensKnown, Zenon
  <2> HIDE DEF n
  <2> QED
    BY <2>1
<1> HIDE DEF id
<1>5. s.at = "look" /\ s.on = id /\ s.gen = n
  BY Zenon
<1>6. n = gens[Prefix(id)]
  BY Zenon
<1> HIDE DEF s, n
<1>7. CallGood(c, s, gens)
  BY <1>2, <1>3, <1>4, <1>5, <1>6, Zenon DEF CallGood
<1>8. fsCall[c].at \notin {"written", "half"} /\ s.at \notin {"written", "half"}
  BY <1>1, <1>2, <1>5, Zenon
<1>9. /\ DOMAIN fsCall' = FsCall /\ \A d \in FsCall : CallGood(d, fsCall'[d], gens)
      /\ \A d \in FsCall : \/ fsCall'[d].at = fsCall[d].at
                           \/ fsCall[d].at \notin {"written", "half"} /\ fsCall'[d].at \notin {"written", "half"}
  BY <1>1, <1>7, <1>8, CallMoves, Zenon
<1> QED
  BY <1>1, <1>9, ReadsKeep, Zenon DEF ListingInv

(* listFolder, subtree, headLoad: a hit goes on, a miss waits for a fill of the
   generation it read. *)
LEMMA LookKeeps == ASSUME ListingInv, NEW c \in FsCall, Look(c) PROVE ListingInv'
<1> DEFINE id == fsCall[c].on
           gen == fsCall[c].gen
           e == [at |-> "list", gen |-> gen]
           s == [at |-> "wait", on |-> id]
           p == Proceed(c, id, cached[id].data, TRUE)
<1>1. /\ UNCHANGED <<objects, gens, cached, roots>> /\ fsCall[c].at = "look"
      /\ \/ fsCall' = [fsCall EXCEPT ![c] = p] /\ UNCHANGED flight
         \/ /\ fsCall' = [fsCall EXCEPT ![c] = s]
            /\ flight' = [flight EXCEPT ![id] = e] \/ UNCHANGED flight
  BY Zenon DEF Look
<1>2. "look" \notin {"written", "half"} /\ "wait" \notin {"written", "half"} /\ "look" \in {"gen", "look", "wait"}
      /\ "wait" # "look" /\ "wait" # "half" /\ "wait" \in {"gen", "look", "wait"} /\ "list" # "store"
  OBVIOUS
<1>3. /\ c.op \in FsReads /\ id \in Tables /\ (id[1] = "head" => splitBase(id[2]) # NoName)
      /\ gen \in Int /\ gen <= gens[Prefix(id)]
  BY <1>1, <1>2, Zenon DEF ListingInv, CallGood
<1>4. CallGood(c, p, gens) /\ p.at \notin {"written", "half"}
  BY <1>3, ProceedGood, Zenon
<1> HIDE DEF id, gen, p
<1>5. s.at = "wait" /\ s.on = id /\ e.at = "list" /\ e.gen = gen /\ DOMAIN e = {"at", "gen"}
  BY Zenon
<1> HIDE DEF s, e
<1>6. CallGood(c, s, gens) /\ s.at \notin {"written", "half"}
  BY <1>2, <1>3, <1>5, Zenon DEF CallGood
<1>7. FlightGood(id, e, gens, objects, OpenKeys)
  BY <1>2, <1>3, <1>5, Zenon DEF FlightGood
<1>8. DOMAIN flight' = Tables /\ \A i \in Tables : flight'[i] = flight[i] \/ (i = id /\ flight'[i] = e)
  BY <1>1, <1>3, Zenon DEF ListingInv
<1>9. \A i \in Tables : FlightGood(i, flight'[i], gens, objects, OpenKeys)
  BY <1>7, <1>8, Zenon DEF ListingInv
<1>10. fsCall[c].at \notin {"written", "half"}
  BY <1>1, <1>2, Zenon
<1>11. /\ DOMAIN fsCall' = FsCall /\ \A d \in FsCall : CallGood(d, fsCall'[d], gens)
       /\ \A d \in FsCall : \/ fsCall'[d].at = fsCall[d].at
                            \/ fsCall[d].at \notin {"written", "half"} /\ fsCall'[d].at \notin {"written", "half"}
  <2>1. CASE fsCall' = [fsCall EXCEPT ![c] = p]
    BY <1>4, <1>10, <2>1, CallMoves, Zenon
  <2>2. CASE fsCall' = [fsCall EXCEPT ![c] = s]
    BY <1>6, <1>10, <2>2, CallMoves, Zenon
  <2> QED
    BY <1>1, <2>1, <2>2, Zenon
<1> QED
  BY <1>1, <1>8, <1>9, <1>11, ReadsKeep, Zenon DEF ListingInv

(* The request: what it returns is what the bucket has. *)
LEMMA ListObjectsKeeps == ASSUME ListingInv, NEW id \in Tables, ListObjects(id) PROVE ListingInv'
<1> DEFINE d == CASE id[1] = "listing" -> Children(objects, id[2])
                  [] id[1] = "subtree" -> Subtree(id[2])
                  [] id[1] = "head"    -> objects[id[2]]
           e == [at |-> "store", gen |-> flight[id].gen, data |-> d]
<1>1. /\ UNCHANGED <<objects, gens, cached, roots, fsCall>> /\ flight[id] # Nothing
      /\ flight' = [flight EXCEPT ![id] = e]
  BY Zenon DEF ListObjects
<1>2. /\ flight[id].gen \in Int /\ flight[id].gen <= gens[Prefix(id)] /\ (id[1] = "head" => splitBase(id[2]) # NoName)
  BY <1>1, Zenon DEF ListingInv, FlightGood
<1>3. /\ id[1] = "listing" => d = Children(objects, id[2])
      /\ id[1] = "subtree" => d = Subtree(id[2])
      /\ id[1] = "head" => d = objects[id[2]]
  OBVIOUS
<1> HIDE DEF d
<1>4. id[1] = "subtree" => id[2] \in Folders
  <2>1. "subtree" # "head"
    OBVIOUS
  <2> QED
    BY <2>1, TablesAre, Zenon
<1>5. ASSUME id[1] = "subtree", NEW p \in Folders, Under(id[2], p) PROVE Children(d, p) = Children(objects, p)
  BY <1>3, <1>4, <1>5, FoldersArePaths, SubtreeShows, Zenon DEF ListingInv
<1>6. Shows(id, d, objects, OpenKeys)
  BY <1>2, <1>3, <1>5, Zenon DEF Shows
<1>7. e.gen = flight[id].gen /\ e.data = d /\ DOMAIN e = {"at", "gen", "data"}
  BY Zenon
<1> HIDE DEF e
<1>8. FlightGood(id, e, gens, objects, OpenKeys)
  BY <1>2, <1>6, <1>7, Zenon DEF FlightGood
<1>9. DOMAIN flight' = Tables /\ flight'[id] = e /\ \A i \in Tables : i # id => flight'[i] = flight[i]
  BY <1>1, Zenon DEF ListingInv
<1>10. \A i \in Tables : FlightGood(i, flight'[i], gens, objects, OpenKeys)
  BY <1>8, <1>9, Zenon DEF ListingInv
<1> QED
  BY <1>1, <1>9, <1>10, ReadsKeep, Zenon DEF ListingInv

(* The end of a fill, whatever its outcome. *)
LEMMA EndFlightMoves ==
    ASSUME ListingInv, NEW id \in Tables, NEW data, NEW ok, EndFlight(id, data, ok)
    PROVE  /\ DOMAIN fsCall' = FsCall /\ \A d \in FsCall : CallGood(d, fsCall'[d], gens)
           /\ \A d \in FsCall : \/ fsCall'[d].at = fsCall[d].at
                                \/ fsCall[d].at \notin {"written", "half"} /\ fsCall'[d].at \notin {"written", "half"}
           /\ DOMAIN flight' = Tables /\ \A i \in Tables : FlightGood(i, flight'[i], gens, objects, OpenKeys)
<1>1. /\ DOMAIN fsCall' = FsCall
      /\ \A d \in FsCall : \/ fsCall[d].at = "wait" /\ fsCall'[d] = Proceed(d, id, data, ok)
                           \/ fsCall'[d] = fsCall[d]
  BY Zenon DEF EndFlight
<1>2. "wait" \notin {"written", "half"} /\ "wait" \in {"gen", "look", "wait"}
  OBVIOUS
<1>3. \A d \in FsCall : fsCall[d].at = "wait" => d.op \in FsReads
  BY <1>2, Zenon DEF ListingInv, CallGood
<1>4. \A d \in FsCall : CallGood(d, fsCall'[d], gens)
  BY <1>1, <1>3, ProceedGood, Zenon DEF ListingInv
<1>5. \A d \in FsCall : \/ fsCall'[d].at = fsCall[d].at
                        \/ fsCall[d].at \notin {"written", "half"} /\ fsCall'[d].at \notin {"written", "half"}
  BY <1>1, <1>2, <1>3, ProceedGood, Zenon
<1>6. DOMAIN flight' = Tables /\ flight'[id] = Nothing /\ \A i \in Tables : i # id => flight'[i] = flight[i]
  BY Zenon DEF ListingInv, EndFlight
<1>7. \A i \in Tables : FlightGood(i, flight'[i], gens, objects, OpenKeys)
  BY <1>6, Zenon DEF ListingInv, FlightGood
<1> QED
  BY <1>1, <1>4, <1>5, <1>6, <1>7, Zenon

LEMMA ListingFailsKeeps == ASSUME ListingInv, NEW id \in Tables, ListingFails(id) PROVE ListingInv'
<1>1. EndFlight(id, 0, FALSE) /\ UNCHANGED <<objects, gens, cached, roots>>
  BY Zenon DEF ListingFails
<1> QED
  BY <1>1, EndFlightMoves, ReadsKeep, Zenon DEF ListingInv

LEMMA ExpireKeeps == ASSUME ListingInv, NEW id \in Tables, Expire(id) PROVE ListingInv'
<1>1. UNCHANGED <<objects, gens, flight, roots, fsCall>> /\ cached' = [cached EXCEPT ![id] = Nothing]
  BY Zenon DEF Expire
<1>2. DOMAIN cached' = Tables /\ \A i \in Tables : cached'[i] = Nothing \/ cached'[i] = cached[i]
  BY <1>1, Zenon DEF ListingInv
<1>3. ASSUME NEW i \in Tables PROVE CachedGood(i, Nothing, gens, objects, OpenKeys)
  <2> DEFINE n == gens[Prefix(i)]
             m == Nothing.gen
  <2>1. n \in Nat /\ m = -1
    BY GensKnown, Zenon DEF Nothing
  <2> HIDE DEF n, m
  <2>2. m \in Int /\ m <= n /\ m # n
    BY <2>1
  <2> QED
    BY <2>2, Zenon DEF n, m, CachedGood
<1>4. \A i \in Tables : CachedGood(i, cached'[i], gens, objects, OpenKeys)
  BY <1>2, <1>3, Zenon DEF ListingInv
<1> QED
  BY <1>1, <1>2, <1>4, ReadsKeep, Zenon DEF ListingInv

(* store: the entry takes the generation its fill began with. *)
LEMMA StoreKeeps == ASSUME ListingInv, NEW id \in Tables, Store(id) PROVE ListingInv'
<1> DEFINE f == flight[id]
           r == [gen |-> f.gen, data |-> f.data, meta |-> id[1] = "head"]
           e == [f EXCEPT !.at = "seed"]
<1>1. /\ UNCHANGED <<objects, gens, roots>> /\ f # Nothing /\ f.at = "store"
      /\ cached' = [cached EXCEPT ![id] = r]
      /\ \/ EndFlight(id, f.data, TRUE)
         \/ flight' = [flight EXCEPT ![id].at = "seed"] /\ UNCHANGED fsCall
  BY Zenon DEF Store
<1>2. FlightGood(id, f, gens, objects, OpenKeys)
  BY Zenon DEF ListingInv
<1>3. DOMAIN cached' = Tables /\ cached'[id] = r /\ \A i \in Tables : i # id => cached'[i] = cached[i]
  BY <1>1, Zenon DEF ListingInv
<1>4. flight' = [flight EXCEPT ![id].at = "seed"] => flight' = [flight EXCEPT ![id] = e]
  BY Zenon DEF ListingInv
<1> HIDE DEF f
<1>5. r.gen = f.gen /\ r.data = f.data
  BY Zenon
<1> HIDE DEF r
<1>6. CachedGood(id, r, gens, objects, OpenKeys)
  BY <1>1, <1>2, <1>5, Zenon DEF FlightGood, CachedGood
<1>7. \A i \in Tables : CachedGood(i, cached'[i], gens, objects, OpenKeys)
  BY <1>3, <1>6, Zenon DEF ListingInv
<1>8. CASE EndFlight(id, f.data, TRUE)
  BY <1>1, <1>3, <1>7, <1>8, EndFlightMoves, ReadsKeep, Zenon DEF ListingInv
<1>9. CASE flight' = [flight EXCEPT ![id].at = "seed"] /\ UNCHANGED fsCall
  <2>1. {"at", "gen"} \subseteq DOMAIN f
    BY <1>1, <1>2, Zenon DEF FlightGood
  <2>2. "at" \in DOMAIN f /\ "gen" \in DOMAIN f /\ "at" # "gen" /\ "seed" # "store"
    BY <2>1
  <2>3. e.at = "seed" /\ e.gen = f.gen /\ DOMAIN e = DOMAIN f
    BY <2>2, Zenon
  <2> HIDE DEF e
  <2>4. FlightGood(id, e, gens, objects, OpenKeys)
    BY <1>1, <1>2, <2>2, <2>3, Zenon DEF FlightGood
  <2>5. DOMAIN flight' = Tables /\ flight'[id] = e /\ \A i \in Tables : i # id => flight'[i] = flight[i]
    BY <1>4, <1>9, Zenon DEF ListingInv
  <2>6. \A i \in Tables : FlightGood(i, flight'[i], gens, objects, OpenKeys)
    BY <2>4, <2>5, Zenon DEF ListingInv
  <2> QED
    BY <1>1, <1>3, <1>7, <1>9, <2>5, <2>6, ReadsKeep, Zenon DEF ListingInv
<1> QED
  BY <1>1, <1>8, <1>9, Zenon

(* seedHeads: a head without a promise. *)
LEMMA SeedKeeps == ASSUME ListingInv, NEW id \in Tables, Seed(id) PROVE ListingInv'
<1> DEFINE data == flight[id].data
           S(i) == [gen |-> gens[splitKey(i[2])], data |-> Version(id, data, i[2]), meta |-> FALSE]
<1>1. /\ UNCHANGED <<objects, gens, roots>> /\ EndFlight(id, data, TRUE) /\ DOMAIN cached' = Tables
      /\ \A i \in Tables : cached'[i] = cached[i] \/ (i[1] = "head" /\ cached'[i] = S(i))
  BY Zenon DEF Seed
<1>2. ASSUME NEW i \in Tables, i[1] = "head" PROVE CachedGood(i, S(i), gens, objects, OpenKeys)
  <2> DEFINE s == S(i)
             n == gens[Prefix(i)]
  <2>1. n \in Int
    BY GensKnown, Zenon
  <2>2. s.gen = n /\ s.meta = FALSE
    BY <1>2, Zenon DEF Prefix
  <2> HIDE DEF n
  <2>3. n <= n
    BY <2>1
  <2> HIDE DEF s, S
  <2>4. CachedGood(i, s, gens, objects, OpenKeys)
    BY <1>2, <2>1, <2>2, <2>3, Zenon DEF CachedGood, n
  <2> QED
    BY <2>4, Zenon DEF s
<1> HIDE DEF S, data
<1>3. \A i \in Tables : CachedGood(i, cached'[i], gens, objects, OpenKeys)
  BY <1>1, <1>2, Zenon DEF ListingInv
<1> QED
  BY <1>1, <1>3, EndFlightMoves, ReadsKeep, Zenon DEF ListingInv

LEMMA WriteFailsKeeps == ASSUME ListingInv, NEW c \in FsCall, WriteFails(c) PROVE ListingInv'
<1>1. UNCHANGED <<objects, gens, roots, cached, flight>> /\ fsCall[c] = NotBegun /\ fsCall' = [fsCall EXCEPT ![c] = Done]
  BY Zenon DEF WriteFails
<1>2. fsCall[c].at \notin {"written", "half"}
  BY <1>1, NotBegunAt, Zenon
<1> QED
  BY <1>1, <1>2, ReadStages, CallMoves, ReadsKeep, Zenon DEF ListingInv

(* A step after which whatever was current and still is shows the bucket. *)
LEMMA WritesKeep ==
    ASSUME ListingInv, gens' \in [Folders -> Nat], \A p \in Folders : gens[p] <= gens'[p],
           DOMAIN objects' = FsKey, UNCHANGED roots, UNCHANGED flight, UNCHANGED cached,
           \A id \in Tables : \A data : gens'[Prefix(id)] = gens[Prefix(id)] /\ Shows(id, data, objects, OpenKeys)
                                          => Shows(id, data, objects', OpenKeys'),
           DOMAIN fsCall' = FsCall, NEW c \in FsCall, NEW s, \A d \in FsCall : d # c => fsCall'[d] = fsCall[d],
           fsCall'[c] = s, CallGood(c, s, gens)
    PROVE  ListingInv'
<1>1. \A id \in Tables : \A n \in Int : n <= gens[Prefix(id)]
        => n <= gens'[Prefix(id)] /\ (n = gens'[Prefix(id)] => n = gens[Prefix(id)] /\ gens'[Prefix(id)] = gens[Prefix(id)])
  <2>1. ASSUME NEW a \in Nat, NEW b \in Nat, a <= b, NEW n \in Int, n <= a PROVE n <= b /\ (n = b => n = a /\ b = a)
    BY <2>1
  <2>2. \A id \in Tables : gens[Prefix(id)] \in Nat /\ gens'[Prefix(id)] \in Nat /\ gens[Prefix(id)] <= gens'[Prefix(id)]
    BY TablesAre, Zenon DEF ListingInv
  <2> QED
    BY <2>1, <2>2, Zenon
<1>2. \A id \in Tables : FlightGood(id, flight[id], gens, objects, OpenKeys) => FlightGood(id, flight[id], gens', objects', OpenKeys')
  BY <1>1, Zenon DEF FlightGood
<1>3. \A id \in Tables : CachedGood(id, cached[id], gens, objects, OpenKeys) => CachedGood(id, cached[id], gens', objects', OpenKeys')
  BY <1>1, Zenon DEF CachedGood
<1>4. ASSUME NEW d, NEW t, CallGood(d, t, gens) PROVE CallGood(d, t, gens')
  <2>1. "look" \in {"gen", "look", "wait"}
    OBVIOUS
  <2> QED
    BY <1>1, <1>4, <2>1, Zenon DEF CallGood
<1>5. \A d \in FsCall : CallGood(d, fsCall'[d], gens')
  BY <1>4, Zenon DEF ListingInv
<1> QED
  BY <1>2, <1>3, <1>5, Zenon DEF ListingInv

(* A write: it changes only keys that are open from then on. *)
LEMMA ShowsThroughWrite ==
    ASSUME NEW objs, NEW objs2, NEW open, NEW open2, DOMAIN objs = FsKey, DOMAIN objs2 = FsKey, open \subseteq open2,
           \A k \in FsKey : objs2[k] = objs[k] \/ k \in open2,
           NEW id \in Tables, NEW data, Shows(id, data, objs, open)
    PROVE  Shows(id, data, objs2, open2)
<1>1. ASSUME NEW p, Quiet(p, open2) PROVE Quiet(p, open) /\ Children(objs, p) = Children(objs2, p)
  <2>1. Quiet(p, open)
    BY <1>1, Zenon DEF Quiet
  <2>2. \A k \in FsKey : Affects(p, k) => objs2[k] = objs[k]
    BY <1>1, Zenon DEF Quiet
  <2>3. \A k : Affects(p, k) => (k \in DOMAIN objs /\ objs[k] # 0 <=> k \in DOMAIN objs2 /\ objs2[k] # 0)
    BY <2>2, Zenon
  <2>4. \A k : Affects(p, k) /\ k \in DOMAIN objs /\ objs[k] # 0 => objs[k] = objs2[k]
    BY <2>2, Zenon
  <2>5. Children(objs, p) = Children(objs2, p)
    BY <2>3, <2>4, ChildrenAgree, Zenon
  <2> QED
    BY <2>1, <2>5, Zenon
<1>2. id[1] = "listing" => (Quiet(id[2], open2) => data = Children(objs2, id[2]))
  BY <1>1, Zenon DEF Shows
<1>3. id[1] = "subtree" => \A p \in Folders : Under(id[2], p) /\ Quiet(p, open2) => Children(data, p) = Children(objs2, p)
  BY <1>1, Zenon DEF Shows
<1>4. id[1] = "head" => splitBase(id[2]) # NoName /\ (id[2] \in open2 \/ data = objs2[id[2]])
  <2>1. id[1] = "head" => id[2] \in FsKey
    <3>1. "head" \notin {"listing", "subtree"}
      OBVIOUS
    <3> QED
      BY <3>1, TablesAre, Zenon
  <2> QED
    BY <2>1, Zenon DEF Shows
<1> QED
  BY <1>2, <1>3, <1>4, Zenon DEF Shows

LEMMA WriteKeys ==
    ASSUME NEW c \in FsCall, c.op \in FsWrites
    PROVE  /\ Written(c) \in FsKey /\ (c.op = "rename" => c.to \in FsKey /\ c.key \in FsKey)
           /\ c.key \in Seq(STRING) \ {<<>>} /\ (c.op # "mkdir" => Written(c) = c.key)
<1>1. c.op = "mkdir" \/ c.op \in {"stat", "put", "remove", "rename"}
  BY DEF FsWrites
<1>2. c.op = "rename" => c.op # "mkdir" /\ c.op \in {"stat", "put", "remove", "rename"}
  OBVIOUS
<1> QED
  BY <1>1, <1>2, ListingCacheAssumption, Zenon DEF Written

LEMMA WriteKeeps == ASSUME ListingInv, NEW c \in FsCall, WriteObject(c) PROVE ListingInv'
<1> DEFINE k == Written(c)
           s == [at |-> "written"]
<1>1. /\ UNCHANGED <<gens, roots, cached, flight>> /\ fsCall[c] = NotBegun /\ fsCall' = [fsCall EXCEPT ![c] = s]
      /\ c.op \in FsWrites
  BY Zenon DEF WriteObject, FsWrites
<1>2. k \in FsKey /\ (c.op = "rename" => c.to \in FsKey)
  BY <1>1, WriteKeys, Zenon
<1>3. \/ \E v : objects' = [objects EXCEPT ![k] = v]
      \/ c.op = "rename" /\ \E v : objects' = [objects EXCEPT ![k] = 0, ![c.to] = v]
  <2>1. CASE c.op \in {"put", "mkdir"}
    <3>1. objects' = [objects EXCEPT ![k] = 1 + objects[k]]
      BY <2>1 DEF WriteObject
    <3> QED
      BY <3>1, Zenon
  <2>2. CASE c.op = "remove"
    <3>1. objects' = [objects EXCEPT ![k] = 0]
      BY <2>2 DEF WriteObject
    <3> QED
      BY <3>1, Zenon
  <2>3. CASE c.op = "rename"
    <3>1. objects' = [objects EXCEPT ![k] = 0, ![c.to] = 1 + objects[c.to]]
      BY <2>3 DEF WriteObject
    <3> QED
      BY <2>3, <3>1, Zenon
  <2> QED
    BY <1>1, <2>1, <2>2, <2>3, Zenon DEF FsWrites
<1> HIDE DEF k
<1>4. DOMAIN objects' = FsKey /\ \A j \in FsKey : objects'[j] = objects[j] \/ j = k \/ (c.op = "rename" /\ j = c.to)
  BY <1>2, <1>3, Zenon DEF ListingInv
<1>5. s.at = "written"
  BY Zenon
<1> HIDE DEF s
<1>6. DOMAIN fsCall' = FsCall /\ fsCall'[c] = s /\ \A d \in FsCall : d # c => fsCall'[d] = fsCall[d]
  BY <1>1, Zenon DEF ListingInv
<1>7. OpenAt(c, fsCall[c].at) = {}
  BY <1>1, NotBegunAt, Zenon DEF OpenAt
<1>8. OpenKeys \subseteq OpenKeys'
  BY <1>6, <1>7, OpenKeysAre, Zenon
<1>9. k \in OpenAt(c, "written") /\ (c.op = "rename" => c.to \in OpenAt(c, "written"))
  BY Zenon DEF OpenAt, k
<1>10. k \in OpenKeys' /\ (c.op = "rename" => c.to \in OpenKeys')
  BY <1>5, <1>6, <1>9, OpenKeysAre, Zenon
<1>11. \A j \in FsKey : objects'[j] = objects[j] \/ j \in OpenKeys'
  BY <1>4, <1>10, Zenon
<1>12. ASSUME NEW id \in Tables, NEW data, Shows(id, data, objects, OpenKeys) PROVE Shows(id, data, objects', OpenKeys')
  <2>1. DOMAIN objects = FsKey
    BY Zenon DEF ListingInv
  <2> QED
    BY <1>4, <1>8, <1>11, <1>12, <2>1, ShowsThroughWrite, Zenon
<1>13. CallGood(c, s, gens)
  <2>1. "written" \notin {"gen", "look", "wait"} /\ "written" # "look" /\ "written" # "half"
    OBVIOUS
  <2> QED
    BY <1>1, <1>5, <2>1, Zenon DEF CallGood
<1>14. gens' \in [Folders -> Nat] /\ \A p \in Folders : gens[p] <= gens'[p]
  <2>1. gens' = gens /\ gens \in [Folders -> Nat]
    BY <1>1, Zenon DEF ListingInv
  <2> QED
    BY <2>1
<1> QED
  BY <1>1, <1>4, <1>6, <1>12, <1>13, <1>14, WritesKeep, Zenon

(* invalidate: what it closes shows only in folders whose generation it bumps,
   so that no entry which is current afterwards relied on it. *)
LEMMA InvalidateKeeps == ASSUME ListingInv, NEW c \in FsCall, Invalidate(c) PROVE ListingInv'
<1> DEFINE at == fsCall[c].at
           target == IF at = "half" THEN c.to ELSE c.key
           bumped == ancestorPrefixes(splitKey(target))
           s == IF c.op = "rename" /\ at = "written" THEN [at |-> "half"] ELSE Done
<1>1. /\ at \in {"written", "half"} /\ UNCHANGED <<objects, roots, cached, flight>>
      /\ gens' = [p \in Folders |-> IF p \in bumped THEN gens[p] + 1 ELSE gens[p]]
      /\ fsCall' = [fsCall EXCEPT ![c] = s]
  BY Zenon DEF Invalidate
<1>2. c.op \in FsWrites /\ (at = "half" => c.op = "rename")
  BY <1>1, Zenon DEF ListingInv, CallGood
<1>3. target \in Seq(STRING) \ {<<>>} /\ (c.op # "mkdir" /\ at = "written" => Written(c) = target)
  <2>1. c.to \in FsKey => c.to \in Seq(STRING) \ {<<>>}
    BY ListingCacheAssumption, Zenon
  <2>2. "half" # "written"
    OBVIOUS
  <2> QED
    BY <1>2, <2>1, <2>2, WriteKeys, Zenon
<1>4. c.op = "mkdir" => Written(c) = Append(target, NoName)
  <2>1. c.op = "mkdir" => at # "half"
    BY <1>2
  <2> QED
    BY <2>1, Zenon DEF Written
<1>5. s.at = (IF c.op = "rename" /\ at = "written" THEN "half" ELSE "done")
  BY Zenon DEF Done
<1>6. CallGood(c, s, gens)
  <2>1. "half" \notin {"gen", "look", "wait"} /\ "half" # "look"
    OBVIOUS
  <2>2. CASE c.op = "rename" /\ at = "written"
    BY <1>2, <1>5, <2>1, <2>2, Zenon DEF CallGood
  <2>3. CASE ~(c.op = "rename" /\ at = "written")
    BY <2>3, ReadStages, Zenon
  <2> QED
    BY <2>2, <2>3, Zenon
<1>7. DOMAIN fsCall' = FsCall /\ fsCall'[c] = s /\ \A d \in FsCall : d # c => fsCall'[d] = fsCall[d]
  BY <1>1, Zenon DEF ListingInv
<1>8. \A p \in Folders : gens[p] \in Nat /\ gens'[p] = IF p \in bumped THEN gens[p] + 1 ELSE gens[p]
  BY <1>1, Zenon DEF ListingInv
<1> HIDE DEF s, bumped
<1>9. \A k \in OpenAt(c, at) : \/ k \in OpenAt(c, s.at) \/ k = target
                               \/ k = Append(target, NoName) /\ c.op = "mkdir"
  <2>1. CASE at = "written" /\ c.op = "rename"
    <3>1. OpenAt(c, at) = {Written(c), c.to} /\ OpenAt(c, s.at) = {c.to}
      BY <1>5, <2>1 DEF OpenAt
    <3>2. Written(c) = target
      <4>1. c.op # "mkdir"
        BY <2>1
      <4> QED
        BY <1>3, <2>1, <4>1, Zenon
    <3> QED
      BY <3>1, <3>2, Zenon
  <2>2. CASE at = "written" /\ c.op # "rename"
    <3>1. OpenAt(c, at) = {Written(c)}
      BY <2>2, Zenon DEF OpenAt
    <3> QED
      BY <1>3, <1>4, <2>2, <3>1, Zenon
  <2>3. CASE at = "half"
    <3>1. OpenAt(c, at) = {c.to} /\ target = c.to
      BY <2>3 DEF OpenAt
    <3> QED
      BY <3>1, Zenon
  <2> QED
    BY <1>1, <2>1, <2>2, <2>3, Zenon
<1>10. \A k \in OpenKeys : k \in OpenKeys' \/ k = target \/ k = Append(target, NoName)
  <2>1. \A d \in FsCall : OpenAt(d, fsCall'[d].at) \subseteq OpenKeys'
    BY OpenKeysAre, Zenon
  <2>2. ASSUME NEW d \in FsCall, NEW k \in OpenAt(d, fsCall[d].at)
        PROVE  k \in OpenKeys' \/ k = target \/ k = Append(target, NoName)
    BY <1>7, <1>9, <2>1, Zenon
  <2> QED
    BY <2>2, OpenKeysAre, Zenon
<1> HIDE DEF at, target
<1>11. OpenKeys \subseteq FsKey
  <2>1. ASSUME NEW d \in FsCall PROVE OpenAt(d, fsCall[d].at) \subseteq FsKey
    <3>1. /\ fsCall[d].at \in {"written", "half"} => d.op \in FsWrites
          /\ fsCall[d].at = "half" => d.op = "rename"
      BY Zenon DEF ListingInv, CallGood
    <3> QED
      BY <3>1, WriteKeys, Zenon DEF OpenAt
  <2> QED
    BY <2>1, OpenKeysAre, Zenon
<1>12. ASSUME NEW p \in Folders, Quiet(p, OpenKeys'), p \notin bumped PROVE Quiet(p, OpenKeys)
  <2>1. ASSUME NEW k \in OpenKeys, Affects(p, k) PROVE FALSE
    <3>1. k = target \/ k = Append(target, NoName)
      BY <1>10, <1>12, <2>1, Zenon DEF Quiet
    <3>2. k \in Seq(STRING) \ {<<>>} /\ p \in Seq(STRING)
      BY <1>11, <2>1, FoldersArePaths, ListingCacheAssumption, Zenon
    <3>3. p \in ancestorPrefixes(splitKey(target))
      BY <1>3, <2>1, <3>1, <3>2, AffectsAbove, Zenon
    <3> QED
      BY <1>12, <3>3, Zenon DEF bumped, splitKey
  <2> QED
    BY <2>1, Zenon DEF Quiet
<1>13. ASSUME NEW p \in Folders, NEW r \in Folders, Under(r, p), p \in bumped PROVE r \in bumped
  <2>1. splitKey(target) \in Seq(STRING) /\ r \in Seq(STRING) /\ p \in Seq(STRING)
    BY <1>3, SplitIsPath, FoldersArePaths, Zenon
  <2>2. Under(p, splitKey(target))
    BY <1>13, <2>1, AncestorsArePrefixes, Zenon DEF bumped, splitKey
  <2>3. Under(r, splitKey(target))
    BY <1>13, <2>1, <2>2, PrefixTransitive, Zenon
  <2> QED
    BY <2>1, <2>3, AncestorsArePrefixes, Zenon DEF bumped, splitKey
<1>14. ASSUME NEW k \in OpenKeys, k \notin OpenKeys', splitBase(k) # NoName PROVE splitKey(k) \in bumped
  <2>1. k = target
    <3>1. splitBase(Append(target, NoName)) = NoName
      <4> DEFINE S == STRING \union {NoName}
      <4>1. target \in Seq(S) /\ NoName \in S
        BY <1>3
      <4> HIDE DEF S
      <4> QED
        BY <4>1 DEF splitBase
    <3> QED
      BY <1>10, <1>14, <3>1, Zenon
  <2>2. splitKey(target) \in Seq(STRING)
    BY <1>3, SplitIsPath, Zenon
  <2>4. Under(splitKey(target), splitKey(target))
    <3> DEFINE q == splitKey(target)
    <3> HIDE DEF q
    <3>1. q \in Seq(STRING)
      BY <2>2, Zenon DEF q
    <3>2. Under(q, q)
      BY <3>1 DEF Under
    <3> QED
      BY <3>2, Zenon DEF q
  <2> QED
    BY <2>1, <2>2, <2>4, AncestorsArePrefixes, Zenon DEF bumped, splitKey
<1>15. \A p \in Folders : gens[p] <= gens'[p] /\ gens'[p] \in Nat /\ (gens'[p] = gens[p] => p \notin bumped)
  BY <1>8
<1>16. gens' \in [Folders -> Nat]
  BY <1>1, <1>15, Zenon
<1>17. ASSUME NEW id \in Tables, NEW data, gens'[Prefix(id)] = gens[Prefix(id)], Shows(id, data, objects, OpenKeys)
       PROVE  Shows(id, data, objects, OpenKeys')
  <2>1. Prefix(id) \in Folders /\ Prefix(id) \notin bumped
    BY <1>15, <1>17, TablesAre, Zenon
  <2>2. (id[1] = "head" => Prefix(id) = splitKey(id[2])) /\ (id[1] # "head" => Prefix(id) = id[2])
    BY Zenon DEF Prefix, splitKey
  <2>3. "listing" # "head" /\ "subtree" # "head"
    OBVIOUS
  <2>4. id[1] = "listing" => (Quiet(id[2], OpenKeys') => data = Children(objects, id[2]))
    BY <1>12, <1>17, <2>1, <2>2, <2>3, Zenon DEF Shows
  <2>5. id[1] = "subtree" => \A p \in Folders : Under(id[2], p) /\ Quiet(p, OpenKeys') => Children(data, p) = Children(objects, p)
    BY <1>12, <1>13, <1>17, <2>1, <2>2, <2>3, Zenon DEF Shows
  <2>6. id[1] = "head" => splitBase(id[2]) # NoName /\ (id[2] \in OpenKeys' \/ data = objects[id[2]])
    BY <1>14, <1>17, <2>1, <2>2, Zenon DEF Shows
  <2> QED
    BY <2>4, <2>5, <2>6, Zenon DEF Shows
<1>18. objects' = objects /\ DOMAIN objects' = FsKey
  BY <1>1, Zenon DEF ListingInv
<1> QED
  BY <1>1, <1>6, <1>7, <1>15, <1>16, <1>17, <1>18, WritesKeep, Zenon

LEMMA ListingInvInit == ListingCacheInit => ListingInv
<1> SUFFICES ASSUME ListingCacheInit PROVE ListingInv
  OBVIOUS
<1>1. /\ DOMAIN objects = FsKey /\ roots \subseteq FsRoots /\ DOMAIN gens = Folders /\ \A p \in Folders : gens[p] = 0
      /\ DOMAIN fsCall = FsCall /\ DOMAIN flight = Tables /\ DOMAIN cached = Tables
      /\ (\A c \in FsCall : fsCall[c] = NotBegun) /\ \A id \in Tables : flight[id] = Nothing /\ cached[id] = Nothing
  BY Zenon DEF ListingCacheInit
<1>2. gens = [p \in Folders |-> 0] /\ 0 \in Nat
  BY DEF ListingCacheInit
<1>3. gens \in [Folders -> Nat]
  BY <1>2, Zenon
<1>4. NotBegun.at \notin {"gen", "look", "wait"} /\ NotBegun.at # "look" /\ NotBegun.at # "half" /\ NotBegun.at \notin {"written", "half"}
  BY DEF NotBegun
<1>5. \A c \in FsCall : CallGood(c, fsCall[c], gens)
  BY <1>1, <1>4, Zenon DEF CallGood
<1>6. Nothing.gen \in Int /\ Nothing.gen <= 0 /\ Nothing.gen # 0
  BY DEF Nothing
<1>7. \A id \in Tables : gens[Prefix(id)] = 0
  BY <1>1, TablesAre, Zenon
<1>8. \A id \in Tables : CachedGood(id, cached[id], gens, objects, OpenKeys)
  BY <1>1, <1>6, <1>7, Zenon DEF CachedGood
<1>9. \A id \in Tables : FlightGood(id, flight[id], gens, objects, OpenKeys)
  BY <1>1, Zenon DEF FlightGood
<1> QED
  BY <1>1, <1>3, <1>5, <1>8, <1>9, Zenon DEF ListingInv

LEMMA ListingInvStep == ListingInv /\ [ListingCacheNext]_lcVars => ListingInv'
<1> SUFFICES ASSUME ListingInv, [ListingCacheNext]_lcVars PROVE ListingInv'
  OBVIOUS
<1>1. CASE UNCHANGED lcVars
  <2>1. UNCHANGED <<objects, roots, gens, cached, flight, fsCall>>
    BY <1>1, Zenon DEF lcVars
  <2> QED
    BY <2>1, ReadsKeep, Zenon DEF ListingInv
<1>2. CASE \E r \in FsRoots : RegisterRoot(r)
  BY <1>2, RegisterRootKeeps, Zenon
<1>3. ASSUME NEW c \in FsCall, BeginRead(c) \/ ReadGen(c) \/ Look(c) \/ WriteObject(c) \/ WriteFails(c) \/ Invalidate(c)
      PROVE  ListingInv'
  BY <1>3, BeginKeeps, ReadGenKeeps, LookKeeps, WriteKeeps, WriteFailsKeeps, InvalidateKeeps, Zenon
<1>4. ASSUME NEW c \in FsCall, NEW p \in Folders, Warm(c, p) PROVE ListingInv'
  BY <1>4, BeginKeeps, Zenon
<1>5. ASSUME NEW id \in Tables, ListObjects(id) \/ ListingFails(id) \/ Store(id) \/ Seed(id) \/ Expire(id)
      PROVE  ListingInv'
  BY <1>5, ListObjectsKeeps, ListingFailsKeeps, StoreKeeps, SeedKeeps, ExpireKeeps, Zenon
<1> QED
  BY <1>1, <1>2, <1>3, <1>4, <1>5, Zenon DEF ListingCacheNext

(* Whatever the keys, the roots and the calls that run at once: no entry of a
   current generation hides a write of this process that has returned, in a
   listing, in a recursive scan of any depth or in a head that was requested
   (listFolder, subtree, headLoad, storeListing, invalidate of listingcache.go). *)
THEOREM CachedListingsAreFresh == ListingCacheSpec => []ListingsFresh
<1>1. ListingInv => ListingsFresh
  <2> SUFFICES ASSUME ListingInv PROVE ListingsFresh
    OBVIOUS
  <2> DEFINE open == UNION {Unfinished(c) : c \in FsCall}
             Settled(p) == ~ \E k \in open : Under(p, k)
  <2>1. \A p : Settled(p) => Quiet(p, OpenKeys)
    BY Zenon DEF Quiet, Affects, Below, OpenKeys
  <2>2. open = OpenKeys
    BY Zenon DEF OpenKeys
  <2> HIDE DEF open, Settled
  <2>3. ASSUME NEW id \in Tables, cached[id].gen = gens[Prefix(id)]
        PROVE  /\ id[1] = "listing" => (Settled(id[2]) => cached[id].data = Children(objects, id[2]))
               /\ id[1] = "subtree" => \A p \in Folders : Under(id[2], p) /\ Settled(p)
                                        => Children(cached[id].data, p) = Children(objects, p)
               /\ id[1] = "head" => ~cached[id].meta \/ id[2] \in open \/ cached[id].data = objects[id[2]]
    <3>1. (id[1] = "head" => cached[id].meta) => Shows(id, cached[id].data, objects, OpenKeys)
      BY <2>3, Zenon DEF ListingInv, CachedGood
    <3>2. id[1] = "head" \/ id[1] # "head"
      OBVIOUS
    <3>3. "listing" # "head" /\ "subtree" # "head"
      OBVIOUS
    <3> QED
      BY <2>1, <2>2, <3>1, <3>2, <3>3, Zenon DEF Shows
  <2>4. \A id \in Tables : id[1] = "listing" \/ id[1] = "subtree" \/ id[1] = "head"
    BY TablesAre, Zenon
  <2>5. ASSUME NEW id \in Tables, cached[id].gen = gens[Prefix(id)]
        PROVE  CASE id[1] = "listing" -> Settled(id[2]) => cached[id].data = Children(objects, id[2])
                 [] id[1] = "subtree" -> Truncated(cached[id].data) \/
                      \A p \in Folders : Under(id[2], p) /\ Settled(p)
                                           => Children(cached[id].data, p) = Children(objects, p)
                 [] id[1] = "head"    -> ~cached[id].meta \/ id[2] \in open \/ cached[id].data = objects[id[2]]
    BY <2>3, <2>4, <2>5, Zenon
  <2> QED
    BY <2>5, Zenon DEF ListingsFresh, open, Settled
<1> QED
  BY <1>1, ListingInvInit, ListingInvStep, PTL DEF ListingCacheSpec
=============================================================================
