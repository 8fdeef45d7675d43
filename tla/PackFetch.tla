------------------------------ MODULE PackFetch ------------------------------
(***************************************************************************)
(* The whole-pack downloads behind packed reads: packcache.go, and the     *)
(* packAccess side of packindex.go (startPackFetch to packPayload).  Every *)
(* Storer downloads a pack at most once, in a goroutine of its own; the    *)
(* downloads of all Storers meet in one PackCache, which joins those of    *)
(* the same pack, verifies what it keeps and evicts to a byte budget.      *)
(*                                                                         *)
(* A body is its length, of which the landed part is readable while the    *)
(* download runs.  The LRU stamps are kept as an order of recency.         *)
(***************************************************************************)
EXTENDS Integers, Sequences, FiniteSets, FiniteSetsExt, Functions, Collections

CONSTANTS
    Id,          \* packs
    Fetch,       \* the goroutines of startPackFetch, as Storer and pack
    Length,      \* the length of each pack's .bin
    MaxBytes,    \* the budget
    MaxLive,     \* maxLivePackFetches
    MaxTry       \* the claims one GetChecked makes

ASSUME PackFetchAssumption ==
    /\ \A f \in Fetch : f[2] \in Id
    /\ Length \in [Id -> Nat \ {0}] /\ MaxBytes \in Nat \ {0}
    /\ MaxLive \in Nat \ {0} /\ MaxTry \in Nat \ {0}

NotStarted == [at |-> "none", held |-> FALSE, try |-> 0]
NoEntry == [state |-> "none", size |-> 0, landed |-> 0]
Absent == "absent"

VARIABLES
    slot,      \* PackCache.entries: the entry of each id
    recency,   \* the ids that have one, least recently claimed first
    cur,       \* PackCache.cur
    disk,      \* the files under their final name, and whether the digest fits
    access     \* each goroutine; held: the entry it opens is still registered

pfVars == <<slot, recency, cur, disk, access>>

PackFetchInit ==
    /\ slot = [i \in Id |-> NoEntry] /\ recency = <<>> /\ cur = 0
    /\ disk = [i \in Id |-> Absent]
    /\ access = [f \in Fetch |-> NotStarted]
-----------------------------------------------------------------------------
Registered(i) == slot[i] # NoEntry
At(f, at) == access' = [access EXCEPT ![f].at = at]

(* The entries eviction may take: settled, so their size is not 0. *)
Evictable == {i \in Id : slot[i].size # 0}
Bytes(ids) == SumFunctionOnSet([i \in Id |-> slot[i].size], ids)

(* Entries leave the map; a goroutine about to open one holds a stale entry. *)
Without(slots, ids) == [i \in Id |-> IF i \in ids THEN NoEntry ELSE slots[i]]
Stale(acc, ids) == [f \in Fetch |-> IF f[2] \in ids THEN [acc[f] EXCEPT !.held = FALSE] ELSE acc[f]]
Unlisted(ids) == Kept(recency, Id \ ids)

(* startPackFetch: a sync.Once, so a failure stays. *)
StartPackFetch(f) ==
    /\ access[f].at = "none"
    /\ At(f, "claim")
    /\ UNCHANGED <<slot, recency, cur, disk>>

(* claim: the entry of the pack if there is one, else a new one that this
   goroutine must fill. *)
Claim(f) ==
    LET i == f[2] IN
    /\ access[f].at = "claim"
    /\ recency' = Append(Unlisted({i}), i)
    /\ slot' = IF Registered(i) THEN slot ELSE [slot EXCEPT ![i] = [NoEntry EXCEPT !.state = "new"]]
    /\ access' = [access EXCEPT ![f] = [try  |-> @.try + 1,
                                        held |-> TRUE,
                                        at   |-> IF slot[i].state = "ready" THEN "open"
                                                 ELSE IF Registered(i) THEN "wait" ELSE "slot"]]
    /\ UNCHANGED <<cur, disk>>

(* streamPack: a slot of fetchSem before anything is requested. *)
Live == {f \in Fetch : access[f].at = "fetch"}
TakeSlot(f) ==
    /\ access[f].at = "slot" /\ Cardinality(Live) < MaxLive
    /\ At(f, "fetch")
    /\ slot' = [slot EXCEPT ![f[2]].state = "stream"]
    /\ UNCHANGED <<recency, cur, disk>>

(* countingWriter: bytes are published once they are on disk. *)
Land(f) ==
    /\ access[f].at = "fetch" /\ slot[f[2]].landed < Length[f[2]]
    /\ slot' = [slot EXCEPT ![f[2]].landed = @ + 1]
    /\ UNCHANGED <<recency, cur, disk, access>>

(* Mutant of Copied: the digest is not compared. *)
CopiedUnverified(f, digest) ==
    /\ access[f].at = "fetch" /\ slot[f[2]].landed = Length[f[2]]
    /\ At(f, "renamed")
    /\ slot' = [slot EXCEPT ![f[2]].state = "staged"]
    /\ disk' = [disk EXCEPT ![f[2]] = digest]
    /\ UNCHANGED <<recency, cur>>

(* verifiedCopy and the rename: a whole body whose digest is the name moves
   into place, any other fails.  The stream is gone before anyone is told. *)
Copied(f, digest) ==
    /\ access[f].at = "fetch" /\ slot[f[2]].landed = Length[f[2]] /\ digest = "verified"
    /\ At(f, "renamed")
    /\ slot' = [slot EXCEPT ![f[2]].state = "staged"]
    /\ disk' = [disk EXCEPT ![f[2]] = digest]
    /\ UNCHANGED <<recency, cur>>

(* close(ready): who waited for the entry learns its outcome. *)
Released(acc, f, at) ==
    [g \in Fetch |-> IF g = f \/ (g[2] = f[2] /\ acc[g].at = "wait") THEN [acc[g] EXCEPT !.at = at] ELSE acc[g]]

(* Mutant of FillFails: who waits for the entry is not told. *)
FillFailsSilently(f) ==
    /\ access[f].at \in {"slot", "fetch"}
    /\ access' = [Stale(access, {f[2]}) EXCEPT ![f].at = "failed"]
    /\ slot' = Without(slot, {f[2]})
    /\ recency' = Unlisted({f[2]})
    /\ cur' = cur - slot[f[2]].size
    /\ UNCHANGED disk

(* fill fails: no staging file, no slot, an error of the bucket or a digest
   that differs.  The entry is forgotten, so a later request tries again. *)
FillFails(f) ==
    /\ access[f].at \in {"slot", "fetch"}
    /\ access' = Released(Stale(access, {f[2]}), f, "failed")
    /\ slot' = Without(slot, {f[2]})
    /\ recency' = Unlisted({f[2]})
    /\ cur' = cur - slot[f[2]].size
    /\ UNCHANGED disk

(* evictLocked: least recently used first, until the budget is met or nothing
   is left to take; the entry being admitted has no size yet. *)
Victims(over) ==
    LET Taken(n) == Evictable \cap Range(SubSeq(recency, 1, n))
    IN  Taken(Min({n \in 0 .. Len(recency) : n = Len(recency) \/ Bytes(Taken(n)) >= over}))

(* fill's end: the size is charged, others are evicted, waiters are released. *)
Admit(f) ==
    LET gone == Victims(cur + Length[f[2]] - MaxBytes) IN
    /\ access[f].at = "renamed"
    /\ slot' = [Without(slot, gone) EXCEPT ![f[2]].state = "ready", ![f[2]].size = Length[f[2]]]
    /\ cur' = cur + Length[f[2]] - Bytes(gone)
    /\ recency' = Unlisted(gone)
    /\ disk' = [i \in Id |-> IF i \in gone THEN Absent ELSE disk[i]]
    /\ access' = Released(Stale(access, gone), f, "open")

(* GetChecked: the open finds the file, or an eviction was faster; then forget
   drops the entry if it is still the registered one, and the claim is made
   again, MaxTry times. *)
Open(f) ==
    LET i == f[2]
        drop == IF disk[i] = Absent /\ access[f].held THEN {i} ELSE {}
    IN  /\ access[f].at = "open"
        /\ access' = [Stale(access, drop) EXCEPT ![f].at =
                        IF disk[i] # Absent THEN disk[i]
                        ELSE IF access[f].try < MaxTry THEN "claim" ELSE "failed"]
        /\ slot' = Without(slot, drop)
        /\ recency' = Unlisted(drop)
        /\ cur' = cur - Bytes(drop)
        /\ UNCHANGED disk

(* The open fails otherwise, or the size is not the one the .cue promises
   (fetchWholePack). *)
OpenFails(f) ==
    /\ access[f].at = "open"
    /\ At(f, "failed")
    /\ UNCHANGED <<slot, recency, cur, disk>>

(* Mutant of EvictIdle: the budget is not given back. *)
EvictIdleUncharged(ids) ==
    /\ ids # {} /\ ids \subseteq Evictable
    /\ cur' = cur
    /\ slot' = Without(slot, ids)
    /\ recency' = Unlisted(ids)
    /\ disk' = [i \in Id |-> IF i \in ids THEN Absent ELSE disk[i]]
    /\ access' = Stale(access, ids)

(* EvictIdle: settled entries nobody claimed lately. *)
EvictIdle(ids) ==
    /\ ids # {} /\ ids \subseteq Evictable
    /\ cur' = cur - Bytes(ids)
    /\ slot' = Without(slot, ids)
    /\ recency' = Unlisted(ids)
    /\ disk' = [i \in Id |-> IF i \in ids THEN Absent ELSE disk[i]]
    /\ access' = Stale(access, ids)

(* packPayload of the bytes up to end: the finished copy, then the landed part
   of a running download, anyone's, then a ranged GET, which may fail.  No tier
   waits. *)
PackPayload(f, end) ==
    IF access[f].at \in {"verified", "corrupt"} THEN {access[f].at}
    ELSE IF slot[f[2]].state = "stream" /\ end <= slot[f[2]].landed THEN {"landed"}
    ELSE {"ranged", "error"}

FetchStep(f) ==
    \/ Claim(f) \/ TakeSlot(f) \/ Land(f) \/ FillFails(f) \/ Admit(f) \/ Open(f) \/ OpenFails(f)
    \/ \E digest \in {"verified", "corrupt"} : Copied(f, digest)

PackFetchNext ==
    \/ \E f \in Fetch : StartPackFetch(f) \/ FetchStep(f)
    \/ \E ids \in SUBSET Id : EvictIdle(ids)

PackFetchSpec == PackFetchInit /\ [][PackFetchNext]_pfVars
-----------------------------------------------------------------------------
(* The bytes charged are those of the registered entries, through failures,
   evictions and forgets in any order, and the budget is exceeded only by one
   entry that exceeds it alone (fill, forget, evictLocked). *)
CacheAccounted ==
    /\ cur = Bytes(Range(recency))
    /\ cur > MaxBytes => Cardinality(Evictable) = 1

(* One download of a pack at a time, no more in all than there are slots; a file
   under its final name belongs to an entry that is being or has been admitted,
   so that eviction will find it; and a finished copy, hence whatever a read takes
   from it, has the digest of its name (claim, fetchSem, fill, verifiedCopy). *)
CopiesVerified ==
    /\ \A f, g \in Fetch : f[2] = g[2] /\ {access[f].at, access[g].at} \subseteq {"slot", "fetch", "renamed"} => f = g
    /\ Cardinality(Live) <= MaxLive
    /\ \A i \in Id : (disk[i] # Absent) <=> slot[i].state \in {"staged", "ready"}
    /\ \A f \in Fetch : \A end \in 1 .. Length[f[2]] : "corrupt" \notin PackPayload(f, end)

(* Every download that begins ends, in a copy or in a failure, also for those who
   wait for the copy of another (claim, streamPack, fill, GetChecked). *)
DownloadsSettle == <>[]\A f \in Fetch : access[f].at \in {"none", "verified", "failed"}
=============================================================================
