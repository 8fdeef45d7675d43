---------------------------- MODULE ListingCache ----------------------------
(***************************************************************************)
(* internal/s3fs: a filesystem over a bucket whose directory listings,     *)
(* recursive subtree scans and object heads are cached (listingcache.go),  *)
(* read by Stat, Open and ReadDir, refreshed by the warmer, and            *)
(* invalidated by the writes of this process through per-prefix            *)
(* generations (basic.go, dir.go, file.go).                                *)
(*                                                                         *)
(* A key is the sequence of its path elements, a prefix that of its        *)
(* folders; MkdirAll's marker ends in the element "".  An object is the    *)
(* version of its size and mtime, 0 when there is none.  A passing TTL is  *)
(* the entry's removal.  No other process writes, and a write that reports *)
(* an error had no effect.                                                 *)
(***************************************************************************)
EXTENDS Integers, Sequences, FiniteSets

CONSTANTS
    FsKey,           \* the keys that are used
    FsCall,          \* [name, op, key, to]; a stat, a write or a round of the warmer
    FsRoots,         \* RecursivePrefixes and the roots of Chroot
    MaxSubtreeKeys

(* splitKey returns the folder of a key and its last element. *)
splitKey(k) == SubSeq(k, 1, Len(k) - 1)
splitBase(k) == k[Len(k)]

(* The prefix p is one of the key or prefix k. *)
Under(p, k) == Len(p) <= Len(k) /\ SubSeq(k, 1, Len(p)) = p
Below(p, k) == Under(p, k) /\ p # k

ancestorPrefixes(p) == {SubSeq(p, 1, n) : n \in 0 .. Len(p)}
Folders == UNION {ancestorPrefixes(splitKey(k)) : k \in FsKey}

(* The element behind the trailing separator of a directory's marker. *)
NoName == ""

(* A key is cleaned before it is used (key, cleanPath), so that a trailing
   separator is only ever MkdirAll's; FsKey and Folders hold
   whatever the calls name. *)
ASSUME ListingCacheAssumption ==
    /\ FsKey \subseteq Seq(STRING) \ {<<>>} /\ FsRoots \subseteq Seq(STRING)
    /\ \A c \in FsCall :
         /\ c.op \in {"stat", "readdir", "put", "mkdir", "remove", "rename", "warm"}
         /\ c.op \in {"stat", "put", "remove", "rename"} => c.key \in FsKey
         /\ c.op = "stat" => splitBase(c.key) # NoName
         /\ c.op = "readdir" => c.key \in Folders
         /\ c.op = "rename" => c.to \in FsKey
         /\ c.op = "mkdir" => c.key \in Seq(STRING) \ {<<>>} /\ Append(c.key, NoName) \in FsKey
    /\ MaxSubtreeKeys \in Nat

VARIABLES
    objects,   \* the bucket
    roots,     \* ListingCache.roots
    gens,      \* the generation of each prefix
    cached,    \* listings, subtrees and heads, by table and name
    touched,   \* the prefixes the warmer refreshes
    flight,    \* the running function of sf or headSF, by the same names
    fsCall     \* where each call is

lcVars == <<objects, roots, gens, cached, touched, flight, fsCall>>

Tables == ({"listing", "subtree"} \X Folders) \union ({"head"} \X FsKey)
Prefix(id) == IF id[1] = "head" THEN splitKey(id[2]) ELSE id[2]

Nothing == [gen |-> -1]
NotBegun == [at |-> "start"]
Done == [at |-> "done"]

ListingCacheInit ==
    /\ objects = [k \in FsKey |-> 0] /\ roots = {}
    /\ gens = [p \in Folders |-> 0] /\ touched = {}
    /\ cached = [id \in Tables |-> Nothing] /\ flight = [id \in Tables |-> Nothing]
    /\ fsCall = [c \in FsCall |-> NotBegun]
-----------------------------------------------------------------------------
(* listChildren of the bucket, synthesizeListing of a subtree scan. *)
Children(objs, p) ==
    LET below == {k \in DOMAIN objs : objs[k] # 0 /\ Below(p, k) /\ k[Len(p) + 1] # NoName}
    IN  {[name |-> k[Len(p) + 1], version |-> IF Len(k) = Len(p) + 1 THEN objs[k] ELSE 0] : k \in below}

(* listSubtree *)
Subtree(p) == [k \in {k \in FsKey : objects[k] # 0 /\ Under(p, k)} |-> objects[k]]

recursiveRoot(p) == {r \in roots : Under(r, p) /\ \A s \in roots : Under(s, p) => Len(s) <= Len(r)}

(* list of a folder: from the subtree scan of its root if it has one. *)
Consult(id) == [at |-> "gen", on |-> id]
List(p) == Consult(IF recursiveRoot(p) = {} THEN <<"listing", p>> ELSE <<"subtree", CHOOSE r \in recursiveRoot(p) : TRUE>>)
Folder(c) == IF c.op = "readdir" THEN c.key ELSE splitKey(c.key)

(* What a call does with the data of a table, or with an error: a subtree that
   failed or is too large falls back to the folder, Stat and Open go on to the
   head of a file, everything else ends here or with a live request. *)
Truncated(data) == Cardinality(DOMAIN data) > MaxSubtreeKeys
Resolved(c, entries) ==
    IF c.op = "stat" /\ \E e \in entries : e.name = splitBase(c.key) /\ e.version # 0
    THEN Consult(<<"head", c.key>>) ELSE Done
Proceed(c, id, data, ok) ==
    IF c.op = "warm" \/ id[1] = "head" THEN Done
    ELSE IF id[1] = "listing" THEN (IF ok THEN Resolved(c, data) ELSE Done)
    ELSE IF ~ok \/ Truncated(data) THEN Consult(<<"listing", Folder(c)>>)
    ELSE Resolved(c, Children(data, Folder(c)))

(* registerRoot, by Chroot *)
RegisterRoot(r) ==
    /\ r \in FsRoots \ roots
    /\ roots' = roots \union {r}
    /\ UNCHANGED <<objects, gens, cached, touched, flight, fsCall>>

(* Stat, Open and ReadDir *)
BeginRead(c) ==
    /\ c.op \in {"stat", "readdir"} /\ fsCall[c] = NotBegun
    /\ touched' = touched \union {Folder(c)}
    /\ fsCall' = [fsCall EXCEPT ![c] = List(Folder(c))]
    /\ UNCHANGED <<objects, roots, gens, cached, flight>>

(* warmOnce: a prefix idle for too long is dropped, another one refreshed. *)
Warm(c, p) ==
    /\ c.op = "warm" /\ fsCall[c] = NotBegun /\ p \in touched
    /\ \/ touched' = touched \ {p} /\ fsCall' = [fsCall EXCEPT ![c] = Done]
       \/ touched' = touched /\ fsCall' = [fsCall EXCEPT ![c] = List(p)]
    /\ UNCHANGED <<objects, roots, gens, cached, flight>>

(* The generation is read before the table. *)
ReadGen(c) ==
    /\ fsCall[c].at = "gen"
    /\ fsCall' = [fsCall EXCEPT ![c] = [at |-> "look", on |-> @.on, gen |-> gens[Prefix(@.on)]]]
    /\ UNCHANGED <<objects, roots, gens, cached, touched, flight>>

(* listFolder, subtree, headLoad: an entry of that generation is a hit; the
   warmer always refills.  A miss joins the running fill or starts one, under
   the generation that was read. *)
Look(c) ==
    LET id == fsCall[c].on
        gen == fsCall[c].gen
    IN  /\ fsCall[c].at = "look"
        /\ IF c.op # "warm" /\ cached[id].gen = gen
           THEN /\ fsCall' = [fsCall EXCEPT ![c] = Proceed(c, id, cached[id].data, TRUE)]
                /\ UNCHANGED flight
           ELSE /\ fsCall' = [fsCall EXCEPT ![c] = [at |-> "wait", on |-> id]]
                /\ flight' = IF flight[id] = Nothing
                             THEN [flight EXCEPT ![id] = [at |-> "list", gen |-> gen]] ELSE flight
        /\ UNCHANGED <<objects, roots, gens, cached, touched>>

(* The request to the bucket. *)
ListObjects(id) ==
    /\ flight[id] # Nothing /\ flight[id].at = "list"
    /\ id[1] = "head" => objects[id[2]] # 0
    /\ flight' = [flight EXCEPT ![id] =
                    [at   |-> "store", gen |-> @.gen,
                     data |-> CASE id[1] = "listing" -> Children(objects, id[2])
                                [] id[1] = "subtree" -> Subtree(id[2])
                                [] id[1] = "head"    -> objects[id[2]]]]
    /\ UNCHANGED <<objects, roots, gens, cached, touched, fsCall>>

(* The end of a fill: everyone who joined proceeds. *)
EndFlight(id, data, ok) ==
    /\ flight' = [flight EXCEPT ![id] = Nothing]
    /\ fsCall' = [c \in FsCall |-> IF fsCall[c].at = "wait" /\ fsCall[c].on = id
                                   THEN Proceed(c, id, data, ok) ELSE fsCall[c]]
ListingFails(id) ==
    /\ flight[id] # Nothing /\ flight[id].at = "list"
    /\ EndFlight(id, 0, FALSE)
    /\ UNCHANGED <<objects, roots, gens, cached, touched>>

(* Mutant of Store: the generation is read after the listing. *)
StoreLatest(id) ==
    /\ flight[id] # Nothing /\ flight[id].at = "store"
    /\ cached' = [cached EXCEPT ![id] = [gen |-> gens[Prefix(id)], data |-> flight[id].data, meta |-> id[1] = "head"]]
    /\ IF id[1] = "head" \/ (id[1] = "subtree" /\ Truncated(flight[id].data))
       THEN EndFlight(id, flight[id].data, TRUE)
       ELSE flight' = [flight EXCEPT ![id].at = "seed"] /\ UNCHANGED fsCall
    /\ UNCHANGED <<objects, roots, gens, touched>>
Store(id) ==
    /\ flight[id] # Nothing /\ flight[id].at = "store"
    /\ cached' = [cached EXCEPT ![id] = [gen |-> flight[id].gen, data |-> flight[id].data, meta |-> id[1] = "head"]]
    /\ IF id[1] = "head" \/ (id[1] = "subtree" /\ Truncated(flight[id].data))
       THEN EndFlight(id, flight[id].data, TRUE)
       ELSE flight' = [flight EXCEPT ![id].at = "seed"] /\ UNCHANGED fsCall
    /\ UNCHANGED <<objects, roots, gens, touched>>

(* seedHeads, seedSubtreeHeads: the heads of what was listed, under the
   generations of now. *)
Seeds(id, data) ==
    IF id[1] = "subtree" THEN {k \in DOMAIN data : splitBase(k) # NoName}
    ELSE {Append(id[2], e.name) : e \in {e \in data : e.version # 0}}
Version(id, data, k) ==
    IF id[1] = "subtree" THEN data[k] ELSE (CHOOSE e \in data : e.name = splitBase(k) /\ e.version # 0).version
Seed(id) ==
    LET data == flight[id].data IN
    /\ flight[id] # Nothing /\ flight[id].at = "seed"
    /\ cached' = [i \in Tables |->
                    IF i[1] = "head" /\ i[2] \in Seeds(id, data)
                    THEN [gen |-> gens[splitKey(i[2])], data |-> Version(id, data, i[2]), meta |-> FALSE]
                    ELSE cached[i]]
    /\ EndFlight(id, data, TRUE)
    /\ UNCHANGED <<objects, roots, gens, touched>>

(* An entry's TTL passes, or sweepExpired drops it. *)
Expire(id) ==
    /\ cached[id] # Nothing
    /\ cached' = [cached EXCEPT ![id] = Nothing]
    /\ UNCHANGED <<objects, roots, gens, touched, flight, fsCall>>
-----------------------------------------------------------------------------
(* Close of a written file, Rename of a temporary one, MkdirAll, Remove, and
   Rename: the request to the bucket, then invalidate. *)
Written(c) == IF c.op = "mkdir" THEN Append(c.key, NoName) ELSE c.key
WriteObject(c) ==
    LET k == Written(c)
        next == 1 + objects[k]
    IN  /\ c.op \in {"put", "mkdir", "remove", "rename"} /\ fsCall[c] = NotBegun
        /\ c.op = "rename" => objects[k] # 0
        /\ objects' = CASE c.op \in {"put", "mkdir"} -> [objects EXCEPT ![k] = next]
                        [] c.op = "remove"           -> [objects EXCEPT ![k] = 0]
                        [] c.op = "rename"           -> [objects EXCEPT ![k] = 0, ![c.to] = 1 + objects[c.to]]
        /\ fsCall' = [fsCall EXCEPT ![c] = [at |-> "written"]]
        /\ UNCHANGED <<roots, gens, cached, touched, flight>>
WriteFails(c) ==
    /\ c.op \in {"put", "mkdir", "remove", "rename"} /\ fsCall[c] = NotBegun
    /\ fsCall' = [fsCall EXCEPT ![c] = Done]
    /\ UNCHANGED <<objects, roots, gens, cached, touched, flight>>

(* invalidate: the folder of the key and every folder above it. *)
Invalidate(c) ==
    LET target == IF fsCall[c].at = "half" THEN c.to ELSE c.key
        bumped == ancestorPrefixes(splitKey(target))
    IN  /\ fsCall[c].at \in {"written", "half"}
        /\ gens' = [p \in Folders |-> IF p \in bumped THEN gens[p] + 1 ELSE gens[p]]
        /\ touched' = touched \union bumped
        /\ fsCall' = [fsCall EXCEPT ![c] = IF c.op = "rename" /\ @.at = "written" THEN [at |-> "half"] ELSE Done]
        /\ UNCHANGED <<objects, roots, cached, flight>>

ListingCacheNext ==
    \/ \E r \in FsRoots : RegisterRoot(r)
    \/ \E c \in FsCall :
         BeginRead(c) \/ ReadGen(c) \/ Look(c) \/ WriteObject(c) \/ WriteFails(c) \/ Invalidate(c)
    \/ \E c \in FsCall, p \in Folders : Warm(c, p)
    \/ \E id \in Tables : ListObjects(id) \/ ListingFails(id) \/ Store(id) \/ Seed(id) \/ Expire(id)

ListingCacheSpec == ListingCacheInit /\ [][ListingCacheNext]_lcVars
-----------------------------------------------------------------------------
(* The keys that a write has changed and not invalidated yet. *)
Unfinished(c) ==
    CASE fsCall[c].at = "written" -> {Written(c)} \union (IF c.op = "rename" THEN {c.to} ELSE {})
      [] fsCall[c].at = "half"    -> {c.to}
      [] OTHER                    -> {}

(* What a fill stored under the generation read before it is as the bucket has
   it while that generation is current: a listing, every folder of a recursive
   scan, and a head that a HeadObject filled, unless a write to it has not
   invalidated yet.  So a hit on one of these never hides a write of this process
   that has returned.  It says nothing of a read that joins a fill already
   running, and nothing of a head seeded from a listing (HeadsFresh). *)
ListingsFresh ==
    LET open == UNION {Unfinished(c) : c \in FsCall}
        Settled(p) == ~ \E k \in open : Under(p, k)
    IN  \A id \in Tables :
          cached[id].gen = gens[Prefix(id)] =>
            CASE id[1] = "listing" -> Settled(id[2]) => cached[id].data = Children(objects, id[2])
              [] id[1] = "subtree" -> Truncated(cached[id].data) \/
                   \A p \in Folders : Under(id[2], p) /\ Settled(p)
                                        => Children(cached[id].data, p) = Children(objects, p)
              [] id[1] = "head"    -> ~cached[id].meta \/ id[2] \in open \/ cached[id].data = objects[id[2]]

(* The same of every cached head of an object that is there, as listingcache.go
   says of headCacheEntry: a local write under the prefix invalidates every cached
   head beneath it.  It does not hold: seedHeads reads the generation after the
   listing, so the size and mtime of before a write may be kept as those of now. *)
HeadsFresh ==
    \A k \in FsKey :
        cached[<<"head", k>>].gen = gens[splitKey(k)] /\ objects[k] # 0 =>
            k \in UNION {Unfinished(c) : c \in FsCall} \/ cached[<<"head", k>>].data = objects[k]
=============================================================================
