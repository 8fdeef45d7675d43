----------------------------- MODULE ObjectStore -----------------------------
(***************************************************************************)
(* The objects of one repository as Storers see them: pack containers and  *)
(* loose objects in the bucket, the upload jobs of each Storer, its pack   *)
(* index and its overlay of pending loose objects, the cold build of the   *)
(* index, and reads that follow delta chains through all of them.          *)
(* internal/storage/tigris: packindex.go, packtable.go, objects.go,        *)
(* iter.go, writer.go, upload.go and the seal and packJob of packwriter.go.*)
(*                                                                         *)
(* A container is a function from the objects it holds to the base each is *)
(* stored against (Whole for none).  Its name is the digest of its payload *)
(* bytes, so an object of no bytes does not show in it.  A table of the    *)
(* index is a function from objects to the pack and base of their record.  *)
(***************************************************************************)
EXTENDS Naturals, Sequences, FiniteSets, Functions

CONSTANTS
    Storer,       \* Storers, one per request
    Obj,          \* objects
    Whole,        \* the base of a record that is not a delta
    Empty,        \* the objects of no bytes
    Stored,       \* the containers of earlier pushes
    Plans,        \* what requests make of each Storer: the containers it seals, the
                  \* objects it writes loose, how it reads, whether it iterates, and the
                  \* calls that may find its index not built
    Builder,      \* those calls
    MaxTables,    \* maxPackTables
    MaxLinks      \* maxDeltaDepth, as framePacked reads it

(* A container as place of indexpack.go writes it (ContainersSelfContained of
   IndexPack): the base of a delta is in the container too.  Where a push repeats
   an object, the table keeps one of its records, and bases may lead in a circle
   (EveryContainerReadable of IndexPack). *)
Records == UNION {[D -> Obj \cup {Whole}] : D \in SUBSET Obj}
Container == {c \in Records : \A o \in DOMAIN c : c[o] \in DOMAIN c \cup {Whole}}

(* EncodedObject; HasEncodedObject and EncodedObjectSize; DeltaObject. *)
ReadKind == {"object", "size", "delta"}

ASSUME ObjectStoreAssumption ==
    /\ Whole \notin Obj /\ Empty \subseteq Obj
    /\ MaxTables \in Nat \ {0} /\ MaxLinks \in Nat
    /\ Stored \subseteq Container
    /\ Plans \subseteq [Storer -> [seals : Seq(Container), writes : Seq(Obj), reads : SUBSET ReadKind,
                                  iterates : BOOLEAN, builders : SUBSET Builder]]

NoRecords == [o \in {} |-> Whole]
NoCold == [on |-> FALSE, todo |-> {}, got |-> <<>>, before |-> {}]
NoRead == [stage |-> "none", kind |-> "object", goal |-> Whole, at |-> Whole, links |-> 0, pack |-> <<>>, base |-> Whole, path |-> 0,
           due |-> FALSE]
NoIter == [stage |-> "none", tables |-> <<>>, dead |-> {}, left |-> {}, keys |-> {}, out |-> <<>>, due |-> {}]

VARIABLES
    plan,     \* the requests
    bins,     \* bucket: the names that have a .bin
    cues,     \* bucket: the .cue of each name
    loose,    \* bucket: the objects stored one by one
    store,    \* each Storer: its pack index, its pending overlay, its fate
    jobs,     \* its upload jobs, oldest first
    cold,     \* its cold builds in progress
    reading,  \* a read in progress, or how the last one ended
    iter,     \* an iteration in progress
    acked     \* history: the objects of pushes whose flush succeeded

osVars == <<plan, bins, cues, loose, store, jobs, cold, reading, iter, acked>>
-----------------------------------------------------------------------------
(* The index. *)

(* seal, checksum: a container is named after its payload bytes. *)
Name(c) == Restrict(c, DOMAIN c \ Empty)

(* newPackTable. *)
newPackTable(id, recs) == [o \in DOMAIN recs |-> [pack |-> id, base |-> recs[o]]]

(* packSnapshot.lookup: the newest table with a live record wins. *)
Holders(tables, dead, o) == {i \in DOMAIN tables : o \in DOMAIN tables[i] /\ tables[i][o].pack \notin dead}
Found(tables, dead, o) == Holders(tables, dead, o) # {}
(* Mutant of lookup: the smaller record wins over the newer one. *)
LookupOfDelta(tables, dead, o) ==
    LET deltas == {i \in Holders(tables, dead, o) : tables[i][o].base # Whole}
    IN  tables[CHOOSE i \in (IF deltas = {} THEN Holders(tables, dead, o) ELSE deltas) : TRUE][o]
newest(tables, dead, o) == CHOOSE i \in Holders(tables, dead, o) : \A j \in Holders(tables, dead, o) : j <= i
lookup(tables, dead, o) == tables[newest(tables, dead, o)][o]

(* mergeTables: one table, the later record of an object wins, dead packs go. *)
mergeTables(tables, dead) ==
    [o \in {o \in Obj : Found(tables, dead, o)} |-> lookup(tables, dead, o)]

(* The packs of a table; packTable.pack is the only one, or -1. *)
PacksOf(t) == {t[o].pack : o \in DOMAIN t}

(* addTable, and the end of ensurePacksBuilt: too many tables become one. *)
Bounded(ix) ==
    IF Len(ix.tables) > MaxTables
    THEN [ix EXCEPT !.tables = <<mergeTables(ix.tables, ix.dead)>>, !.dead = {}]
    ELSE ix

(* register: the pack is live again if it was dead, and its table the newest. *)
register(ix, id, recs) ==
    Bounded([ix EXCEPT !.dead = @ \ {id},
                       !.tables = Append(@, newPackTable(id, recs)),
                       !.local = @ \cup {id}])

(* deregister: tables of only that pack go; in a table shared with others its
   records are dead. *)
Others(tables, id) == SelectSeq(tables, LAMBDA t : PacksOf(t) # {id})
deregister(ix, id) ==
    LET kept == Others(ix.tables, id)
    IN  [ix EXCEPT !.tables = kept,
                   !.dead = @ \cup {p \in {id} : \E i \in DOMAIN kept : Cardinality(PacksOf(kept[i])) > 1},
                   !.local = @ \ {id}]

markUploaded(ix, id) == [ix EXCEPT !.local = @ \ {id}]

(* registerPending, evict: the pending overlay of loose objects. *)
registerPending(ix, o, name) ==
    [ix EXCEPT !.pending = [x \in DOMAIN @ \cup {o} |-> IF x = o THEN name ELSE @[x]]]
evict(ix, o) == [ix EXCEPT !.pending = Restrict(@, DOMAIN @ \ {o})]

(* recordErr: an upload that failed, or could not be queued, fails the push. *)
recordErr(ix, ok) == [ix EXCEPT !.err = IF ok THEN @ ELSE "some"]
-----------------------------------------------------------------------------
NoPlan == [seals |-> <<>>, writes |-> <<>>, reads |-> {}, iterates |-> FALSE, builders |-> {}]

ObjectStoreInit ==
    /\ plan = [s \in Storer |-> NoPlan]
    /\ bins = {Name(c) : c \in Stored}
    /\ cues = [id \in bins |-> CHOOSE c \in Stored : Name(c) = id]
    /\ acked = UNION {DOMAIN c : c \in Stored} /\ loose = {}
    /\ store = [s \in Storer |-> [built |-> FALSE, tables |-> <<>>, dead |-> {}, local |-> {}, pending |-> <<>>,
                                  err |-> "none", flushed |-> FALSE, seen |-> {}]]
    /\ jobs = [s \in Storer |-> <<>>]
    /\ cold = [s \in Storer |-> [b \in Builder |-> NoCold]]
    /\ reading = [s \in Storer |-> NoRead]
    /\ iter = [s \in Storer |-> NoIter]

Arrive(p) ==
    /\ plan = [s \in Storer |-> NoPlan]
    /\ plan' = p
    /\ UNCHANGED <<bins, cues, loose, store, jobs, cold, reading, iter, acked>>

(* The objects a job makes durable. *)
Carried(j) == IF j.kind = "pack" THEN DOMAIN j.recs ELSE {j.obj}
Own(s) == UNION {Carried(jobs[s][i]) : i \in DOMAIN jobs[s]}

JobsOf(s, kind) == {i \in DOMAIN jobs[s] : jobs[s][i].kind = kind}

(* seal and enqueue of the next container.  An enqueue that fails undoes the
   registration, as a failed upload does, and fails the push. *)
Seal(s, queued) ==
    /\ ~store[s].flushed /\ Cardinality(JobsOf(s, "pack")) < Len(plan[s].seals)
    /\ LET c == plan[s].seals[Cardinality(JobsOf(s, "pack")) + 1] IN
       /\ store' = [store EXCEPT ![s] = recordErr(register(store[s], Name(c), c), queued)]
       /\ jobs' = [jobs EXCEPT ![s] = Append(@, [kind |-> "pack", id |-> Name(c), recs |-> c, obj |-> Whole,
                                                 stage |-> IF queued THEN "queued" ELSE "bad"])]
    /\ UNCHANGED <<plan, bins, cues, loose, cold, reading, iter, acked>>

(* SetEncodedObject, through stageWriter: bytes that are not the declared ones
   leave nothing behind.  Else, in Close, the staged file is pending under its
   own name, here the job's number, before the upload is queued. *)
WriteLoose(s, queued) ==
    /\ ~store[s].flushed /\ Cardinality(JobsOf(s, "loose")) < Len(plan[s].writes)
    /\ LET o == plan[s].writes[Cardinality(JobsOf(s, "loose")) + 1] IN
       /\ store' = [store EXCEPT ![s] = recordErr(registerPending(store[s], o, Len(jobs[s]) + 1), queued)]
       /\ jobs' = [jobs EXCEPT ![s] = Append(@, [kind |-> "loose", id |-> NoRecords, recs |-> NoRecords, obj |-> o,
                                                 stage |-> IF queued THEN "queued" ELSE "bad"])]
    /\ UNCHANGED <<plan, bins, cues, loose, cold, reading, iter, acked>>

Job(s, i, stage) == i \in DOMAIN jobs[s] /\ jobs[s][i].stage = stage
Stage(s, i, stage) == jobs' = [jobs EXCEPT ![s][i].stage = stage]

(* The answer to a PutObject: a failed one may have landed all the same, and
   handleBundle records the error before it calls done. *)
Answered(s, i, ok, next) ==
    /\ Stage(s, i, IF ok THEN next ELSE "bad")
    /\ store' = [store EXCEPT ![s] = recordErr(store[s], ok)]
    /\ UNCHANGED <<plan, cold, reading, iter, acked>>

(* packJob.run: the .bin, then the .cue. *)
PutBin(s, i, landed, ok) ==
    /\ Job(s, i, "queued") /\ jobs[s][i].kind = "pack" /\ (ok => landed)
    /\ bins' = IF landed THEN bins \cup {jobs[s][i].id} ELSE bins
    /\ Answered(s, i, ok, "bin")
    /\ UNCHANGED <<cues, loose>>

PutCue(s, i, landed, ok) ==
    /\ Job(s, i, "bin") /\ (ok => landed)
    /\ cues' = IF landed THEN [id \in DOMAIN cues \cup {jobs[s][i].id} |->
                                IF id = jobs[s][i].id THEN jobs[s][i].recs ELSE cues[id]]
                ELSE cues
    /\ Answered(s, i, ok, "good")
    /\ UNCHANGED <<plan, bins, loose>>

(* looseJob.run. *)
PutLoose(s, i, landed, ok) ==
    /\ Job(s, i, "queued") /\ jobs[s][i].kind = "loose" /\ (ok => landed)
    /\ loose' = IF landed THEN loose \cup {jobs[s][i].obj} ELSE loose
    /\ Answered(s, i, ok, "good")
    /\ UNCHANGED <<plan, bins, cues>>

(* done, first half: what readers are offered changes... *)
Unlist(s, i) ==
    /\ Job(s, i, "good") \/ Job(s, i, "bad")
    /\ LET j == jobs[s][i] IN
       store' = [store EXCEPT ![s] =
                   IF j.kind = "loose" THEN evict(store[s], j.obj)
                   ELSE IF j.stage = "good" THEN markUploaded(store[s], j.id) ELSE deregister(store[s], j.id)]
    /\ Stage(s, i, "unlisted")
    /\ UNCHANGED <<plan, bins, cues, loose, cold, reading, iter, acked>>

(* ... second half: and the staged files go. *)
RemoveStaged(s, i) ==
    /\ Job(s, i, "unlisted")
    /\ Stage(s, i, "gone")
    /\ UNCHANGED <<plan, bins, cues, loose, store, cold, reading, iter, acked>>

(* Whether the staged file of a job, or the staged .bin of a name, is there. *)
OnDisk(s, i) == i \in DOMAIN jobs[s] /\ jobs[s][i].stage # "gone"
BinOnDisk(s, id) == \E i \in DOMAIN jobs[s] : jobs[s][i].kind = "pack" /\ jobs[s][i].id = id /\ OnDisk(s, i)

(* Mutant of FlushUploads: the recorded error is not returned. *)
FlushWithoutErrors(s) ==
    /\ ~store[s].flushed /\ jobs[s] # <<>>
    /\ \A i \in DOMAIN jobs[s] : ~OnDisk(s, i)
    /\ store' = [store EXCEPT ![s].flushed = TRUE]
    /\ acked' = acked \cup Own(s)
    /\ UNCHANGED <<plan, bins, cues, loose, jobs, cold, reading, iter>>

(* flush: every job has ended; no error means the push may set references. *)
FlushUploads(s) ==
    /\ ~store[s].flushed /\ jobs[s] # <<>>
    /\ \A i \in DOMAIN jobs[s] : ~OnDisk(s, i)
    /\ store' = [store EXCEPT ![s].flushed = TRUE]
    /\ acked' = IF store[s].err # "none" THEN acked ELSE acked \cup Own(s)
    /\ UNCHANGED <<plan, bins, cues, loose, jobs, cold, reading, iter>>
-----------------------------------------------------------------------------
(* The cold build. *)

(* ensurePacksBuilt: the check of built, and the listing. *)
ListPacks(s, b) ==
    /\ ~store[s].built /\ ~cold[s][b].on
    /\ cold' = [cold EXCEPT ![s][b] = [NoCold EXCEPT !.on = TRUE, !.todo = DOMAIN cues, !.before = acked]]
    /\ UNCHANGED <<plan, bins, cues, loose, store, jobs, reading, iter, acked>>

(* One .cue after the other.  The listing is in the order of the names, which
   are digests: any order. *)
FetchCue(s, b, id) ==
    /\ cold[s][b].on /\ id \in cold[s][b].todo
    /\ cold' = [cold EXCEPT ![s][b] = [cold[s][b] EXCEPT !.todo = @ \ {id},
                                                      !.got = Append(@, newPackTable(id, cues[id]))]]
    /\ UNCHANGED <<plan, bins, cues, loose, store, jobs, reading, iter, acked>>

FetchFails(s, b) ==
    /\ cold[s][b].on /\ cold[s][b].todo # {}
    /\ cold' = [cold EXCEPT ![s][b] = NoCold]
    /\ UNCHANGED <<plan, bins, cues, loose, store, jobs, reading, iter, acked>>

(* The tables read, as one, older than what the Storer registered itself. *)
Published(ix, got, before) ==
    LET one == IF Len(got) > 1 THEN <<mergeTables(got, {})>> ELSE got
    IN  Bounded([ix EXCEPT !.tables = one \o @, !.built = TRUE, !.seen = before])

(* The build is published unless another call was faster. *)
PublishBuild(s, b) ==
    /\ cold[s][b].on /\ cold[s][b].todo = {}
    /\ cold' = [cold EXCEPT ![s][b] = NoCold]
    /\ store' = [store EXCEPT ![s] = IF store[s].built THEN store[s]
                                     ELSE Published(store[s], cold[s][b].got, cold[s][b].before)]
    /\ UNCHANGED <<plan, bins, cues, loose, jobs, reading, iter, acked>>
-----------------------------------------------------------------------------
(* Reads.  due says whether the object must be there: the Storer wrote it
   itself, or a flush had covered it before the index was listed. *)

Due(s) == Own(s) \cup (IF store[s].built THEN store[s].seen
                       ELSE IF \E b \in Builder : cold[s][b].on THEN {} ELSE acked)

Ended(r) == r.stage \in {"ok", "missing", "bad"}
Read(s, r) ==
    reading' = [reading EXCEPT ![s] = IF Ended(r) THEN [NoRead EXCEPT !.stage = r.stage, !.due = r.due] ELSE r]

(* EncodedObject: the pending overlay first. *)
Pending(s, o) == o \in DOMAIN store[s].pending
ReadFrom(s, r, o) ==
    IF Pending(s, o) THEN [r EXCEPT !.at = o, !.stage = "pending", !.path = store[s].pending[o]]
                     ELSE [r EXCEPT !.at = o, !.stage = "lookup"]

Wanted(s, o, kind) == [NoRead EXCEPT !.goal = o, !.kind = kind, !.due = o \in Due(s)]

EncodedObject(s, o) == Read(s, ReadFrom(s, Wanted(s, o, "object"), o))

(* headInfo: an entry of the overlay answers by itself. *)
HeadInfo(s, o) ==
    Read(s, IF Pending(s, o) THEN [Wanted(s, o, "size") EXCEPT !.stage = "ok"]
            ELSE ReadFrom(s, Wanted(s, o, "size"), o))

(* DeltaObject: the packs before the overlay. *)
DeltaObject(s, o) == Read(s, [Wanted(s, o, "delta") EXCEPT !.at = o, !.stage = "lookup"])

StartRead(s) ==
    /\ reading[s].stage = "none" \/ Ended(reading[s])
    /\ \E o \in Obj :
         \/ "object" \in plan[s].reads /\ EncodedObject(s, o)
         \/ "size" \in plan[s].reads /\ HeadInfo(s, o)
         \/ "delta" \in plan[s].reads /\ DeltaObject(s, o)

(* Mutant of OpenPending: no fallback when the staged file is gone. *)
OpenPendingOnce(s) ==
    /\ reading[s].stage = "pending"
    /\ Read(s, [reading[s] EXCEPT !.path = 0, !.stage = IF OnDisk(s, reading[s].path) THEN "ok" ELSE "missing"])

(* decodePending: the file may be gone by now, and the bucket has the object.
   For a base the packs were searched before the overlay. *)
OpenPending(s) ==
    /\ reading[s].stage = "pending"
    /\ Read(s, [reading[s] EXCEPT !.path = 0,
                  !.stage = IF OnDisk(s, reading[s].path) THEN "ok"
                            ELSE IF reading[s].links = 0 THEN "lookup" ELSE "loose"])

(* packLookup, once the index is built.  A record gives the size; a base that
   no pack holds is read like any object, the overlay included (deltaBase), and
   so is what DeltaObject finds no delta of. *)
LookUp(s) ==
    LET r == reading[s] IN
    /\ r.stage = "lookup" /\ store[s].built
    /\ IF Found(store[s].tables, store[s].dead, r.at)
       THEN LET e == lookup(store[s].tables, store[s].dead, r.at)
            IN  Read(s, IF r.kind = "delta" /\ e.base = Whole THEN ReadFrom(s, [r EXCEPT !.kind = "object"], r.at)
                        ELSE [r EXCEPT !.pack = e.pack, !.base = e.base,
                                  !.stage = IF r.kind = "size" THEN "ok"
                                            ELSE IF r.at \in Empty /\ e.base = Whole THEN "framed"
                                            ELSE IF e.pack \in store[s].local THEN "staged" ELSE "fetch"])
       ELSE Read(s, IF r.kind = "delta" THEN ReadFrom(s, [r EXCEPT !.kind = "object"], r.at)
                    ELSE IF r.links > 0 /\ Pending(s, r.at) THEN ReadFrom(s, r, r.at)
                    ELSE [r EXCEPT !.stage = "loose"])

(* packPayload: the staged .bin, which may be gone by now... *)
OpenStaged(s) ==
    /\ reading[s].stage = "staged"
    /\ Read(s, [reading[s] EXCEPT !.stage = IF BinOnDisk(s, reading[s].pack) THEN "framed" ELSE "fetch"])

(* An object that is not there is missing; a base that is not there is damage. *)
Absence(r) == IF r.links = 0 THEN "missing" ELSE "bad"

(* ... then the bucket. *)
FetchPayload(s) ==
    /\ reading[s].stage = "fetch"
    /\ Read(s, [reading[s] EXCEPT !.stage = IF reading[s].pack \in bins THEN "framed" ELSE Absence(reading[s])])

(* framePacked and deltaBase: a delta is patched onto its base, unless it was
   the delta that was asked for. *)
FramePacked(s) ==
    LET r == reading[s] IN
    /\ r.stage = "framed"
    /\ Read(s, IF r.base = Whole \/ r.kind = "delta" THEN [r EXCEPT !.stage = "ok"]
               ELSE IF r.links >= MaxLinks \/ r.base = r.at THEN [r EXCEPT !.stage = "bad"]
               ELSE [r EXCEPT !.at = r.base, !.links = @ + 1, !.stage = "lookup"])

GetLoose(s) ==
    /\ reading[s].stage = "loose"
    /\ Read(s, [reading[s] EXCEPT !.stage = IF reading[s].at \in loose THEN "ok" ELSE Absence(reading[s])])

ReadStep(s) ==
    /\ \/ StartRead(s)
       \/ OpenPending(s) \/ LookUp(s) \/ OpenStaged(s) \/ FetchPayload(s) \/ FramePacked(s) \/ GetLoose(s)
    /\ UNCHANGED <<plan, bins, cues, loose, store, jobs, cold, iter, acked>>
-----------------------------------------------------------------------------
(* Iteration: over a snapshot of the index, then the loose keys. *)

(* order: the live records of a snapshot, as table and object. *)
order(tables, dead) == {r \in (DOMAIN tables) \X Obj : r[1] \in Holders(tables, dead, r[2])}

(* IterEncodedObjects: the snapshot, then the listing. *)
IterSnapshot(s) ==
    /\ iter[s].stage = "none" /\ store[s].built
    /\ iter' = [iter EXCEPT ![s] = [NoIter EXCEPT !.stage = "list", !.tables = store[s].tables,
                                       !.dead = store[s].dead, !.left = order(store[s].tables, store[s].dead),
                                       !.due = {o \in Due(s) : o \in loose \/ Found(store[s].tables, store[s].dead, o)}]]

IterList(s) ==
    /\ iter[s].stage = "list"
    /\ iter' = [iter EXCEPT ![s].stage = "walk", ![s].keys = loose]

(* Mutant of IterPacked: every record is yielded. *)
IterPackedAll(s) ==
    LET it == iter[s]
        r  == CHOOSE r \in it.left : TRUE
    IN  /\ it.stage = "walk" /\ it.left # {}
        /\ iter' = [iter EXCEPT ![s].left = @ \ {r}, ![s].out = Append(@, r[2])]

(* Next, packed part: only the record that lookup returns is yielded, and not
   if its pack has vanished. *)
IterPacked(s) ==
    LET it == iter[s]
        r  == CHOOSE r \in it.left : TRUE
        e  == it.tables[r[1]][r[2]]
    IN  /\ it.stage = "walk" /\ it.left # {}
        /\ iter' = [iter EXCEPT ![s].left = @ \ {r},
                      ![s].out = IF /\ r[1] = newest(it.tables, it.dead, r[2])
                                    /\ e.pack \in bins \/ BinOnDisk(s, e.pack)
                                 THEN Append(@, r[2]) ELSE @]

(* Next, loose part: what the snapshot holds was dealt with. *)
IterLoose(s) ==
    LET it == iter[s]
        o  == CHOOSE o \in it.keys : TRUE
    IN  /\ it.stage = "walk" /\ it.left = {} /\ it.keys # {}
        /\ iter' = [iter EXCEPT ![s].keys = @ \ {o},
                      ![s].out = IF Found(it.tables, it.dead, o) THEN @ ELSE Append(@, o)]

IterEnd(s) ==
    /\ iter[s].stage = "walk" /\ iter[s].left = {} /\ iter[s].keys = {}
    /\ iter' = [iter EXCEPT ![s].stage = "end"]

IterStep(s) ==
    /\ IterSnapshot(s) \/ IterList(s) \/ IterPacked(s) \/ IterLoose(s) \/ IterEnd(s)
    /\ UNCHANGED <<plan, bins, cues, loose, store, jobs, cold, reading, acked>>
-----------------------------------------------------------------------------
ObjectStoreNext ==
    \/ \E p \in Plans : Arrive(p)
    \/ \E s \in Storer :
        \/ \E queued \in BOOLEAN : Seal(s, queued) \/ WriteLoose(s, queued)
        \/ \E i \in DOMAIN jobs[s], landed, ok \in BOOLEAN :
               PutBin(s, i, landed, ok) \/ PutCue(s, i, landed, ok) \/ PutLoose(s, i, landed, ok)
        \/ \E i \in DOMAIN jobs[s] : Unlist(s, i) \/ RemoveStaged(s, i)
        \/ FlushUploads(s)
        \/ \E b \in plan[s].builders :
               \/ ListPacks(s, b) \/ FetchFails(s, b) \/ PublishBuild(s, b)
               \/ \E id \in cold[s][b].todo : FetchCue(s, b, id)
        \/ ReadStep(s)
        \/ plan[s].iterates /\ IterStep(s)

ObjectStoreSpec == ObjectStoreInit /\ [][ObjectStoreNext]_osVars
-----------------------------------------------------------------------------
(* The containers of this run; the ones of the requests that have arrived. *)
AllSealed == Stored \cup UNION {UNION {Range(p[s].seals) : s \in Storer} : p \in Plans}
Arrived == Stored \cup UNION {Range(plan[s].seals) : s \in Storer}

(* The records of T in a table are those of one pack, container c, and their
   bases lead in a circle in it. *)
CircleOf(t, T, c) ==
    /\ T # {} /\ T \subseteq DOMAIN c
    /\ \A o \in T : c[o] \in T /\ t[o].base = c[o]
    /\ \A o, p \in T : t[o].pack = t[p].pack

(* Where bases lead from object to object without an end, a circle that one
   container was sealed with is the cause. *)
CirclesAreSealed(t) ==
    \A S \in SUBSET DOMAIN t :
        S # {} /\ (\A o \in S : t[o].base \in S) => \E T \in SUBSET S, c \in AllSealed : CircleOf(t, T, c)

(* The records of several containers never close a circle between them, although
   each base is resolved by hash and may be found in another container than its
   delta: following bases through an index ends, unless it enters a circle that
   one container has all by itself; as long as no upload of the Storer failed. *)
ChainsEnd ==
    \A s \in Storer : store[s].err = "none" => CirclesAreSealed(mergeTables(store[s].tables, store[s].dead))

(* No container has a circle of its own: no push repeated an object of a delta. *)
NoCircles == \A c \in Arrived : \A S \in SUBSET DOMAIN c : S # {} => \E o \in S : c[o] \notin S

(* A Storer none of whose uploads failed finds what it wrote itself, and what
   was flushed before it listed the packs, at every moment of its uploads; and
   it never takes an object for damaged, unless a container has a circle. *)
ReadsFind ==
    \A s \in Storer :
        store[s].err = "none" =>
            /\ NoCircles => reading[s].stage # "bad"
            /\ reading[s].due => reading[s].stage # "missing"

(* An iteration yields no object twice, and every object that was in the index
   or loose when it began. *)
IterationComplete ==
    \A s \in Storer :
        iter[s].stage = "end" =>
            /\ IsInjective(iter[s].out)
            /\ store[s].err = "none" => iter[s].due \subseteq Range(iter[s].out)

(* What a new Storer finds of an object: a record or a loose object, the same of
   the bases, and a chain that ends within the links a read walks. *)
Resolves(t, o) ==
    LET Chain[n \in 0 .. MaxLinks + 1] == IF n = 0 THEN {o} ELSE {t[p].base : p \in Chain[n - 1] \cap DOMAIN t}
    IN  /\ \A n \in 0 .. MaxLinks : Chain[n] \subseteq DOMAIN t \cup loose \cup {Whole}
        /\ NoCircles /\ o \in DOMAIN t => Chain[MaxLinks + 1] \subseteq {Whole}

(* Once a flush has succeeded, the objects it covered can be found in the bucket
   by any later Storer, in every order the names may be listed in, whatever other
   pushes do or fail to do: every .cue that is listed has its .bin (packJob.run),
   and a record leads to it.  They can be read as well, unless a container has a
   circle. *)
DurableObjectsStay ==
    /\ DOMAIN cues \subseteq bins
    /\ \A q \in Bijection(1 .. Cardinality(DOMAIN cues), DOMAIN cues) :
         LET t == mergeTables([i \in DOMAIN q |-> newPackTable(q[i], cues[q[i]])], {})
         IN  \A o \in acked : Resolves(t, o)
=============================================================================
