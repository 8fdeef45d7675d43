------------------------------ MODULE IndexPack ------------------------------
(***************************************************************************)
(* internal/storage/tigris/indexpack.go and the segment writer of          *)
(* packwriter.go: a pushed pack is scanned once, then every delta tree is  *)
(* walked depth first from its base, and each object goes into the         *)
(* container being built, whole or as the client's delta.                  *)
(*                                                                         *)
(* An object stands for its hash and its bytes.  Of a body only its size   *)
(* is kept, and whether the resolver holds it in memory or on disk; of a   *)
(* delta the two sizes in its header and the lengths its commands copy or  *)
(* insert.                                                                 *)
(***************************************************************************)
EXTENDS Integers, Sequences, FiniteSets, Functions, Collections

CONSTANTS
    Packs,             \* the packs a client may send
    InRepository,      \* the objects the repository already holds
    Raw,               \* their sizes
    MaxPackBytes,
    MaxDeltaDepth,
    MaxIncomingDepth,  \* maxIncomingDeltaDepth
    BodyMemLimit,
    BodyMemBudget,
    CompressionFloor,
    MinGainBytes

(* An entry has the type its header names, the size it declares and the size
   its stream inflates to; a delta has a target size of its own.  Nothing says
   that an object comes once. *)
PackEntry == UNION {Range(p) : p \in Packs}

ASSUME EntryAssumption ==
    /\ Packs \subseteq Seq(PackEntry)
    /\ \A e \in PackEntry : /\ e.typ \in {"whole", "ofs", "ref"}
                           /\ e.size \in Nat /\ e.d.tgt \in Nat

ASSUME LimitAssumption ==
    /\ \A h \in InRepository : Raw[h] \in Nat
    /\ MaxPackBytes \in Nat /\ MaxDeltaDepth \in Nat /\ MaxIncomingDepth \in Nat
    /\ BodyMemLimit \in Nat /\ BodyMemBudget \in Nat
    /\ CompressionFloor \in Nat /\ MinGainBytes \in Nat

NoBase == 0          \* not an index of an entry and not an object
NoSerial == -1       \* the container of a base from outside the pack
NoBody == [size |-> 0, kept |-> "nowhere"]
NoSegment == [recs |-> <<>>, offset |-> 0, open |-> FALSE]
NoWork == [delta |-> NoBody, out |-> NoBody, stage |-> "none"]

VARIABLES
    pack,        \* the entries scanPack indexed
    resolving,   \* "idle", "walk", "done" or "failed"
    nextRoot,    \* run's position in the pack
    refsDone,    \* the REF-deltas already handed to a base
    frames,      \* the calls of walk in progress, outermost first
    work,        \* the bodies of the child walk is busy with
    mem,         \* bytes of body held in memory
    seg,         \* the container being built
    serial,
    sealed       \* the containers handed to seal, in order

ipVars == <<pack, resolving, nextRoot, refsDone, frames, work, mem, seg, serial, sealed>>

IndexPackInit ==
    /\ pack = <<>> /\ resolving = "idle" /\ nextRoot = 1 /\ refsDone = {}
    /\ frames = <<>> /\ work = NoWork /\ mem = 0
    /\ seg = NoSegment /\ serial = 0 /\ sealed = <<>>
-----------------------------------------------------------------------------
(* Scanning. *)

(* scanEntryHeader: an OFS-delta names an entry before it. *)
HeaderOk(p, i) ==
    p[i].typ = "ofs" => p[i].base \in 1 .. (i - 1)

(* inflateTo: the stream holds exactly the size the header declares. *)
InflateOk(e) == e.inflates = e.size

ScanOk(p, trailer) == trailer /\ \A i \in DOMAIN p : HeaderOk(p, i) /\ InflateOk(p[i])

(* linkKids: the OFS-deltas on entry i, in pack order. *)
OfsKids(i) ==
    Kept([j \in DOMAIN pack |-> j], {j \in DOMAIN pack : pack[j].typ = "ofs" /\ pack[j].base = i})

(* children: then the REF-deltas that name h and are not resolved yet. *)
RefKids(h) == {j \in DOMAIN pack : pack[j].typ = "ref" /\ pack[j].base = h} \ refsDone

(* They come in the order of a sort that looks at the base alone. *)
Orders(S) == Bijection(1 .. Cardinality(S), S)

(* The size of the object entry e defines. *)
RawSize(e) == IF e.typ = "whole" THEN e.size ELSE e.d.tgt

(* ReadPack, then Close up to the call of run. *)
ReadPack(p, trailer) ==
    /\ pack' = p
    /\ resolving' = IF ScanOk(p, trailer) THEN "walk" ELSE "failed"
    /\ UNCHANGED <<nextRoot, refsDone, frames, work, mem, seg, serial, sealed>>
-----------------------------------------------------------------------------
(* Bodies. *)

(* Mutant of Body: the bound leaves out what other bodies hold. *)
BodyWithoutBudget(size) ==
    [size |-> size, kept |-> IF size > BodyMemLimit THEN "disk" ELSE "mem"]

(* newSink, Write and finish: a body leaves memory once it passes what the
   bound admits. *)
Body(size) ==
    [size |-> size,
     kept |-> IF size > BodyMemLimit \/ size > BodyMemBudget - mem THEN "disk" ELSE "mem"]

InMem(b) == IF b.kept = "mem" THEN b.size ELSE 0

(* apply: the sizes of the header must fit base and result, each command must
   stay inside them, and no command may be left over.  A copy of size 0 means
   CopyAll bytes; command 0 is reserved. *)
CopyAll == 65536

CommandSize(c) == IF c.op = "copy" /\ c.sz = 0 THEN CopyAll ELSE c.sz

Remaining(d) ==
    LET remaining[k \in 0 .. Len(d.cmds)] ==
            IF k = 0 THEN d.tgt ELSE remaining[k - 1] - CommandSize(d.cmds[k])
    IN  remaining

ApplyOk(d, baseSize) ==
    /\ d.src = baseSize
    /\ \A k \in DOMAIN d.cmds :
         LET c == d.cmds[k] IN
         /\ CommandSize(c) \in 1 .. Remaining(d)[k - 1]
         /\ c.op = "copy" => c.off + CommandSize(c) <= d.src
    /\ Remaining(d)[Len(d.cmds)] = 0
-----------------------------------------------------------------------------
(* Containers. *)

(* worthStoring, compressBlock, writePayload, writeProbed: how many bytes a
   payload of n bytes may take in the container.  A compressed form is kept
   only when it saves MinGainBytes; a probe that mispredicts is rewound. *)
worthStoring(compressed, raw) == compressed + MinGainBytes <= raw

StoredSizes(n) ==
    {n} \cup {c \in 1 .. n : n >= CompressionFloor /\ worthStoring(c, n)}

(* Mutant of MustSeal: the cap is looked at after the add. *)
MustSealLate(raw) == seg.open /\ seg.recs # <<>> /\ seg.offset >= MaxPackBytes

(* place, first half: seal before the add when the object would push the
   container past the cap, and open the next container. *)
MustSeal(raw) == seg.open /\ seg.recs # <<>> /\ seg.offset + raw > MaxPackBytes

SegmentFor(raw) == IF seg.open /\ ~MustSeal(raw) THEN seg ELSE [NoSegment EXCEPT !.open = TRUE]
SerialFor(raw) == IF seg.open /\ ~MustSeal(raw) THEN serial ELSE serial + 1

(* Mutant of KeepsDelta: the base may be in another container. *)
KeepsDeltaAcross(e, baseSerial, baseChain) ==
    e.size < RawSize(e) /\ baseChain < MaxDeltaDepth

(* place, second half: when the client's delta is stored instead of the whole
   object. *)
KeepsDelta(e, baseSerial, baseChain) ==
    /\ baseSerial = SerialFor(RawSize(e))
    /\ e.size < RawSize(e)
    /\ baseChain < MaxDeltaDepth

(* add: the record of an object, and the segment with it. *)
Added(e, base, stored) ==
    LET g == SegmentFor(RawSize(e))
    IN  [g EXCEPT !.recs = Append(@, [obj |-> e.obj, base |-> base, offset |-> g.offset,
                                      stored |-> stored, raw |-> RawSize(e)]),
                  !.offset = @ + stored]

(* place as a whole. *)
Place(e, base, asDelta) ==
    \E stored \in StoredSizes(IF asDelta THEN e.size ELSE RawSize(e)) :
        /\ seg' = Added(e, IF asDelta THEN base ELSE NoBase, stored)
        /\ serial' = SerialFor(RawSize(e))
        /\ sealed' = IF MustSeal(RawSize(e)) THEN Append(sealed, seg) ELSE sealed

(* What the walks on the stack hold in memory. *)
HeldBy(fs) == SumFunctionOnSet([k \in DOMAIN fs |-> InMem(fs[k].body)], DOMAIN fs)

(* An error below run.  Every walk on the stack releases its base as it
   returns, and the statement that failed releases the bodies it holds; Close
   discards the open segment, which seal owns when the error is its own.  A
   container sealed before the error stays enqueued. *)
Fail(held, sealedNow) ==
    /\ resolving' = "failed"
    /\ mem' = mem - held - HeldBy(frames)
    /\ frames' = <<>> /\ work' = NoWork /\ seg' = NoSegment
    /\ sealed' = sealedNow
    /\ UNCHANGED <<pack, nextRoot, refsDone, serial>>

PlaceFails(e, held) ==
    \/ Fail(held, sealed)                                    \* seal, newPackSegment or add
    \/ MustSeal(RawSize(e)) /\ Fail(held, Append(sealed, seg))    \* add, after the seal
-----------------------------------------------------------------------------
(* The walk. *)

Top == frames[Len(frames)]
Child == pack[Head(Top.kids)]
Callers == SubSeq(frames, 1, Len(frames) - 1)
WithKids(kids) == Append(Callers, [Top EXCEPT !.kids = kids])

Frame(kids, h, body, at, chain, depth) ==
    [kids |-> kids, base |-> h, body |-> body, serial |-> at, chain |-> chain, depth |-> depth]

(* root: an object nothing is built on streams into the container; any other
   is inflated into a body, placed, and walked. *)
Root ==
    /\ resolving = "walk" /\ frames = <<>> /\ nextRoot <= Len(pack)
    /\ nextRoot' = nextRoot + 1
    /\ UNCHANGED <<pack, resolving, work>>
    /\ LET e == pack[nextRoot] IN
       IF e.typ # "whole" THEN UNCHANGED <<refsDone, frames, mem, seg, serial, sealed>>
       ELSE \E refs \in Orders(RefKids(e.obj)) :
              LET kids == OfsKids(nextRoot) \o refs
                  b    == Body(e.size)
              IN  /\ refsDone' = refsDone \cup Range(refs)
                  /\ Place(e, NoBase, FALSE)
                  /\ IF kids = <<>> THEN UNCHANGED <<frames, mem>>
                     ELSE /\ frames' = <<Frame(kids, e.obj, b, SerialFor(RawSize(e)), 0, 1)>>
                          /\ mem' = mem + InMem(b)

RootFails ==
    /\ resolving = "walk" /\ frames = <<>> /\ nextRoot <= Len(pack)
    /\ pack[nextRoot].typ = "whole"
    /\ PlaceFails(pack[nextRoot], 0)

(* run's second loop: a REF-delta still pending names a base outside the pack,
   and the push fails when the repository lacks it or cannot read it. *)
ExternalBase(j) ==
    /\ resolving = "walk" /\ frames = <<>> /\ nextRoot > Len(pack)
    /\ pack[j].typ = "ref" /\ j \notin refsDone
    /\ LET h == pack[j].base IN
       \/ Fail(0, sealed)
       \/ /\ h \in InRepository
          /\ \E refs \in Orders(RefKids(h)) :
               /\ frames' = <<Frame(refs, h, Body(Raw[h]), NoSerial, 0, 1)>>
               /\ mem' = mem + InMem(Body(Raw[h]))
               /\ refsDone' = refsDone \cup Range(refs)
               /\ UNCHANGED <<pack, resolving, nextRoot, work, seg, serial, sealed>>

Walking == resolving = "walk" /\ frames # <<>>

(* walk on entry: the client's chain may not be deeper than git's own limit. *)
TooDeep == Walking /\ Top.depth > MaxIncomingDepth /\ Fail(0, sealed)

(* walk, inflateBody of the next child. *)
InflateChild ==
    /\ Walking /\ work = NoWork /\ Top.kids # <<>> /\ Top.depth <= MaxIncomingDepth
    /\ work' = [NoWork EXCEPT !.stage = "inflated", !.delta = Body(Child.size)]
    /\ mem' = mem + InMem(work'.delta)
    /\ UNCHANGED <<pack, resolving, nextRoot, refsDone, frames, seg, serial, sealed>>

(* walk, apply: a delta that does not fit fails the push. *)
ApplyChild ==
    /\ Walking /\ work.stage = "inflated"
    /\ IF ApplyOk(Child.d, Top.body.size)
       THEN /\ work' = [work EXCEPT !.stage = "applied", !.out = Body(Child.d.tgt)]
            /\ mem' = mem + InMem(work'.out)
            /\ UNCHANGED <<pack, resolving, nextRoot, refsDone, frames, seg, serial, sealed>>
       ELSE Fail(InMem(work.delta), sealed)

(* walk, when a body cannot be read or spilled to disk: inflateBody holds
   nothing yet, apply holds the delta. *)
BodyFails ==
    /\ Walking /\ Top.depth <= MaxIncomingDepth
    /\ \/ work = NoWork /\ Top.kids # <<>> /\ Fail(0, sealed)
       \/ work.stage = "inflated" /\ Fail(InMem(work.delta), sealed)

(* walk, from the release of the base after its last use to the recursion into
   what is built on the child. *)
PlaceChild ==
    /\ Walking /\ work.stage = "applied"
    /\ \E refs \in Orders(RefKids(Child.obj)) :
         LET grand   == OfsKids(Head(Top.kids)) \o refs
             last    == Len(Top.kids) = 1
             asDelta == KeepsDelta(Child, Top.serial, Top.chain)
             below   == IF last THEN Append(Callers, [Top EXCEPT !.kids = <<>>, !.body = NoBody])
                                ELSE WithKids(Tail(Top.kids))
             next    == Frame(grand, Child.obj, work.out, SerialFor(RawSize(Child)),
                              IF asDelta THEN Top.chain + 1 ELSE 0, Top.depth + 1)
         IN  /\ Place(Child, Top.base, asDelta)
             /\ refsDone' = refsDone \cup Range(refs)
             /\ frames' = IF grand = <<>> THEN below ELSE Append(below, next)
             /\ mem' = mem - InMem(work.delta) - (IF last THEN InMem(Top.body) ELSE 0)
                           - (IF grand = <<>> THEN InMem(work.out) ELSE 0)
    /\ work' = NoWork
    /\ UNCHANGED <<pack, resolving, nextRoot>>

PlaceChildFails ==
    /\ Walking /\ work.stage = "applied"
    /\ PlaceFails(Child, InMem(work.delta) + InMem(work.out))

(* walk returns: its base goes, if it has not gone already. *)
Return ==
    /\ Walking /\ work = NoWork /\ Top.kids = <<>>
    /\ frames' = Callers
    /\ mem' = mem - InMem(Top.body)
    /\ UNCHANGED <<pack, resolving, nextRoot, refsDone, work, seg, serial, sealed>>

(* Mutant of SealLast: REF-deltas still pending are forgotten. *)
SealLastEarly ==
    /\ resolving = "walk" /\ frames = <<>> /\ nextRoot > Len(pack)
    /\ resolving' = "done"
    /\ sealed' = IF seg.open THEN Append(sealed, seg) ELSE sealed
    /\ seg' = NoSegment
    /\ UNCHANGED <<pack, nextRoot, refsDone, frames, work, mem, serial>>

(* Close after run: the last container is sealed, if there is one. *)
SealLast ==
    /\ resolving = "walk" /\ frames = <<>> /\ nextRoot > Len(pack)
    /\ {j \in DOMAIN pack : pack[j].typ = "ref"} \subseteq refsDone
    /\ resolving' = "done"
    /\ sealed' = IF seg.open THEN Append(sealed, seg) ELSE sealed
    /\ seg' = NoSegment
    /\ UNCHANGED <<pack, nextRoot, refsDone, frames, work, mem, serial>>

(* That seal fails, before the container is registered or while it waits for room
   in the uploader. *)
SealLastFails ==
    /\ resolving = "walk" /\ frames = <<>> /\ nextRoot > Len(pack)
    /\ {j \in DOMAIN pack : pack[j].typ = "ref"} \subseteq refsDone
    /\ seg.open /\ Fail(0, sealed)

IndexPackNext ==
    \/ resolving = "idle" /\ \E p \in Packs, trailer \in BOOLEAN : ReadPack(p, trailer)
    \/ Root
    \/ RootFails
    \/ \E j \in DOMAIN pack : ExternalBase(j)
    \/ TooDeep
    \/ InflateChild
    \/ ApplyChild
    \/ BodyFails
    \/ PlaceChild
    \/ PlaceChildFails
    \/ Return
    \/ SealLast
    \/ SealLastFails

IndexPackSpec == IndexPackInit /\ [][IndexPackNext]_ipVars
-----------------------------------------------------------------------------
(* The containers a push has sealed, and the one it is building. *)
Built == IF seg.open THEN Append(sealed, seg) ELSE sealed

Objects(g) == {g.recs[i].obj : i \in DOMAIN g.recs}

(* What a reader keeps of a container: buildTable takes the last record of each
   object in the order of the .cue, and seal sorts that by hash alone, not stably,
   so of an object that comes again it may be any. *)
KeptRecords(g) ==
    {kept \in [Objects(g) -> DOMAIN g.recs] : \A o \in Objects(g) : g.recs[kept[o]].obj = o}

(* Whichever it keeps, it gets from every object to a whole one, and no chain is
   longer than a read walks: objects can be given depths up to the limit that grow
   from base to delta. *)
Readable(g) ==
    \A kept \in KeptRecords(g) : \E depth \in [Objects(g) -> 0 .. MaxDeltaDepth] :
        \A o \in Objects(g) :
            LET base == g.recs[kept[o]].base IN
            base = NoBase \/ (base \in Objects(g) /\ depth[base] < depth[o])

(* An object the container holds as a delta is in it a second time. *)
Repeats(g) ==
    \E i, j \in DOMAIN g.recs : i # j /\ g.recs[i].obj = g.recs[j].obj /\ g.recs[i].base # NoBase

(* The base of every delta was written to its container before the delta, so that
   no read follows a base into another container; and a container that holds no
   object both as a delta and again can be read on its own.  This is what place's
   three conditions are for. *)
ContainersSelfContained ==
    \A g \in Range(Built) :
        /\ \A i \in DOMAIN g.recs :
              g.recs[i].base # NoBase => \E j \in 1 .. (i - 1) : g.recs[j].obj = g.recs[i].base
        /\ ~Repeats(g) => Readable(g)

(* Every container can be read on its own, as the docs have it; place does not ask
   whether the object it is given, or its base, is in the container already. *)
EveryContainerReadable == \A g \in Range(Built) : Readable(g)

(* The stored bytes of a container stay within the cap unless one object alone
   exceeds it, and the records tile the container: place compares the raw size
   although stored bytes are what accumulates. *)
ContainersWithinCap ==
    \A g \in Range(Built) :
        /\ g.offset <= MaxPackBytes \/ Len(g.recs) = 1
        /\ \A i \in DOMAIN g.recs :
              g.recs[i].offset + g.recs[i].stored = IF i = Len(g.recs) THEN g.offset
                                                    ELSE g.recs[i + 1].offset

(* The bodies counted by r.mem are exactly the ones alive, the count never
   passes the budget, and no path out of run, failed ones included, leaves a
   body behind. *)
BodiesAccounted ==
    /\ mem = HeldBy(frames) + InMem(work.delta) + InMem(work.out)
    /\ mem <= BodyMemBudget
    /\ resolving \in {"done", "failed"} => mem = 0

(* The objects a pack defines, independently of any order: the least set that
   holds its whole objects and every delta whose base it holds, or whose named
   base is in the repository. *)
Closed(S) ==
    \A j \in DOMAIN pack :
        \/ pack[j].typ = "whole"
        \/ pack[j].typ = "ofs" /\ pack[j].base \in S
        \/ pack[j].typ = "ref" /\ (\/ pack[j].base \in InRepository
                                   \/ \E i \in S : pack[i].obj = pack[j].base)
        => j \in S
Defined == {j \in DOMAIN pack : \A S \in SUBSET DOMAIN pack : Closed(S) => j \in S}

(* Where the records of a list of containers are. *)
Spots(cs) == UNION {{g} \X DOMAIN cs[g].recs : g \in DOMAIN cs}

(* A push that ends well has stored every entry of its pack exactly once, in
   whatever order bases and deltas came and however often an object comes; one
   whose pack does not define all its objects never ends well. *)
EveryObjectStoredOnce ==
    resolving = "done" =>
        /\ Defined = DOMAIN pack
        /\ \E at \in Bijection(DOMAIN pack, Spots(sealed)) :
              \A i \in DOMAIN pack : sealed[at[i][1]].recs[at[i][2]].obj = pack[i].obj
=============================================================================
