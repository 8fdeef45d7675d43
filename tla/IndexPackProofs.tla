--------------------------- MODULE IndexPackProofs ---------------------------
(***************************************************************************)
(* Proofs about IndexPack: the bodies in memory are accounted for, and the *)
(* containers a push seals keep to the cap and can be read on their own;   *)
(* a push which ends well has stored every entry of its pack once.         *)
(***************************************************************************)
EXTENDS IndexPack, CollectionLemmas, TLAPS

BodyType == [size : Nat, kept : {"nowhere", "mem", "disk"}]
WorkType == [delta : BodyType, out : BodyType, stage : {"none", "inflated", "applied"}]
Known == InRepository \cup {e.obj : e \in PackEntry}
FrameType == [kids : Seq(Nat), base : Known, body : BodyType, serial : Int, chain : Nat, depth : Nat]
RecType == [obj : Known, base : Known \cup {NoBase}, offset : Nat, stored : Nat, raw : Nat]
SegType == [recs : Seq(RecType), offset : Nat, open : BOOLEAN]

(* The kinds of values the variables hold. *)
Types ==
    /\ pack \in Packs \cup {<<>>} /\ resolving \in {"idle", "walk", "done", "failed"}
    /\ nextRoot \in Nat \ {0} /\ refsDone \in SUBSET DOMAIN pack
    /\ frames \in Seq(FrameType)
    /\ \A k \in DOMAIN frames : Range(frames[k].kids) \subseteq DOMAIN pack
    /\ work \in WorkType /\ mem \in Nat
    /\ seg \in SegType /\ serial \in Nat /\ sealed \in Seq(SegType)

(* What the phase of a push says about its stack. *)
Phase ==
    /\ resolving = "idle" => frames = <<>> /\ refsDone = {} /\ nextRoot = 1 /\ sealed = <<>>
    /\ resolving # "walk" => frames = <<>> /\ work = NoWork /\ ~seg.open
    /\ work # NoWork => /\ frames # <<>> /\ Top.kids # <<>> /\ Top.depth <= MaxIncomingDepth
                        /\ work.stage # "none"
    /\ work.stage = "inflated" => work.out = NoBody
    /\ ~seg.open => seg = NoSegment
    /\ resolving \in {"walk", "done"} => ScanOk(pack, TRUE)

(* ContainersWithinCap, of one container. *)
Tiled(g) ==
    /\ g.offset <= MaxPackBytes \/ Len(g.recs) = 1
    /\ \A i \in DOMAIN g.recs :
          g.recs[i].offset + g.recs[i].stored = IF i = Len(g.recs) THEN g.offset
                                                ELSE g.recs[i + 1].offset

(* The records of a container can be ranked: bases come before deltas and have a
   lower rank. *)
Ranked(g, depth) ==
    /\ depth \in [DOMAIN g.recs -> 0 .. MaxDeltaDepth]
    /\ \A i \in DOMAIN g.recs :
          \/ g.recs[i].base = NoBase
          \/ \E j \in 1 .. (i - 1) : g.recs[j].obj = g.recs[i].base /\ depth[j] < depth[i]

(* A walk whose base is in the open container: the base is on record there, at
   the depth the walk knows. *)
Based(s, f, depth) == \E j \in DOMAIN s.recs : s.recs[j].obj = f.base /\ depth[j] <= f.chain

Chains ==
    /\ \A g \in Range(sealed) : \E depth : Ranked(g, depth)
    /\ seg.open => \E depth : /\ Ranked(seg, depth)
                              /\ \A k \in DOMAIN frames : frames[k].serial = serial => Based(seg, frames[k], depth)
    /\ \A k \in DOMAIN frames : frames[k].serial < serial \/ (frames[k].serial = serial /\ seg.open)
-----------------------------------------------------------------------------
(* The stack of walks. *)

(* The fields of a walk. *)
LEMMA FrameFields ==
    ASSUME NEW f \in FrameType
    PROVE  /\ f.kids \in Seq(Nat) /\ f.base \in Known /\ f.body \in BodyType
           /\ f.serial \in Int /\ f.chain \in Nat /\ f.depth \in Nat
BY DEF FrameType

(* A stack with a walk on it is its callers and the top. *)
LEMMA StackParts ==
    ASSUME frames \in Seq(FrameType), frames # <<>>
    PROVE  /\ Len(frames) \in Nat /\ Len(frames) >= 1
           /\ Top \in FrameType /\ Top = frames[Len(frames)]
           /\ Callers \in Seq(FrameType) /\ Len(Callers) = Len(frames) - 1
           /\ \A k \in 1 .. (Len(frames) - 1) : Callers[k] = frames[k]
<1>1. Len(frames) \in Nat /\ Len(frames) >= 1
  OBVIOUS
<1>2. Top \in FrameType /\ Top = frames[Len(frames)]
  BY <1>1 DEF Top
<1> DEFINE m == Len(frames) - 1
<1>3. m \in Nat /\ m <= Len(frames)
  BY <1>1
<1>4. Callers \in Seq(FrameType) /\ Len(Callers) = m /\ \A k \in 1 .. m : Callers[k] = frames[k]
  <2> HIDE DEF m
  <2>1. LET q == SubSeq(frames, 1, m) IN q \in Seq(FrameType) /\ Len(q) = m /\ \A k \in 1 .. m : q[k] = frames[k]
    BY <1>3
  <2> QED
    BY <2>1, Zenon DEF Callers, m
<1> QED
  BY <1>1, <1>2, <1>4

(* A stack and one more walk. *)
LEMMA StackPush ==
    ASSUME NEW fs \in Seq(FrameType), NEW f \in FrameType
    PROVE  /\ Append(fs, f) \in Seq(FrameType) /\ Len(Append(fs, f)) = Len(fs) + 1
           /\ DOMAIN Append(fs, f) = DOMAIN fs \cup {Len(fs) + 1} /\ Len(fs) + 1 \notin DOMAIN fs
           /\ Append(fs, f)[Len(fs) + 1] = f
           /\ \A k \in DOMAIN fs : Append(fs, f)[k] = fs[k]
  OBVIOUS

(* The body of a walk takes no negative amount of memory. *)
LEMMA InMemNat ==
    ASSUME NEW b \in BodyType PROVE InMem(b) \in Nat
BY DEF InMem, BodyType

(* The memory held by no walk, and by one more. *)
LEMMA HeldByNone == HeldBy(<<>>) = 0
<1>1. DOMAIN <<>> = {}
  OBVIOUS
<1> QED
  BY <1>1, SumEmpty, Zenon DEF HeldBy

LEMMA HeldByNat ==
    ASSUME NEW fs \in Seq(FrameType)
    PROVE  HeldBy(fs) \in Nat
<1> DEFINE S == DOMAIN fs
           u == [k \in DOMAIN fs |-> InMem(fs[k].body)]
<1>1. IsFiniteSet(S)
  <2>1. S = 1 .. Len(fs) /\ Len(fs) \in Int /\ 1 \in Int
    OBVIOUS
  <2>2. IsFiniteSet(1 .. Len(fs))
    BY <2>1, FS_Interval
  <2> QED
    BY <2>1, <2>2, Zenon
<1>2. \A k \in S : u[k] \in Nat
  <2>1. \A k \in S : fs[k] \in FrameType
    OBVIOUS
  <2> QED
    BY <2>1, FrameFields, InMemNat, Zenon
<1> QED
  BY <1>1, <1>2, SumNat, Zenon DEF HeldBy

LEMMA HeldByPush ==
    ASSUME NEW fs \in Seq(FrameType), NEW f \in FrameType
    PROVE  HeldBy(Append(fs, f)) = HeldBy(fs) + InMem(f.body) /\ HeldBy(fs) \in Nat
<1> DEFINE gs == Append(fs, f)
           S == DOMAIN fs
           y == Len(fs) + 1
           u == [k \in DOMAIN fs |-> InMem(fs[k].body)]
           v == [k \in DOMAIN gs |-> InMem(gs[k].body)]
<1>1. gs \in Seq(FrameType) /\ DOMAIN gs = S \cup {y} /\ y \notin S /\ gs[y] = f /\ \A k \in S : gs[k] = fs[k]
  BY StackPush, Zenon
<1>2. IsFiniteSet(S)
  <2>1. S = 1 .. Len(fs) /\ Len(fs) \in Int /\ 1 \in Int
    OBVIOUS
  <2>2. IsFiniteSet(1 .. Len(fs))
    BY <2>1, FS_Interval
  <2> QED
    BY <2>1, <2>2, Zenon
<1>3. \A k \in S : u[k] \in Nat
  <2>1. \A k \in S : fs[k] \in FrameType
    OBVIOUS
  <2> QED
    BY <2>1, FrameFields, InMemNat, Zenon
<1>4. f.body \in BodyType
  BY FrameFields, Zenon
<1>5. \A k \in S : v[k] = u[k]
  BY <1>1, Zenon
<1>6. v[y] = InMem(f.body) /\ v[y] \in Nat
  BY <1>1, <1>4, InMemNat, Zenon
<1>7. HeldBy(fs) = SumFunctionOnSet(u, S) /\ HeldBy(gs) = SumFunctionOnSet(v, S \cup {y})
  BY <1>1, Zenon DEF HeldBy
<1> HIDE DEF gs, S, y, u, v
<1>8. SumFunctionOnSet(u, S) \in Nat
  BY <1>2, <1>3, SumNat, Zenon
<1>9. SumFunctionOnSet(v, S) = SumFunctionOnSet(u, S)
  <2>1. \A k \in S : u[k] \in Int /\ v[k] = u[k]
    BY <1>3, <1>5
  <2> QED
    BY <1>2, <2>1, SumAgree, Zenon
<1>10. SumFunctionOnSet(v, S \cup {y}) = SumFunctionOnSet(v, S) + v[y]
  <2>1. \A x \in S \cup {y} : v[x] \in Int
    BY <1>3, <1>5, <1>6
  <2> QED
    BY <1>1, <1>2, <2>1, SumPut, Zenon
<1> QED
  BY <1>6, <1>7, <1>8, <1>9, <1>10 DEF gs

(* A stack holds what its callers hold and what its top holds. *)
LEMMA HeldByTop ==
    ASSUME frames \in Seq(FrameType), frames # <<>>
    PROVE  HeldBy(frames) = HeldBy(Callers) + InMem(Top.body)
<1>1. Callers \in Seq(FrameType) /\ Top \in FrameType
  BY StackParts, Zenon
<1>2. frames = Append(Callers, Top)
  <2>1. /\ Append(Callers, Top) \in Seq(FrameType) /\ Len(Append(Callers, Top)) = Len(frames)
        /\ \A k \in 1 .. Len(frames) : frames[k] = Append(Callers, Top)[k]
    BY StackParts, StackPush
  <2> QED
    BY <2>1, SameSeq, Zenon
<1> QED
  BY <1>1, <1>2, HeldByPush, Zenon
-----------------------------------------------------------------------------
(* The ways a push fails. *)

(* What the statement that fails holds is what walk is busy with. *)
Held == InMem(work.delta) + InMem(work.out)

Fails ==
    /\ resolving = "walk"
    /\ \/ Fail(Held, sealed)
       \/ seg.open /\ Fail(Held, Append(sealed, seg))

(* The steps that go on. *)
ExternalRead(j) ==
    /\ resolving = "walk" /\ frames = <<>> /\ j \notin refsDone /\ pack[j].typ = "ref"
    /\ LET h == pack[j].base IN
       /\ h \in InRepository
       /\ \E refs \in Orders(RefKids(h)) :
            /\ frames' = <<Frame(refs, h, Body(Raw[h]), NoSerial, 0, 1)>>
            /\ mem' = mem + InMem(Body(Raw[h]))
            /\ refsDone' = refsDone \cup Range(refs)
            /\ UNCHANGED <<pack, resolving, nextRoot, work, seg, serial, sealed>>

ChildApplied ==
    /\ Walking /\ work.stage = "inflated"
    /\ work' = [work EXCEPT !.stage = "applied", !.out = Body(Child.d.tgt)]
    /\ mem' = mem + InMem(work'.out)
    /\ UNCHANGED <<pack, resolving, nextRoot, refsDone, frames, seg, serial, sealed>>

(* Nothing is held where nothing is in progress. *)
LEMMA NothingHeld ==
    /\ InMem(NoBody) = 0
    /\ work = NoWork => Held = 0
    /\ work.out = NoBody /\ InMem(work.delta) \in Nat => Held = InMem(work.delta)
<1>1. InMem(NoBody) = 0
  BY DEF InMem, NoBody
<1>2. NoWork.delta = NoBody /\ NoWork.out = NoBody
  BY DEF NoWork
<1> QED
  BY <1>1, <1>2 DEF Held

(* Every step is one of these. *)
LEMMA StepKinds ==
    ASSUME Types, Phase, IndexPackNext
    PROVE  \/ resolving = "idle" /\ \E p \in Packs, trailer \in BOOLEAN : ReadPack(p, trailer)
           \/ Root
           \/ Fails
           \/ \E j \in DOMAIN pack : ExternalRead(j)
           \/ InflateChild
           \/ ChildApplied
           \/ PlaceChild
           \/ Return
           \/ SealLast
<1>1. frames = <<>> => work = NoWork
  BY Zenon DEF Phase
<1>2. work = NoWork => Held = 0
  BY NothingHeld, Zenon
<1>3. work.stage = "inflated" => Held = InMem(work.delta)
  <2>1. work.delta \in BodyType
    BY DEF Types, WorkType
  <2> QED
    BY <2>1, InMemNat, NothingHeld, Zenon DEF Phase
<1>4. ASSUME RootFails PROVE Fails
  BY <1>1, <1>2, <1>4, Zenon DEF RootFails, PlaceFails, MustSeal, Fails
<1>5. ASSUME NEW j \in DOMAIN pack, ExternalBase(j) PROVE Fails \/ ExternalRead(j)
  BY <1>1, <1>2, <1>5, Zenon DEF ExternalBase, ExternalRead, Fails
<1>6. ASSUME TooDeep PROVE Fails
  <2>1. ~(Top.depth <= MaxIncomingDepth)
    <3>1. Top.depth \in Nat
      BY <1>6, StackParts, FrameFields, Zenon DEF Types, TooDeep, Walking
    <3> QED
      BY <1>6, <3>1, LimitAssumption DEF TooDeep
  <2>2. work = NoWork
    BY <2>1, Zenon DEF Phase
  <2> QED
    BY <1>2, <1>6, <2>2, Zenon DEF TooDeep, Walking, Fails
<1>7. ASSUME ApplyChild PROVE Fails \/ ChildApplied
  BY <1>3, <1>7, Zenon DEF ApplyChild, ChildApplied, Walking, Fails
<1>8. ASSUME BodyFails PROVE Fails
  BY <1>2, <1>3, <1>8, Zenon DEF BodyFails, Walking, Fails
<1>9. ASSUME PlaceChildFails PROVE Fails
  BY <1>9, Zenon DEF PlaceChildFails, PlaceFails, MustSeal, Walking, Fails, Held
<1>10. ASSUME SealLastFails PROVE Fails
  BY <1>1, <1>2, <1>10, Zenon DEF SealLastFails, Fails
<1> QED
  BY <1>4, <1>5, <1>6, <1>7, <1>8, <1>9, <1>10, Zenon DEF IndexPackNext
-----------------------------------------------------------------------------
(* Entries and the deltas on them. *)

(* A pack is a sequence of entries. *)
LEMMA PackFacts ==
    ASSUME pack \in Packs \cup {<<>>}
    PROVE  /\ Len(pack) \in Nat /\ DOMAIN pack = 1 .. Len(pack) /\ IsFiniteSet(DOMAIN pack)
           /\ \A i \in DOMAIN pack :
                 /\ pack[i] \in PackEntry /\ pack[i].obj \in Known
                 /\ pack[i].typ \in {"whole", "ofs", "ref"}
                 /\ pack[i].size \in Nat /\ pack[i].d.tgt \in Nat /\ RawSize(pack[i]) \in Nat
<1>1. pack \in Seq(PackEntry)
  <2>1. Packs \subseteq Seq(PackEntry)
    BY EntryAssumption, Zenon
  <2>2. <<>> \in Seq(PackEntry)
    OBVIOUS
  <2> QED
    BY <2>1, <2>2, Zenon
<1>2. Len(pack) \in Nat /\ DOMAIN pack = 1 .. Len(pack) /\ \A i \in DOMAIN pack : pack[i] \in PackEntry
  BY <1>1
<1>3. IsFiniteSet(1 .. Len(pack))
  BY <1>2, FS_Interval
<1>4. \A e \in PackEntry : /\ e.obj \in Known /\ e.typ \in {"whole", "ofs", "ref"}
                           /\ e.size \in Nat /\ e.d.tgt \in Nat /\ RawSize(e) \in Nat
  BY EntryAssumption, Zenon DEF Known, RawSize
<1> QED
  BY <1>2, <1>3, <1>4, Zenon

(* The sequence q lists the numbers in S, each once. *)
Lists(q, S) == q \in Seq(Nat) /\ Range(q) = S /\ IsInjective(q)

(* Two lists in a row. *)
LEMMA ListsConcat ==
    ASSUME NEW a, NEW b, NEW S, NEW T, Lists(a, S), Lists(b, T), S \cap T = {}
    PROVE  Lists(a \o b, S \cup T)
<1>1. a \in Seq(Nat) /\ b \in Seq(Nat)
  BY Zenon DEF Lists
<1>2. /\ a \o b \in Seq(Nat) /\ DOMAIN (a \o b) = 1 .. (Len(a) + Len(b))
      /\ \A i \in DOMAIN (a \o b) : (a \o b)[i] = IF i <= Len(a) THEN a[i] ELSE b[i - Len(a)]
  BY <1>1
<1>3. /\ \A i \in DOMAIN a : a[i] \in S
      /\ \A x \in S : \E i \in DOMAIN a : a[i] = x
      /\ \A i \in DOMAIN b : b[i] \in T
      /\ \A x \in T : \E i \in DOMAIN b : b[i] = x
      /\ \A i, j \in DOMAIN a : a[i] = a[j] => i = j
      /\ \A i, j \in DOMAIN b : b[i] = b[j] => i = j
  BY Zenon DEF Lists, Range, IsInjective
<1>4. DOMAIN a = 1 .. Len(a) /\ DOMAIN b = 1 .. Len(b) /\ Len(a) \in Nat /\ Len(b) \in Nat
  BY <1>1
<1> DEFINE c == a \o b
           n == Len(a)
<1>5. /\ c \in Seq(Nat) /\ DOMAIN c = 1 .. (n + Len(b)) /\ n \in Nat /\ Len(b) \in Nat
      /\ DOMAIN a = 1 .. n /\ DOMAIN b = 1 .. Len(b)
      /\ \A i \in DOMAIN c : c[i] = IF i <= n THEN a[i] ELSE b[i - n]
  BY <1>2, <1>4, Zenon
<1> HIDE DEF c, n
<1>6. /\ \A i \in DOMAIN c : \/ i \in DOMAIN a /\ c[i] = a[i]
                             \/ i - n \in DOMAIN b /\ c[i] = b[i - n]
      /\ \A i, j \in DOMAIN c : i - n = j - n => i = j
  BY <1>5
<1>61. \A i \in DOMAIN a : i \in DOMAIN c /\ c[i] = a[i]
  BY <1>5
<1>62. \A i \in DOMAIN b : n + i \in DOMAIN c /\ c[n + i] = b[i]
  <2> SUFFICES ASSUME NEW i \in DOMAIN b PROVE n + i \in DOMAIN c /\ c[n + i] = b[i]
    OBVIOUS
  <2>1. n + i \in DOMAIN c /\ ~(n + i <= n) /\ (n + i) - n = i
    BY <1>5
  <2> QED
    BY <1>5, <2>1
<1>63. \A x \in S : x \notin T
  OBVIOUS
<1>7. ASSUME NEW i \in DOMAIN c, NEW j \in DOMAIN c, c[i] = c[j] PROVE i = j
  <2>1. CASE i \in DOMAIN a /\ c[i] = a[i]
    <3>1. CASE j \in DOMAIN a /\ c[j] = a[j]
      BY <1>3, <1>7, <2>1, <3>1, Zenon
    <3>2. CASE j - n \in DOMAIN b /\ c[j] = b[j - n]
      BY <1>3, <1>63, <1>7, <2>1, <3>2, Zenon
    <3> QED
      BY <1>6, <3>1, <3>2, Zenon
  <2>2. CASE i - n \in DOMAIN b /\ c[i] = b[i - n]
    <3>1. CASE j \in DOMAIN a /\ c[j] = a[j]
      BY <1>3, <1>63, <1>7, <2>2, <3>1, Zenon
    <3>2. CASE j - n \in DOMAIN b /\ c[j] = b[j - n]
      BY <1>3, <1>6, <1>7, <2>2, <3>2, Zenon
    <3> QED
      BY <1>6, <3>1, <3>2, Zenon
  <2> QED
    BY <1>6, <2>1, <2>2, Zenon
<1>8. Range(c) = S \cup T
  <2>1. \A i \in DOMAIN c : c[i] \in S \cup T
    BY <1>3, <1>6, Zenon
  <2>2. ASSUME NEW x \in S \cup T PROVE \E i \in DOMAIN c : c[i] = x
    <3>1. CASE x \in S
      BY <1>3, <1>61, <3>1, Zenon
    <3>2. CASE x \in T
      <4>1. PICK i \in DOMAIN b : b[i] = x
        BY <1>3, <3>2, Zenon
      <4> QED
        BY <1>62, <4>1, Zenon
    <3> QED
      BY <3>1, <3>2, Zenon
  <2> QED
    BY <2>1, <2>2, Zenon DEF Range
<1> QED
  BY <1>5, <1>7, <1>8, Zenon DEF Lists, IsInjective, c

(* A list without its first element. *)
LEMMA ListsTail ==
    ASSUME NEW q, NEW S, Lists(q, S), q # <<>>
    PROVE  Head(q) \in S /\ Lists(Tail(q), S \ {Head(q)}) /\ (Len(q) = 1 => S = {Head(q)} /\ Tail(q) = <<>>)
<1>1. q \in Seq(Nat)
  BY Zenon DEF Lists
<1> DEFINE t == Tail(q)
           h == Head(q)
<1>2. Len(q) \in Nat /\ Len(q) >= 1 /\ DOMAIN q = 1 .. Len(q) /\ h = q[1]
  BY <1>1
<1>21. t \in Seq(Nat) /\ Len(t) = Len(q) - 1 /\ \A i \in 1 .. (Len(q) - 1) : t[i] = q[i + 1]
  BY <1>1, <1>2
<1>22. DOMAIN t = 1 .. (Len(q) - 1) /\ (Len(q) = 1 => t = <<>>)
  BY <1>1, <1>2, <1>21
<1>3. /\ \A i \in DOMAIN q : q[i] \in S
      /\ \A x \in S : \E i \in DOMAIN q : q[i] = x
      /\ \A i, j \in DOMAIN q : q[i] = q[j] => i = j
  BY Zenon DEF Lists, Range, IsInjective
<1> HIDE DEF t, h
<1>4. /\ 1 \in DOMAIN q /\ \A i \in DOMAIN t : i + 1 \in DOMAIN q /\ i + 1 # 1
      /\ \A i \in DOMAIN t : t[i] = q[i + 1]
      /\ \A i \in DOMAIN q : i = 1 \/ (i - 1 \in DOMAIN t /\ t[i - 1] = q[i])
      /\ \A i, j \in DOMAIN t : i + 1 = j + 1 => i = j
  BY <1>2, <1>21, <1>22
<1>5. h \in S
  BY <1>2, <1>3, <1>4, Zenon
<1>6. ASSUME NEW i \in DOMAIN t, NEW j \in DOMAIN t, t[i] = t[j] PROVE i = j
  <2>1. q[i + 1] = q[j + 1] /\ i + 1 \in DOMAIN q /\ j + 1 \in DOMAIN q
    BY <1>4, <1>6, Zenon
  <2>2. i + 1 = j + 1
    BY <1>3, <2>1, Zenon
  <2> QED
    BY <1>4, <2>2, Zenon
<1>7. ASSUME NEW i \in DOMAIN t PROVE t[i] \in S \ {h}
  <2>1. t[i] = q[i + 1] /\ i + 1 \in DOMAIN q /\ 1 \in DOMAIN q /\ i + 1 # 1
    BY <1>4, Zenon
  <2>2. q[i + 1] # q[1] /\ q[i + 1] \in S
    BY <1>3, <2>1, Zenon
  <2> QED
    BY <1>2, <2>1, <2>2, Zenon
<1>8. ASSUME NEW x \in S \ {h} PROVE \E i \in DOMAIN t : t[i] = x
  <2>1. PICK i \in DOMAIN q : q[i] = x
    BY <1>3, Zenon
  <2>2. i # 1
    BY <1>2, <2>1, Zenon
  <2> QED
    BY <1>4, <2>1, <2>2, Zenon
<1>9. Len(q) = 1 => S = {h} /\ t = <<>>
  <2> SUFFICES ASSUME Len(q) = 1 PROVE S = {h}
    BY <1>22, Zenon
  <2>1. \A i \in DOMAIN q : i = 1
    BY <1>2
  <2> QED
    BY <1>2, <1>3, <1>5, <2>1, Zenon
<1>10. Range(t) = S \ {h}
  BY <1>7, <1>8, Zenon DEF Range
<1> QED
  BY <1>21, <1>5, <1>6, <1>9, <1>10, Zenon DEF Lists, IsInjective, t, h

(* The deltas children returns. *)
OfsSet(i) == {j \in DOMAIN pack : pack[j].typ = "ofs" /\ pack[j].base = i}

LEMMA KidsListed ==
    ASSUME pack \in Packs \cup {<<>>}, NEW i, NEW h, NEW refs \in Orders(RefKids(h))
    PROVE  Lists(refs, RefKids(h)) /\ Lists(OfsKids(i) \o refs, OfsSet(i) \cup RefKids(h))
<1> DEFINE s == [j \in DOMAIN pack |-> j]
<1>1. Len(pack) \in Nat /\ DOMAIN pack = 1 .. Len(pack) /\ IsFiniteSet(DOMAIN pack)
  BY PackFacts, Zenon
<1>2. s \in Seq(Nat) /\ Range(s) = DOMAIN pack /\ IsInjective(s)
  <2>1. s \in Seq(Nat)
    BY <1>1
  <2> QED
    BY <2>1, Zenon DEF Range, IsInjective
<1>3. Lists(OfsKids(i), OfsSet(i))
  <2> HIDE DEF s
  <2>1. /\ Kept(s, OfsSet(i)) \in Seq(Nat) /\ Range(Kept(s, OfsSet(i))) = Range(s) \cap OfsSet(i)
        /\ IsInjective(Kept(s, OfsSet(i)))
    BY <1>2, KeptElements, Zenon
  <2>2. DOMAIN pack \cap OfsSet(i) = OfsSet(i)
    BY Zenon DEF OfsSet
  <2>3. OfsKids(i) = Kept(s, OfsSet(i))
    BY Zenon DEF OfsKids, OfsSet, s
  <2> QED
    BY <1>2, <2>1, <2>2, <2>3, Zenon DEF Lists
<1>4. Lists(refs, RefKids(h))
  <2> DEFINE S == RefKids(h)
             n == Cardinality(S)
  <2>1. S \in SUBSET DOMAIN pack
    BY Zenon DEF RefKids
  <2>2. n \in Nat
    BY <1>1, <2>1, FS_Subset, FS_CardinalityType, Zenon
  <2>3. refs \in [1 .. n -> S] /\ IsInjective(refs) /\ \A t \in S : \E k \in 1 .. n : refs[k] = t
    BY Zenon DEF Orders, Bijection, Injection, Surjection
  <2>4. refs \in Seq(Nat)
    <3>1. \A t \in S : t \in Nat
      BY <1>1, <2>1
    <3> HIDE DEF S, n
    <3> QED
      BY <2>2, <2>3, <3>1
  <2>5. Range(refs) = S
    BY <2>3, Zenon DEF Range
  <2> QED
    BY <2>3, <2>4, <2>5, Zenon DEF Lists
<1>5. OfsSet(i) \cap RefKids(h) = {}
  BY DEF OfsSet, RefKids
<1> QED
  BY <1>3, <1>4, <1>5, ListsConcat, Zenon
-----------------------------------------------------------------------------
(* Bodies and records. *)

(* A new body fits the budget. *)
LEMMA BodyFacts ==
    ASSUME mem \in Nat, mem <= BodyMemBudget, NEW size \in Nat
    PROVE  /\ Body(size) \in BodyType /\ InMem(Body(size)) \in Nat
           /\ mem + InMem(Body(size)) \in Nat /\ mem + InMem(Body(size)) <= BodyMemBudget
BY LimitAssumption DEF Body, InMem, BodyType

(* The two things place does: add to the container that is open, or seal it and
   open the next. *)
Grows(rec, raw) ==
    /\ seg.open /\ serial' = serial /\ sealed' = sealed
    /\ seg'.recs = Append(seg.recs, rec) /\ rec.offset = seg.offset /\ seg'.offset = seg.offset + rec.stored
    /\ seg.recs = <<>> \/ seg.offset + raw <= MaxPackBytes

Opens(rec) ==
    /\ serial' = serial + 1 /\ sealed' = Built
    /\ seg'.recs = <<rec>> /\ rec.offset = 0 /\ seg'.offset = rec.stored

(* The record rec is the one place writes for e. *)
Wrote(rec, e, base, asDelta) ==
    /\ rec.obj = e.obj /\ rec.base = (IF asDelta THEN base ELSE NoBase)
    /\ rec.stored <= RawSize(e)
    /\ Grows(rec, RawSize(e)) \/ Opens(rec)

LEMMA PlaceFacts ==
    ASSUME Types, Phase, NEW e \in PackEntry, NEW base \in Known \cup {NoBase}, NEW asDelta \in BOOLEAN,
           asDelta => e.size < RawSize(e), Place(e, base, asDelta)
    PROVE  /\ seg' \in SegType /\ seg'.open /\ sealed' \in Seq(SegType) /\ serial' \in Nat
           /\ serial' = SerialFor(RawSize(e))
           /\ \E rec \in RecType : Wrote(rec, e, base, asDelta)
<1> DEFINE raw == RawSize(e)
           to == IF asDelta THEN base ELSE NoBase
           Good == /\ seg' \in SegType /\ seg'.open /\ sealed' \in Seq(SegType) /\ serial' \in Nat
                   /\ serial' = SerialFor(raw)
                   /\ \E x \in RecType : /\ x.obj = e.obj /\ x.base = to /\ x.stored <= raw
                                         /\ Grows(x, raw) \/ Opens(x)
<1> SUFFICES Good
  BY DEF Wrote
<1>1. raw \in Nat /\ e.size \in Nat /\ e.obj \in Known
  BY EntryAssumption, Zenon DEF RawSize, Known
<1>2. PICK stored \in StoredSizes(IF asDelta THEN e.size ELSE raw) :
         /\ seg' = Added(e, to, stored) /\ serial' = SerialFor(raw)
         /\ sealed' = IF MustSeal(raw) THEN Append(sealed, seg) ELSE sealed
  BY Zenon DEF Place
<1>3. stored \in Nat /\ stored <= raw
  BY <1>1, <1>2, LimitAssumption DEF StoredSizes, worthStoring
<1>4. to \in Known \cup {NoBase}
  OBVIOUS
<1> HIDE DEF raw, to
<1>5. seg \in SegType /\ seg.recs \in Seq(RecType) /\ seg.offset \in Nat /\ seg.open \in BOOLEAN /\ serial \in Nat
  BY DEF Types, SegType
<1> DEFINE g == SegmentFor(raw)
           rec == [obj |-> e.obj, base |-> to, offset |-> g.offset, stored |-> stored, raw |-> raw]
<1>6. CASE seg.open /\ ~MustSeal(raw)
  <2>1. g = seg
    BY <1>6 DEF SegmentFor
  <2>2. rec \in RecType
    BY <1>1, <1>3, <1>4, <1>5, <2>1 DEF RecType
  <2>3. seg' = [seg EXCEPT !.recs = Append(@, rec), !.offset = @ + stored]
    BY <1>2, <2>1, Zenon DEF Added, raw
  <2> HIDE DEF rec, g
  <2>4. seg' \in SegType /\ seg'.open /\ seg'.recs = Append(seg.recs, rec) /\ seg'.offset = seg.offset + stored
    <3> DEFINE q == Append(seg.recs, rec)
               n == seg.offset + stored
    <3>1. q \in Seq(RecType) /\ n \in Nat
      BY <1>3, <1>5, <2>2
    <3>2. seg' = [seg EXCEPT !.recs = q, !.offset = n]
      BY <2>3, Zenon
    <3> HIDE DEF q, n
    <3>3. seg' \in SegType /\ seg'.open /\ seg'.recs = q /\ seg'.offset = n
      BY <1>5, <1>6, <3>1, <3>2 DEF SegType
    <3> QED
      BY <3>3, Zenon DEF q, n
  <2>5. rec.obj = e.obj /\ rec.base = to /\ rec.offset = seg.offset /\ rec.stored = stored
    BY <2>1 DEF rec
  <2>6. serial' = serial /\ sealed' = sealed
    BY <1>2, <1>6 DEF SerialFor
  <2>7. seg.recs = <<>> \/ seg.offset + raw <= MaxPackBytes
    BY <1>1, <1>5, <1>6, LimitAssumption DEF MustSeal
  <2>8. Grows(rec, raw)
    BY <1>6, <2>4, <2>5, <2>6, <2>7, Zenon DEF Grows
  <2>9. sealed' \in Seq(SegType) /\ serial' \in Nat
    BY <2>6, Zenon DEF Types
  <2>10. rec.stored <= raw
    BY <1>3, <2>5
  <2>11. \E x \in RecType : /\ x.obj = e.obj /\ x.base = to /\ x.stored <= raw
                            /\ Grows(x, raw) \/ Opens(x)
    BY <2>2, <2>5, <2>8, <2>10, Zenon
  <2> QED
    BY <1>2, <2>4, <2>9, <2>11, Zenon
<1>7. CASE ~(seg.open /\ ~MustSeal(raw))
  <2>1. g = [recs |-> <<>>, offset |-> 0, open |-> TRUE]
    BY <1>7 DEF SegmentFor, NoSegment
  <2>2. rec \in RecType
    BY <1>1, <1>3, <1>4, <1>5, <2>1 DEF RecType
  <2>3. seg' = [g EXCEPT !.recs = Append(@, rec), !.offset = @ + stored]
    BY <1>2, <2>1, Zenon DEF Added, raw
  <2>5. rec.obj = e.obj /\ rec.base = to /\ rec.offset = 0 /\ rec.stored = stored
    BY <2>1
  <2> HIDE DEF rec, g
  <2>4. seg' \in SegType /\ seg'.open /\ seg'.recs = <<rec>> /\ seg'.offset = stored
    <3> DEFINE q == <<rec>>
    <3>1. q \in Seq(RecType) /\ q = Append(<<>>, rec)
      BY <2>2
    <3>2. seg' = [g EXCEPT !.recs = q, !.offset = stored]
      <4>1. g.recs = <<>> /\ g.offset = 0 /\ 0 + stored = stored
        BY <1>3, <2>1
      <4>2. seg' = [g EXCEPT !.recs = Append(g.recs, rec), !.offset = g.offset + stored]
        BY <2>3, Zenon
      <4>3. Append(g.recs, rec) = q /\ g.offset + stored = stored
        BY <3>1, <4>1, Zenon
      <4> HIDE DEF q
      <4> QED
        BY <4>2, <4>3, Zenon
    <3> HIDE DEF q
    <3>3. seg' \in SegType /\ seg'.open /\ seg'.recs = q /\ seg'.offset = stored
      BY <1>3, <2>1, <3>1, <3>2 DEF SegType
    <3> QED
      BY <3>3, Zenon DEF q
  <2>6. serial' = serial + 1
    BY <1>2, <1>7 DEF SerialFor
  <2>7. sealed' = Built
    BY <1>2, <1>7, Zenon DEF Built, MustSeal
  <2>8. Opens(rec)
    BY <2>4, <2>5, <2>6, <2>7, Zenon DEF Opens
  <2>9. sealed' \in Seq(SegType) /\ serial' \in Nat
    BY <1>5, <2>6, <2>7 DEF Types, Built
  <2>10. rec.stored <= raw
    BY <1>3, <2>5
  <2>11. \E x \in RecType : /\ x.obj = e.obj /\ x.base = to /\ x.stored <= raw
                            /\ Grows(x, raw) \/ Opens(x)
    BY <2>2, <2>5, <2>8, <2>10, Zenon
  <2> QED
    BY <1>2, <2>4, <2>9, <2>11, Zenon
<1> QED
  BY <1>6, <1>7, Zenon
-----------------------------------------------------------------------------
(* The types, the phases and the account of the bodies. *)

Base == Types /\ Phase /\ BodiesAccounted

(* A frame made of parts. *)
LEMMA FrameParts ==
    ASSUME NEW kids \in Seq(Nat), NEW h \in Known, NEW b \in BodyType, NEW at \in Int,
           NEW chain \in Nat, NEW depth \in Nat
    PROVE  LET f == Frame(kids, h, b, at, chain, depth)
           IN  /\ f \in FrameType /\ f.kids = kids /\ f.base = h /\ f.body = b
               /\ f.serial = at /\ f.chain = chain /\ f.depth = depth
BY DEF Frame, FrameType

LEMMA NothingTypes ==
    /\ NoBody \in BodyType /\ NoWork \in WorkType /\ NoSegment \in SegType /\ ~NoSegment.open
    /\ NoWork.stage = "none" /\ NoWork.delta = NoBody /\ NoWork.out = NoBody
<1>1. NoBody \in BodyType
  BY DEF NoBody, BodyType
<1>2. NoWork \in WorkType /\ NoWork.stage = "none" /\ NoWork.delta = NoBody /\ NoWork.out = NoBody
  BY <1>1 DEF NoWork, WorkType
<1>3. NoSegment \in SegType /\ ~NoSegment.open
  BY DEF NoSegment, SegType
<1> QED
  BY <1>1, <1>2, <1>3

LEMMA BaseInit ==
    ASSUME IndexPackInit PROVE Base
<1>1. Types
  <2>1. frames \in Seq(FrameType) /\ DOMAIN frames = {} /\ sealed \in Seq(SegType) /\ pack = <<>>
    BY DEF IndexPackInit
  <2>2. work \in WorkType /\ seg \in SegType
    BY NothingTypes, Zenon DEF IndexPackInit
  <2> QED
    BY <2>1, <2>2 DEF IndexPackInit, Types
<1>2. Phase
  BY NothingTypes DEF IndexPackInit, Phase
<1>3. BodiesAccounted
  <2>1. HeldBy(frames) = 0 /\ InMem(work.delta) = 0 /\ InMem(work.out) = 0
    BY HeldByNone, NothingHeld, NothingTypes, Zenon DEF IndexPackInit
  <2> QED
    BY <2>1, LimitAssumption DEF IndexPackInit, BodiesAccounted
<1> QED
  BY <1>1, <1>2, <1>3 DEF Base

(* A push that fails gives back everything. *)
LEMMA FailsKeepBase ==
    ASSUME Base, Fails PROVE Base'
<1> USE DEF Base
<1>1. PICK now : Fail(Held, now) /\ (now = sealed \/ now = Append(sealed, seg))
  BY Zenon DEF Fails
<1>2. now \in Seq(SegType)
  BY <1>1 DEF Types
<1>3. /\ resolving' = "failed" /\ frames' = <<>> /\ work' = NoWork /\ seg' = NoSegment /\ sealed' = now
      /\ UNCHANGED <<pack, nextRoot, refsDone, serial>> /\ mem' = mem - Held - HeldBy(frames)
  BY <1>1, Zenon DEF Fail
<1>4. mem' = 0
  <2>1. InMem(work.delta) \in Nat /\ InMem(work.out) \in Nat
    <3>1. work.delta \in BodyType /\ work.out \in BodyType
      BY DEF Types, WorkType
    <3> QED
      BY <3>1, InMemNat, Zenon
  <2>2. HeldBy(frames) \in Nat
    BY HeldByNat, Zenon DEF Types
  <2> QED
    BY <1>3, <2>1, <2>2 DEF BodiesAccounted, Held
<1>5. Types'
  <2>1. frames' \in Seq(FrameType) /\ DOMAIN frames' = {}
    BY <1>3
  <2>2. work' \in WorkType /\ seg' \in SegType
    BY <1>3, NothingTypes, Zenon
  <2> QED
    BY <1>2, <1>3, <1>4, <2>1, <2>2 DEF Types
<1>6. Phase'
  BY <1>3, NothingTypes DEF Phase
<1>7. BodiesAccounted'
  <2>1. HeldBy(frames') = 0 /\ InMem(work'.delta) = 0 /\ InMem(work'.out) = 0
    BY <1>3, HeldByNone, NothingHeld, NothingTypes, Zenon
  <2> QED
    BY <1>3, <1>4, <2>1, LimitAssumption DEF BodiesAccounted, HeldBy, InMem
<1> QED
  BY <1>5, <1>6, <1>7

(* Reading the pack, sealing the last container, and doing nothing. *)
LEMMA ReadKeepsBase ==
    ASSUME Base, resolving = "idle", NEW p \in Packs, NEW trailer \in BOOLEAN, ReadPack(p, trailer)
    PROVE  Base'
<1> USE DEF Base
<1>1. /\ frames = <<>> /\ refsDone = {} /\ nextRoot = 1 /\ sealed = <<>> /\ work = NoWork /\ ~seg.open
      /\ seg = NoSegment
  BY Zenon DEF Phase
<1>2. /\ pack' = p /\ resolving' = (IF ScanOk(p, trailer) THEN "walk" ELSE "failed")
      /\ UNCHANGED <<nextRoot, refsDone, frames, work, mem, seg, serial, sealed>>
  BY Zenon DEF ReadPack
<1>3. Types'
  <2>1. DOMAIN frames = {}
    BY <1>1
  <2> QED
    BY <1>1, <1>2, <2>1 DEF Types
<1>4. Phase'
  <2>1. resolving' = "walk" => ScanOk(p, TRUE)
    BY <1>2 DEF ScanOk
  <2>2. ScanOk(p, TRUE) => ScanOk(pack, TRUE)'
    BY <1>2, Zenon DEF ScanOk, HeaderOk, InflateOk
  <2>3. resolving' \in {"walk", "failed"}
    BY <1>2
  <2> QED
    BY <1>1, <1>2, <2>1, <2>2, <2>3, NothingTypes DEF Phase
<1>5. BodiesAccounted'
  <2>1. HeldBy(frames) = 0 /\ InMem(work.delta) = 0 /\ InMem(work.out) = 0
    BY <1>1, HeldByNone, NothingHeld, NothingTypes, Zenon
  <2>2. mem = 0
    BY <2>1 DEF BodiesAccounted
  <2> QED
    BY <1>2, <2>1, <2>2, LimitAssumption DEF BodiesAccounted, HeldBy, InMem
<1> QED
  BY <1>3, <1>4, <1>5

LEMMA SealKeepsBase ==
    ASSUME Base, SealLast PROVE Base'
<1> USE DEF Base
<1>1. /\ resolving = "walk" /\ frames = <<>> /\ resolving' = "done" /\ seg' = NoSegment
      /\ sealed' = (IF seg.open THEN Append(sealed, seg) ELSE sealed)
      /\ UNCHANGED <<pack, nextRoot, refsDone, frames, work, mem, serial>>
  BY Zenon DEF SealLast
<1>2. work = NoWork
  BY <1>1, Zenon DEF Phase
<1>3. Types'
  <2>1. sealed' \in Seq(SegType)
    BY <1>1 DEF Types
  <2>2. seg' \in SegType
    BY <1>1, NothingTypes, Zenon
  <2> QED
    BY <1>1, <2>1, <2>2, Zenon DEF Types
<1>4. Phase'
  <2>1. ScanOk(pack, TRUE)'
    BY <1>1, Zenon DEF Phase, ScanOk, HeaderOk, InflateOk
  <2> QED
    BY <1>1, <1>2, <2>1, NothingTypes DEF Phase
<1>5. BodiesAccounted'
  <2>1. HeldBy(frames) = 0 /\ InMem(work.delta) = 0 /\ InMem(work.out) = 0
    BY <1>1, <1>2, HeldByNone, NothingHeld, NothingTypes, Zenon
  <2>2. mem = 0
    BY <2>1 DEF BodiesAccounted
  <2> QED
    BY <1>1, <2>1, <2>2, LimitAssumption DEF BodiesAccounted, HeldBy, InMem
<1> QED
  BY <1>3, <1>4, <1>5

LEMMA StutterKeepsBase ==
    ASSUME Base, UNCHANGED ipVars PROVE Base'
BY Zenon DEF Base, ipVars, Types, Phase, BodiesAccounted, ScanOk, HeaderOk, InflateOk, Top, HeldBy, InMem

(* The child walk is busy with is an entry. *)
LEMMA ChildIn ==
    ASSUME Types, frames # <<>>, Top.kids # <<>>
    PROVE  LET c == Head(Top.kids)
           IN  /\ c \in DOMAIN pack /\ pack[c] \in PackEntry /\ pack[c].obj \in Known
               /\ pack[c].size \in Nat /\ pack[c].d.tgt \in Nat
<1>1. /\ Len(frames) \in DOMAIN frames /\ Top = frames[Len(frames)] /\ Top \in FrameType
  BY StackParts DEF Types
<1>2. Range(Top.kids) \subseteq DOMAIN pack
  BY <1>1, Zenon DEF Types
<1>3. Top.kids \in Seq(Nat)
  BY <1>1, FrameFields, Zenon
<1>4. 1 \in DOMAIN Top.kids /\ Head(Top.kids) = Top.kids[1]
  BY <1>3
<1>5. Head(Top.kids) \in DOMAIN pack
  BY <1>2, <1>4, Zenon DEF Range
<1> QED
  BY <1>5, PackFacts, Zenon DEF Types

(* A body is read into memory or onto disk. *)
LEMMA InflateKeepsBase ==
    ASSUME Base, InflateChild PROVE Base'
<1> USE DEF Base
<1>1. /\ resolving = "walk" /\ frames # <<>> /\ work = NoWork /\ Top.kids # <<>> /\ Top.depth <= MaxIncomingDepth
      /\ work' = [NoWork EXCEPT !.stage = "inflated", !.delta = Body(Child.size)]
      /\ mem' = mem + InMem(work'.delta)
      /\ UNCHANGED <<pack, resolving, nextRoot, refsDone, frames, seg, serial, sealed>>
  BY Zenon DEF InflateChild, Walking
<1>2. Child.size \in Nat
  BY <1>1, ChildIn, Zenon DEF Child
<1> DEFINE b == Body(Child.size)
<1>3. b \in BodyType /\ InMem(b) \in Nat /\ mem + InMem(b) \in Nat /\ mem + InMem(b) <= BodyMemBudget
  BY <1>2, BodyFacts, Zenon DEF Types, BodiesAccounted
<1> HIDE DEF b
<1>4. /\ work' \in WorkType /\ work'.delta = b /\ work'.out = NoBody /\ work'.stage = "inflated"
      /\ work' # NoWork
  <2>1. work' = [NoWork EXCEPT !.stage = "inflated", !.delta = b]
    BY <1>1, Zenon DEF b
  <2> QED
    BY <1>3, <2>1, NothingTypes DEF WorkType, NoWork
<1>5. Types'
  BY <1>1, <1>3, <1>4, Zenon DEF Types
<1>6. Phase'
  <2>1. ScanOk(pack, TRUE)'
    BY <1>1, Zenon DEF Phase, ScanOk, HeaderOk, InflateOk
  <2>2. Top' = Top
    BY <1>1, Zenon DEF Top
  <2> QED
    BY <1>1, <1>4, <2>1, <2>2 DEF Phase
<1>7. BodiesAccounted'
  <2>1. InMem(work.delta) = 0 /\ InMem(work.out) = 0 /\ InMem(work'.out) = 0
    BY <1>1, <1>4, NothingHeld, NothingTypes, Zenon
  <2>2. HeldBy(frames)' = HeldBy(frames) /\ InMem(work.delta)' = InMem(b) /\ InMem(work.out)' = 0
    BY <1>1, <1>4, <2>1, Zenon
  <2>3. HeldBy(frames) \in Nat
    BY HeldByNat, Zenon DEF Types
  <2>4. mem = HeldBy(frames)
    BY <2>1, <2>3 DEF BodiesAccounted
  <2>5. mem' = mem + InMem(b)
    BY <1>1, <1>4, Zenon
  <2>6. resolving' = "walk"
    BY <1>1
  <2> QED
    BY <1>3, <2>2, <2>3, <2>4, <2>5, <2>6 DEF BodiesAccounted
<1> QED
  BY <1>5, <1>6, <1>7

LEMMA AppliedKeepsBase ==
    ASSUME Base, ChildApplied PROVE Base'
<1> USE DEF Base
<1>1. /\ resolving = "walk" /\ frames # <<>> /\ work.stage = "inflated"
      /\ work' = [work EXCEPT !.stage = "applied", !.out = Body(Child.d.tgt)]
      /\ mem' = mem + InMem(work'.out)
      /\ UNCHANGED <<pack, resolving, nextRoot, refsDone, frames, seg, serial, sealed>>
  BY Zenon DEF ChildApplied, Walking
<1>2. work # NoWork /\ work.out = NoBody
  BY <1>1, NothingTypes DEF Phase
<1>3. Top.kids # <<>> /\ Top.depth <= MaxIncomingDepth
  BY <1>2, Zenon DEF Phase
<1>4. Child.d.tgt \in Nat
  BY <1>1, <1>3, ChildIn, Zenon DEF Child
<1> DEFINE b == Body(Child.d.tgt)
<1>5. b \in BodyType /\ InMem(b) \in Nat /\ mem + InMem(b) \in Nat /\ mem + InMem(b) <= BodyMemBudget
  BY <1>4, BodyFacts, Zenon DEF Types, BodiesAccounted
<1> HIDE DEF b
<1>6. /\ work' \in WorkType /\ work'.delta = work.delta /\ work'.out = b /\ work'.stage = "applied"
      /\ work.delta \in BodyType
  <2>1. work' = [work EXCEPT !.stage = "applied", !.out = b]
    BY <1>1, Zenon DEF b
  <2>2. work \in WorkType
    BY Zenon DEF Types
  <2> QED
    BY <1>5, <2>1, <2>2 DEF WorkType
<1>7. Types'
  BY <1>1, <1>5, <1>6, Zenon DEF Types
<1>8. Phase'
  <2>1. ScanOk(pack, TRUE)'
    BY <1>1, Zenon DEF Phase, ScanOk, HeaderOk, InflateOk
  <2>2. Top' = Top
    BY <1>1, Zenon DEF Top
  <2> QED
    BY <1>1, <1>3, <1>6, <2>1, <2>2 DEF Phase
<1>9. BodiesAccounted'
  <2>1. InMem(work.out) = 0
    BY <1>2, NothingHeld, Zenon
  <2>2. HeldBy(frames)' = HeldBy(frames) /\ InMem(work.delta)' = InMem(work.delta) /\ InMem(work.out)' = InMem(b)
    BY <1>1, <1>6, Zenon
  <2>3. HeldBy(frames) \in Nat /\ InMem(work.delta) \in Nat
    BY <1>6, HeldByNat, InMemNat, Zenon DEF Types
  <2>4. mem = HeldBy(frames) + InMem(work.delta)
    BY <2>1, <2>3 DEF BodiesAccounted
  <2>5. mem' = mem + InMem(b)
    BY <1>1, <1>6, Zenon
  <2>6. resolving' = "walk"
    BY <1>1
  <2> QED
    BY <1>5, <2>2, <2>3, <2>4, <2>5, <2>6 DEF BodiesAccounted
<1> QED
  BY <1>7, <1>8, <1>9

(* A walk returns. *)
LEMMA ReturnKeepsBase ==
    ASSUME Base, Return PROVE Base'
<1> USE DEF Base
<1>1. /\ resolving = "walk" /\ frames # <<>> /\ work = NoWork /\ frames' = Callers /\ mem' = mem - InMem(Top.body)
      /\ UNCHANGED <<pack, resolving, nextRoot, refsDone, work, seg, serial, sealed>>
  BY Zenon DEF Return, Walking
<1>2. /\ Top \in FrameType /\ Callers \in Seq(FrameType) /\ Len(Callers) = Len(frames) - 1 /\ Len(frames) \in Nat
      /\ \A k \in 1 .. (Len(frames) - 1) : Callers[k] = frames[k]
  BY <1>1, StackParts, Zenon DEF Types
<1>3. HeldBy(frames) = HeldBy(Callers) + InMem(Top.body) /\ HeldBy(Callers) \in Nat /\ InMem(Top.body) \in Nat
  BY <1>1, <1>2, HeldByTop, HeldByNat, FrameFields, InMemNat, Zenon DEF Types
<1>4. InMem(work.delta) = 0 /\ InMem(work.out) = 0
  BY <1>1, NothingHeld, NothingTypes, Zenon
<1>5. mem = HeldBy(frames)
  BY <1>3, <1>4 DEF BodiesAccounted
<1>6. mem' = HeldBy(Callers)
  BY <1>1, <1>3, <1>5
<1>7. Types'
  <2>1. \A k \in DOMAIN Callers : k \in DOMAIN frames /\ Callers[k] = frames[k]
    BY <1>2 DEF Types
  <2>2. \A k \in DOMAIN Callers : Range(Callers[k].kids) \subseteq DOMAIN pack
    BY <2>1, Zenon DEF Types
  <2> QED
    BY <1>1, <1>2, <1>3, <1>6, <2>2, Zenon DEF Types
<1>8. Phase'
  <2>1. ScanOk(pack, TRUE)'
    BY <1>1, Zenon DEF Phase, ScanOk, HeaderOk, InflateOk
  <2> QED
    BY <1>1, <2>1, NothingTypes DEF Phase
<1>9. BodiesAccounted'
  <2>1. HeldBy(frames)' = HeldBy(Callers) /\ InMem(work.delta)' = 0 /\ InMem(work.out)' = 0
    BY <1>1, <1>4, Zenon
  <2>2. HeldBy(Callers) <= HeldBy(frames)
    BY <1>3
  <2> QED
    BY <1>1, <1>3, <1>5, <1>6, <2>1, <2>2, LimitAssumption DEF BodiesAccounted
<1> QED
  BY <1>7, <1>8, <1>9

(* A stack of one walk. *)
LEMMA OneWalk ==
    ASSUME NEW f \in FrameType
    PROVE  /\ <<f>> \in Seq(FrameType) /\ DOMAIN <<f>> = {1} /\ <<f>>[1] = f /\ <<f>> # <<>>
           /\ HeldBy(<<f>>) = InMem(f.body)
<1>1. /\ <<f>> \in Seq(FrameType) /\ DOMAIN <<f>> = {1} /\ <<f>>[1] = f /\ <<f>> # <<>> /\ <<f>> = Append(<<>>, f)
      /\ <<>> \in Seq(FrameType)
  OBVIOUS
<1>2. HeldBy(<<f>>) = HeldBy(<<>>) + InMem(f.body)
  BY <1>1, HeldByPush, Zenon
<1>3. InMem(f.body) \in Nat
  BY FrameFields, InMemNat, Zenon
<1> QED
  BY <1>1, <1>2, <1>3, HeldByNone

(* What children returns are entries. *)
LEMMA KidsIn ==
    ASSUME Types, NEW i, NEW h, NEW refs \in Orders(RefKids(h))
    PROVE  /\ Lists(refs, RefKids(h)) /\ Lists(OfsKids(i) \o refs, OfsSet(i) \cup RefKids(h))
           /\ refs \in Seq(Nat) /\ Range(refs) = RefKids(h)
           /\ OfsKids(i) \o refs \in Seq(Nat)
           /\ RefKids(h) \subseteq DOMAIN pack /\ OfsSet(i) \subseteq DOMAIN pack
<1>1. Lists(refs, RefKids(h)) /\ Lists(OfsKids(i) \o refs, OfsSet(i) \cup RefKids(h))
  BY KidsListed, Zenon DEF Types
<1>2. RefKids(h) \subseteq DOMAIN pack /\ OfsSet(i) \subseteq DOMAIN pack
  BY Zenon DEF RefKids, OfsSet
<1> QED
  BY <1>1, <1>2, Zenon DEF Lists

(* A base from outside the pack is read. *)
LEMMA ExternalKeepsBase ==
    ASSUME Base, NEW j \in DOMAIN pack, ExternalRead(j) PROVE Base'
<1> USE DEF Base
<1> DEFINE h == pack[j].base
           b == Body(Raw[h])
<1>1. /\ resolving = "walk" /\ frames = <<>> /\ h \in InRepository
      /\ UNCHANGED <<pack, resolving, nextRoot, work, seg, serial, sealed>>
  BY Zenon DEF ExternalRead
<1>2. PICK refs \in Orders(RefKids(h)) :
         /\ frames' = <<Frame(refs, h, b, NoSerial, 0, 1)>> /\ mem' = mem + InMem(b)
         /\ refsDone' = refsDone \cup Range(refs)
  BY Zenon DEF ExternalRead
<1>3. b \in BodyType /\ InMem(b) \in Nat /\ mem + InMem(b) \in Nat /\ mem + InMem(b) <= BodyMemBudget
  <2>1. Raw[h] \in Nat
    BY <1>1, LimitAssumption, Zenon
  <2> QED
    BY <2>1, BodyFacts, Zenon DEF Types, BodiesAccounted
<1>4. refs \in Seq(Nat) /\ Range(refs) \subseteq DOMAIN pack
  BY KidsIn, Zenon
<1>5. h \in Known
  BY <1>1, Zenon DEF Known
<1> HIDE DEF h, b
<1> DEFINE f == Frame(refs, h, b, NoSerial, 0, 1)
<1>6. f \in FrameType /\ f.kids = refs /\ f.body = b
  <2>1. NoSerial \in Int /\ 0 \in Nat /\ 1 \in Nat
    BY DEF NoSerial
  <2> QED
    BY <1>3, <1>4, <1>5, <2>1, FrameParts
<1> HIDE DEF f
<1>7. /\ frames' = <<f>> /\ frames' \in Seq(FrameType) /\ DOMAIN frames' = {1} /\ frames'[1] = f
      /\ HeldBy(frames') = InMem(b)
  BY <1>2, <1>6, OneWalk, Zenon DEF f
<1>8. work = NoWork
  BY <1>1, Zenon DEF Phase
<1>9. Types'
  <2>1. \A k \in DOMAIN frames' : Range(frames'[k].kids) \subseteq DOMAIN pack
    BY <1>4, <1>6, <1>7
  <2>2. refsDone' \in SUBSET DOMAIN pack
    BY <1>2, <1>4, Zenon DEF Types
  <2> QED
    BY <1>1, <1>2, <1>3, <1>7, <2>1, <2>2, Zenon DEF Types
<1>10. Phase'
  <2>1. ScanOk(pack, TRUE)'
    BY <1>1, Zenon DEF Phase, ScanOk, HeaderOk, InflateOk
  <2> QED
    BY <1>1, <1>8, <2>1, NothingTypes DEF Phase
<1>11. BodiesAccounted'
  <2>1. InMem(work.delta) = 0 /\ InMem(work.out) = 0 /\ HeldBy(frames) = 0
    BY <1>1, <1>8, NothingHeld, NothingTypes, HeldByNone, Zenon
  <2>2. HeldBy(frames)' = InMem(b) /\ InMem(work.delta)' = 0 /\ InMem(work.out)' = 0
    BY <1>1, <1>7, <2>1, Zenon
  <2>3. mem = 0
    BY <2>1 DEF BodiesAccounted
  <2> QED
    BY <1>1, <1>2, <1>3, <2>2, <2>3 DEF BodiesAccounted
<1> QED
  BY <1>9, <1>10, <1>11

(* root: a delta is passed over, a whole object is placed and, when something
   is built on it, walked. *)
LEMMA RootKeepsBase ==
    ASSUME Base, Root PROVE Base'
<1> USE DEF Base
<1> DEFINE e == pack[nextRoot]
<1>1. /\ resolving = "walk" /\ frames = <<>> /\ nextRoot <= Len(pack) /\ nextRoot' = nextRoot + 1
      /\ UNCHANGED <<pack, resolving, work>>
  BY Zenon DEF Root
<1>2. work = NoWork
  BY <1>1, Zenon DEF Phase
<1>3. nextRoot \in DOMAIN pack /\ nextRoot' \in Nat \ {0}
  <2>1. Len(pack) \in Nat /\ DOMAIN pack = 1 .. Len(pack)
    BY PackFacts, Zenon DEF Types
  <2> QED
    BY <1>1, <2>1 DEF Types
<1>4. e \in PackEntry /\ e.obj \in Known /\ e.size \in Nat
  BY <1>3, PackFacts, Zenon DEF Types
<1>5. ScanOk(pack, TRUE)'
  BY <1>1, Zenon DEF Phase, ScanOk, HeaderOk, InflateOk
<1>6. InMem(work.delta) = 0 /\ InMem(work.out) = 0 /\ HeldBy(frames) = 0
  BY <1>1, <1>2, NothingHeld, NothingTypes, HeldByNone, Zenon
<1>7. mem = 0
  BY <1>6 DEF BodiesAccounted
<1>8. CASE e.typ # "whole"
  <2>1. UNCHANGED <<refsDone, frames, mem, seg, serial, sealed>>
    BY <1>8, Zenon DEF Root
  <2>2. Types'
    BY <1>1, <1>3, <2>1, Zenon DEF Types
  <2>3. Phase'
    BY <1>1, <1>2, <1>5, <2>1, NothingTypes DEF Phase
  <2>4. BodiesAccounted'
    BY <1>1, <2>1, Zenon DEF BodiesAccounted
  <2> QED
    BY <2>2, <2>3, <2>4
<1>9. CASE e.typ = "whole"
  <2> DEFINE b == Body(e.size)
  <2>1. PICK refs \in Orders(RefKids(e.obj)) :
          LET kids == OfsKids(nextRoot) \o refs
          IN  /\ refsDone' = refsDone \cup Range(refs) /\ Place(e, NoBase, FALSE)
              /\ IF kids = <<>> THEN UNCHANGED <<frames, mem>>
                 ELSE /\ frames' = <<Frame(kids, e.obj, b, SerialFor(RawSize(e)), 0, 1)>>
                      /\ mem' = mem + InMem(b)
    BY <1>9, Zenon DEF Root
  <2> DEFINE kids == OfsKids(nextRoot) \o refs
  <2>2. /\ seg' \in SegType /\ seg'.open /\ sealed' \in Seq(SegType) /\ serial' \in Nat
        /\ serial' = SerialFor(RawSize(e))
    <3>1. NoBase \in Known \cup {NoBase} /\ FALSE \in BOOLEAN
      OBVIOUS
    <3> QED
      BY <1>4, <2>1, <3>1, PlaceFacts, Zenon
  <2>3. /\ Range(refs) \subseteq DOMAIN pack /\ kids \in Seq(Nat) /\ Range(kids) \subseteq DOMAIN pack
    BY KidsIn, Zenon DEF Lists
  <2>4. b \in BodyType /\ InMem(b) \in Nat /\ mem + InMem(b) \in Nat /\ mem + InMem(b) <= BodyMemBudget
    BY <1>4, BodyFacts, Zenon DEF Types, BodiesAccounted
  <2>5. refsDone' \in SUBSET DOMAIN pack
    BY <2>1, <2>3, Zenon DEF Types
  <2>6. /\ frames' \in Seq(FrameType)
        /\ \A k \in DOMAIN frames' : Range(frames'[k].kids) \subseteq DOMAIN pack
        /\ mem' = HeldBy(frames') /\ mem' \in Nat /\ mem' <= BodyMemBudget
    <3>1. CASE kids = <<>>
      <4>1. UNCHANGED <<frames, mem>>
        BY <2>1, <3>1, Zenon
      <4> QED
        BY <1>6, <1>7, <4>1, LimitAssumption, Zenon DEF Types, BodiesAccounted
    <3>2. CASE kids # <<>>
      <4> DEFINE f == Frame(kids, e.obj, b, SerialFor(RawSize(e)), 0, 1)
      <4>1. f \in FrameType /\ f.kids = kids /\ f.body = b
        <5>1. SerialFor(RawSize(e)) \in Int /\ 0 \in Nat /\ 1 \in Nat
          BY <2>2
        <5> HIDE DEF kids, b, e
        <5> QED
          BY <1>4, <2>3, <2>4, <5>1, FrameParts
      <4>2. frames' = <<f>> /\ mem' = mem + InMem(b)
        BY <2>1, <3>2, Zenon
      <4> HIDE DEF f, kids, b
      <4>3. frames' \in Seq(FrameType) /\ DOMAIN frames' = {1} /\ frames'[1] = f /\ HeldBy(frames') = InMem(b)
        BY <4>1, <4>2, OneWalk, Zenon
      <4>4. \A k \in DOMAIN frames' : Range(frames'[k].kids) \subseteq DOMAIN pack
        BY <2>3, <4>1, <4>3
      <4> QED
        BY <1>7, <2>4, <4>2, <4>3, <4>4
    <3> QED
      BY <3>1, <3>2, Zenon
  <2>7. Types'
    BY <1>1, <1>3, <2>2, <2>5, <2>6, Zenon DEF Types
  <2>8. Phase'
    BY <1>1, <1>2, <1>5, <2>2, NothingTypes DEF Phase
  <2>9. BodiesAccounted'
    <3>1. HeldBy(frames)' = HeldBy(frames') /\ InMem(work.delta)' = 0 /\ InMem(work.out)' = 0
      BY <1>1, <1>6, Zenon
    <3> QED
      BY <1>1, <2>6, <3>1 DEF BodiesAccounted
  <2> QED
    BY <2>7, <2>8, <2>9
<1> QED
  BY <1>8, <1>9, Zenon

(* PlaceChild: the walk on top goes on to its next kid, and what is built on the
   child is a walk above it, if there is any. *)
ChildStep(refs, t, x) ==
    LET c == Head(Top.kids)
        e == pack[c]
        asDelta == KeepsDelta(e, Top.serial, Top.chain)
    IN  /\ Place(e, Top.base, asDelta)
        /\ refsDone' = refsDone \cup Range(refs)
        /\ t.kids = Tail(Top.kids) /\ t.base = Top.base /\ t.serial = Top.serial /\ t.chain = Top.chain
        /\ t.body = (IF Len(Top.kids) = 1 THEN NoBody ELSE Top.body)
        /\ x.kids = OfsKids(c) \o refs /\ x.base = e.obj /\ x.serial = SerialFor(RawSize(e))
        /\ x.chain = (IF asDelta THEN Top.chain + 1 ELSE 0) /\ x.body = work.out
        /\ frames' = IF x.kids = <<>> THEN Append(Callers, t) ELSE Append(Append(Callers, t), x)
        /\ mem' = mem - InMem(work.delta) - (IF Len(Top.kids) = 1 THEN InMem(Top.body) ELSE 0)
                      - (IF x.kids = <<>> THEN InMem(work.out) ELSE 0)

LEMMA ChildShape ==
    ASSUME Types, Phase, PlaceChild
    PROVE  /\ resolving = "walk" /\ frames # <<>> /\ Top.kids # <<>> /\ work' = NoWork
           /\ UNCHANGED <<pack, resolving, nextRoot>>
           /\ \E refs \in Orders(RefKids(Child.obj)), t \in FrameType, x \in FrameType : ChildStep(refs, t, x)
<1>1. resolving = "walk" /\ frames # <<>> /\ work.stage = "applied" /\ work' = NoWork
      /\ UNCHANGED <<pack, resolving, nextRoot>>
  BY Zenon DEF PlaceChild, Walking
<1>2. Top.kids # <<>>
  <2>1. work # NoWork
    BY <1>1, NothingTypes
  <2> QED
    BY <2>1, Zenon DEF Phase
<1> DEFINE c == Head(Top.kids)
           asDelta == KeepsDelta(Child, Top.serial, Top.chain)
           last == Len(Top.kids) = 1
<1>3. PICK refs \in Orders(RefKids(Child.obj)) :
         LET grand == OfsKids(c) \o refs
             below == IF last THEN Append(Callers, [Top EXCEPT !.kids = <<>>, !.body = NoBody])
                              ELSE WithKids(Tail(Top.kids))
             next  == Frame(grand, Child.obj, work.out, SerialFor(RawSize(Child)),
                            IF asDelta THEN Top.chain + 1 ELSE 0, Top.depth + 1)
         IN  /\ Place(Child, Top.base, asDelta)
             /\ refsDone' = refsDone \cup Range(refs)
             /\ frames' = IF grand = <<>> THEN below ELSE Append(below, next)
             /\ mem' = mem - InMem(work.delta) - (IF last THEN InMem(Top.body) ELSE 0)
                           - (IF grand = <<>> THEN InMem(work.out) ELSE 0)
  BY Zenon DEF PlaceChild
<1>4. /\ Top \in FrameType /\ Top.kids \in Seq(Nat) /\ Top.body \in BodyType /\ Top.chain \in Nat
      /\ Top.depth \in Nat
  BY <1>1, StackParts, FrameFields, Zenon DEF Types
<1> DEFINE grand == OfsKids(c) \o refs
           t == IF last THEN [Top EXCEPT !.kids = <<>>, !.body = NoBody] ELSE [Top EXCEPT !.kids = Tail(Top.kids)]
           chain == IF asDelta THEN Top.chain + 1 ELSE 0
           x == Frame(grand, Child.obj, work.out, SerialFor(RawSize(Child)), chain, Top.depth + 1)
<1>5. /\ t \in FrameType /\ t.kids = Tail(Top.kids) /\ t.base = Top.base /\ t.serial = Top.serial
      /\ t.chain = Top.chain /\ t.body = (IF last THEN NoBody ELSE Top.body)
  <2>1. Tail(Top.kids) \in Seq(Nat) /\ (last => Tail(Top.kids) = <<>>)
    <3> DEFINE q == Top.kids
    <3>1. q \in Seq(Nat) /\ q # <<>>
      BY <1>2, <1>4, Zenon
    <3> HIDE DEF q
    <3>2. Tail(q) \in Seq(Nat) /\ Len(Tail(q)) = Len(q) - 1 /\ Len(q) \in Nat
      BY <3>1
    <3>3. \A r \in Seq(Nat) : Len(r) = 0 => r = <<>>
      OBVIOUS
    <3>4. Len(q) = 1 => Len(Tail(q)) = 0
      BY <3>2
    <3>5. Len(q) = 1 => Tail(q) = <<>>
      BY <3>2, <3>3, <3>4, Zenon
    <3> QED
      BY <3>2, <3>5, Zenon DEF q
  <2>2. NoBody \in BodyType
    BY NothingTypes, Zenon
  <2> DEFINE r == Tail(Top.kids)
  <2> HIDE DEF r
  <2>3. CASE last
    <3>1. t = [Top EXCEPT !.kids = r, !.body = NoBody]
      BY <2>1, <2>3, Zenon DEF r
    <3>2. r \in Seq(Nat)
      BY <2>1, Zenon DEF r
    <3> HIDE DEF t
    <3>3. /\ t \in FrameType /\ t.kids = r /\ t.base = Top.base /\ t.serial = Top.serial
          /\ t.chain = Top.chain /\ t.body = NoBody
      BY <1>4, <2>2, <3>1, <3>2 DEF FrameType
    <3> QED
      BY <2>3, <3>3, Zenon DEF r
  <2>4. CASE ~last
    <3>1. t = [Top EXCEPT !.kids = r]
      BY <2>4, Zenon DEF r
    <3>2. r \in Seq(Nat)
      BY <2>1, Zenon DEF r
    <3> HIDE DEF t
    <3>3. /\ t \in FrameType /\ t.kids = r /\ t.base = Top.base /\ t.serial = Top.serial
          /\ t.chain = Top.chain /\ t.body = Top.body
      BY <1>4, <3>1, <3>2 DEF FrameType
    <3> QED
      BY <2>4, <3>3, Zenon DEF r
  <2> QED
    BY <2>3, <2>4, Zenon
<1>6. /\ x \in FrameType /\ x.kids = grand /\ x.base = Child.obj /\ x.body = work.out
      /\ x.serial = SerialFor(RawSize(Child)) /\ x.chain = chain
  <2>1. grand \in Seq(Nat)
    BY KidsIn, Zenon
  <2>2. Child.obj \in Known
    BY <1>1, <1>2, ChildIn, Zenon DEF Child
  <2>3. work.out \in BodyType
    BY DEF Types, WorkType
  <2>4. SerialFor(RawSize(Child)) \in Int
    BY DEF Types, SerialFor
  <2>5. chain \in Nat /\ Top.depth + 1 \in Nat
    BY <1>4
  <2> HIDE DEF grand, chain
  <2> QED
    BY <2>1, <2>2, <2>3, <2>4, <2>5, FrameParts
<1>7. ChildStep(refs, t, x)
  <2>1. frames' = IF grand = <<>> THEN Append(Callers, t) ELSE Append(Append(Callers, t), x)
    BY <1>3, Zenon DEF WithKids
  <2>2. Child = pack[c]
    BY Zenon DEF Child
  <2> HIDE DEF x, t, grand, chain, c
  <2>3. frames' = IF x.kids = <<>> THEN Append(Callers, t) ELSE Append(Append(Callers, t), x)
    BY <1>6, <2>1, Zenon
  <2>4. mem' = mem - InMem(work.delta) - (IF last THEN InMem(Top.body) ELSE 0)
                           - (IF x.kids = <<>> THEN InMem(work.out) ELSE 0)
    BY <1>3, <1>6, Zenon DEF grand
  <2> QED
    BY <1>3, <1>5, <1>6, <2>2, <2>3, <2>4, Zenon DEF ChildStep, c, grand, chain
<1> HIDE DEF x, t
<1> QED
  BY <1>1, <1>2, <1>5, <1>6, <1>7, Zenon

(* The stack after PlaceChild. *)
LEMMA ChildStack ==
    ASSUME frames \in Seq(FrameType), frames # <<>>, NEW t \in FrameType, NEW x \in FrameType,
           frames' = IF x.kids = <<>> THEN Append(Callers, t) ELSE Append(Append(Callers, t), x)
    PROVE  /\ frames' \in Seq(FrameType)
           /\ HeldBy(frames') = HeldBy(Callers) + InMem(t.body) + (IF x.kids = <<>> THEN 0 ELSE InMem(x.body))
           /\ Len(frames) \in DOMAIN frames /\ Len(frames) \in DOMAIN frames' /\ frames'[Len(frames)] = t
           /\ \A k \in DOMAIN frames \ {Len(frames)} : k \in DOMAIN frames' /\ frames'[k] = frames[k]
           /\ x.kids = <<>> => DOMAIN frames' = DOMAIN frames
           /\ x.kids # <<>> => /\ DOMAIN frames' = DOMAIN frames \cup {Len(frames) + 1}
                               /\ Len(frames) + 1 \notin DOMAIN frames
                               /\ frames'[Len(frames) + 1] = x
<1> DEFINE n == Len(frames)
           below == Append(Callers, t)
<1>1. /\ n \in Nat /\ n >= 1 /\ Callers \in Seq(FrameType) /\ Len(Callers) = n - 1
      /\ \A k \in 1 .. (n - 1) : Callers[k] = frames[k]
  BY StackParts, Zenon
<1>2. DOMAIN frames = 1 .. n
  OBVIOUS
<1>3. below \in Seq(FrameType) /\ Len(below) = n /\ below[n] = t /\ \A k \in 1 .. (n - 1) : below[k] = frames[k]
  BY <1>1
<1>4. HeldBy(below) = HeldBy(Callers) + InMem(t.body) /\ HeldBy(below) \in Nat
  BY <1>1, <1>3, HeldByPush, HeldByNat, Zenon
<1> HIDE DEF below, n
<1>5. CASE x.kids = <<>>
  <2>1. frames' = below
    BY <1>5, Zenon DEF below
  <2>2. DOMAIN below = 1 .. n
    BY <1>3
  <2>3. HeldBy(frames') = HeldBy(below) + 0
    <3>1. HeldBy(frames') = HeldBy(below)
      BY <2>1, Zenon
    <3>2. HeldBy(below) = HeldBy(below) + 0
      BY <1>4
    <3> QED
      BY <3>1, <3>2, Zenon
  <2>4. n \in 1 .. n /\ \A k \in (1 .. n) \ {n} : k \in 1 .. (n - 1)
    BY <1>1
  <2> QED
    BY <1>2, <1>3, <1>4, <1>5, <2>1, <2>2, <2>3, <2>4, Zenon DEF n
<1>6. CASE x.kids # <<>>
  <2>1. frames' = Append(below, x)
    BY <1>6, Zenon DEF below
  <2>2. /\ Append(below, x) \in Seq(FrameType) /\ DOMAIN Append(below, x) = 1 .. (n + 1)
        /\ Append(below, x)[n + 1] = x /\ \A k \in 1 .. n : Append(below, x)[k] = below[k]
    BY <1>1, <1>3
  <2>3. HeldBy(frames') = HeldBy(below) + InMem(x.body)
    BY <1>3, <2>1, HeldByPush, Zenon
  <2>4. /\ n \in 1 .. n /\ n \in 1 .. (n + 1) /\ n + 1 \notin 1 .. n /\ 1 .. (n + 1) = (1 .. n) \cup {n + 1}
        /\ \A k \in (1 .. n) \ {n} : k \in 1 .. (n - 1) /\ k \in 1 .. n /\ k \in 1 .. (n + 1)
    BY <1>1
  <2>5. frames'[n] = t
    BY <1>3, <2>1, <2>2, <2>4, Zenon
  <2>6. \A k \in (1 .. n) \ {n} : frames'[k] = frames[k]
    BY <1>3, <2>1, <2>2, <2>4, Zenon
  <2> QED
    BY <1>2, <1>4, <1>6, <2>1, <2>2, <2>3, <2>4, <2>5, <2>6, Zenon DEF n
<1> QED
  BY <1>5, <1>6, Zenon

LEMMA ChildKeepsBase ==
    ASSUME Base, PlaceChild PROVE Base'
<1> USE DEF Base
<1>1. /\ resolving = "walk" /\ frames # <<>> /\ Top.kids # <<>> /\ work' = NoWork
      /\ UNCHANGED <<pack, resolving, nextRoot>>
  BY ChildShape, Zenon
<1>2. PICK refs \in Orders(RefKids(Child.obj)), t \in FrameType, x \in FrameType : ChildStep(refs, t, x)
  BY ChildShape, Zenon
<1> DEFINE c == Head(Top.kids)
           e == pack[c]
           asDelta == KeepsDelta(e, Top.serial, Top.chain)
<1>3. /\ Place(e, Top.base, asDelta) /\ refsDone' = refsDone \cup Range(refs)
      /\ t.kids = Tail(Top.kids) /\ t.body = (IF Len(Top.kids) = 1 THEN NoBody ELSE Top.body)
      /\ x.kids = OfsKids(c) \o refs /\ x.body = work.out
      /\ frames' = IF x.kids = <<>> THEN Append(Callers, t) ELSE Append(Append(Callers, t), x)
      /\ mem' = mem - InMem(work.delta) - (IF Len(Top.kids) = 1 THEN InMem(Top.body) ELSE 0)
                    - (IF x.kids = <<>> THEN InMem(work.out) ELSE 0)
  BY <1>2, Zenon DEF ChildStep
<1>4. frames \in Seq(FrameType) /\ Top = frames[Len(frames)] /\ Top \in FrameType /\ Callers \in Seq(FrameType)
  BY <1>1, StackParts, Zenon DEF Types
<1>5. /\ frames' \in Seq(FrameType)
      /\ HeldBy(frames') = HeldBy(Callers) + InMem(t.body) + (IF x.kids = <<>> THEN 0 ELSE InMem(x.body))
      /\ Len(frames) \in DOMAIN frames /\ frames'[Len(frames)] = t
      /\ \A k \in DOMAIN frames \ {Len(frames)} : frames'[k] = frames[k]
      /\ DOMAIN frames' \subseteq DOMAIN frames \cup {Len(frames) + 1}
      /\ Len(frames) + 1 \in DOMAIN frames' => frames'[Len(frames) + 1] = x
  <2>1. Len(frames) + 1 \notin DOMAIN frames
    BY <1>4
  <2> QED
    BY <1>1, <1>3, <1>4, <2>1, ChildStack, Zenon
<1>6. c \in DOMAIN pack /\ e \in PackEntry /\ Child = e
  BY <1>1, ChildIn, Zenon DEF Child
<1>7. /\ seg' \in SegType /\ seg'.open /\ sealed' \in Seq(SegType) /\ serial' \in Nat
  <2>1. asDelta \in BOOLEAN /\ (asDelta => e.size < RawSize(e))
    BY DEF KeepsDelta
  <2>2. Top.base \in Known \cup {NoBase}
    BY <1>4, FrameFields, Zenon
  <2> QED
    BY <1>3, <1>6, <2>1, <2>2, PlaceFacts, Zenon
<1>8. refsDone' \in SUBSET DOMAIN pack /\ Range(x.kids) \subseteq DOMAIN pack
  <2>1. /\ Lists(OfsKids(c) \o refs, OfsSet(c) \cup RefKids(Child.obj)) /\ Range(refs) = RefKids(Child.obj)
        /\ RefKids(Child.obj) \subseteq DOMAIN pack /\ OfsSet(c) \subseteq DOMAIN pack
    BY KidsIn, Zenon
  <2>2. Range(x.kids) = OfsSet(c) \cup RefKids(Child.obj)
    BY <1>3, <2>1, Zenon DEF Lists
  <2> QED
    BY <1>3, <2>1, <2>2, Zenon DEF Types
<1>9. Range(t.kids) \subseteq DOMAIN pack
  <2>1. Top.kids \in Seq(Nat) /\ Range(Top.kids) \subseteq DOMAIN pack
    BY <1>4, <1>5, FrameFields, Zenon DEF Types
  <2>2. Range(Tail(Top.kids)) \subseteq Range(Top.kids)
    <3> DEFINE q == Top.kids
    <3>1. q \in Seq(Nat) /\ q # <<>>
      BY <1>1, <2>1, Zenon
    <3> HIDE DEF q
    <3>2. \A i \in DOMAIN Tail(q) : i + 1 \in DOMAIN q /\ Tail(q)[i] = q[i + 1]
      BY <3>1
    <3>3. Range(Tail(q)) \subseteq Range(q)
      BY <3>2, Zenon DEF Range
    <3> QED
      BY <3>3, Zenon DEF q
  <2> QED
    BY <1>3, <2>1, <2>2, Zenon
<1>10. mem' = HeldBy(frames') /\ mem' \in Nat /\ mem' <= BodyMemBudget
  <2>1. InMem(work.delta) \in Nat /\ InMem(work.out) \in Nat
    <3>1. work.delta \in BodyType /\ work.out \in BodyType
      BY DEF Types, WorkType
    <3> QED
      BY <3>1, InMemNat, Zenon
  <2>2. /\ HeldBy(frames) = HeldBy(Callers) + InMem(Top.body) /\ HeldBy(Callers) \in Nat
        /\ InMem(Top.body) \in Nat
    BY <1>1, <1>4, HeldByTop, HeldByNat, FrameFields, InMemNat, Zenon
  <2>3. InMem(t.body) = (IF Len(Top.kids) = 1 THEN 0 ELSE InMem(Top.body))
    BY <1>3, NothingHeld, Zenon
  <2>4. HeldBy(frames') = HeldBy(Callers) + InMem(t.body) + (IF x.kids = <<>> THEN 0 ELSE InMem(work.out))
    BY <1>3, <1>5, Zenon
  <2>5. mem = HeldBy(frames) + InMem(work.delta) + InMem(work.out) /\ mem <= BodyMemBudget
    BY Zenon DEF BodiesAccounted
  <2>6. mem' = mem - InMem(work.delta) - (IF Len(Top.kids) = 1 THEN InMem(Top.body) ELSE 0)
                    - (IF x.kids = <<>> THEN InMem(work.out) ELSE 0)
    BY <1>3, Zenon
  <2> DEFINE last == Len(Top.kids) = 1
             none == x.kids = <<>>
             D == InMem(work.delta)
             O == InMem(work.out)
             T == InMem(Top.body)
             H == HeldBy(Callers)
             H2 == HeldBy(frames')
             B == InMem(t.body)
  <2>7. /\ D \in Nat /\ O \in Nat /\ T \in Nat /\ H \in Nat /\ B = (IF last THEN 0 ELSE T)
        /\ H2 = H + B + (IF none THEN 0 ELSE O) /\ mem = H + T + D + O
        /\ mem' = mem - D - (IF last THEN T ELSE 0) - (IF none THEN O ELSE 0)
    BY <2>1, <2>2, <2>3, <2>4, <2>5, <2>6, Zenon
  <2>8. BodyMemBudget \in Nat
    BY LimitAssumption, Zenon
  <2>9. last \in BOOLEAN /\ none \in BOOLEAN
    OBVIOUS
  <2> HIDE DEF last, none, D, O, T, H, H2, B
  <2>10. mem' = H2 /\ mem' \in Nat /\ mem' <= BodyMemBudget
    BY <2>5, <2>7, <2>8, <2>9
  <2> QED
    BY <2>10, Zenon DEF H2
<1>11. Types'
  <2>1. \A k \in DOMAIN frames' : Range(frames'[k].kids) \subseteq DOMAIN pack
    <3> SUFFICES ASSUME NEW k \in DOMAIN frames' PROVE Range(frames'[k].kids) \subseteq DOMAIN pack
      OBVIOUS
    <3>1. CASE k = Len(frames)
      BY <1>5, <1>9, <3>1, Zenon
    <3>2. CASE k = Len(frames) + 1
      BY <1>5, <1>8, <3>2, Zenon
    <3>3. CASE k \in DOMAIN frames \ {Len(frames)}
      BY <1>5, <3>3, Zenon DEF Types
    <3> QED
      BY <1>5, <3>1, <3>2, <3>3, Zenon
  <2> QED
    BY <1>1, <1>5, <1>7, <1>8, <1>10, <2>1, NothingTypes, Zenon DEF Types
<1>12. Phase'
  <2>1. ScanOk(pack, TRUE)'
    BY <1>1, Zenon DEF Phase, ScanOk, HeaderOk, InflateOk
  <2> QED
    BY <1>1, <1>7, <2>1, NothingTypes DEF Phase
<1>13. BodiesAccounted'
  <2>1. HeldBy(frames)' = HeldBy(frames') /\ InMem(work.delta)' = 0 /\ InMem(work.out)' = 0
    BY <1>1, NothingHeld, NothingTypes, Zenon
  <2> QED
    BY <1>1, <1>10, <2>1 DEF BodiesAccounted
<1> QED
  BY <1>11, <1>12, <1>13

LEMMA BaseInvariant == IndexPackSpec => []Base
<1>1. IndexPackInit => Base
  BY BaseInit
<1>2. Base /\ [IndexPackNext]_ipVars => Base'
  <2> SUFFICES ASSUME Base, [IndexPackNext]_ipVars PROVE Base'
    OBVIOUS
  <2>1. CASE IndexPackNext
    BY <2>1, StepKinds, ReadKeepsBase, RootKeepsBase, FailsKeepBase, ExternalKeepsBase, InflateKeepsBase,
       AppliedKeepsBase, ChildKeepsBase, ReturnKeepsBase, SealKeepsBase, Zenon DEF Base
  <2>2. CASE UNCHANGED ipVars
    BY <2>2, StutterKeepsBase
  <2> QED
    BY <2>1, <2>2
<1> QED
  BY <1>1, <1>2, PTL DEF IndexPackSpec

(* The bodies counted by r.mem are the ones alive, within the budget, and every
   path out of run gives all of them back (newSink, finish and release), for
   every pack and every limit. *)
THEOREM BodiesAreReleased == IndexPackSpec => []BodiesAccounted
<1>1. Base => BodiesAccounted
  BY DEF Base
<1> QED
  BY <1>1, BaseInvariant, PTL
-----------------------------------------------------------------------------
(* The containers. *)

(* The elements of a sequence and one more. *)
LEMMA RangePush ==
    ASSUME NEW S, NEW s \in Seq(S), NEW y \in S
    PROVE  Range(Append(s, y)) = Range(s) \cup {y}
<1>1. /\ DOMAIN Append(s, y) = DOMAIN s \cup {Len(s) + 1} /\ Append(s, y)[Len(s) + 1] = y
      /\ \A k \in DOMAIN s : Append(s, y)[k] = s[k]
  OBVIOUS
<1> QED
  BY <1>1, Zenon DEF Range

LEMMA BuiltRange ==
    ASSUME Types
    PROVE  /\ Built \in Seq(SegType)
           /\ seg.open => Range(Built) = Range(sealed) \cup {seg}
           /\ ~seg.open => Range(Built) = Range(sealed)
<1>1. sealed \in Seq(SegType) /\ seg \in SegType
  BY Zenon DEF Types
<1>2. Append(sealed, seg) \in Seq(SegType)
  BY <1>1
<1>3. Range(Append(sealed, seg)) = Range(sealed) \cup {seg}
  BY <1>1, RangePush
<1> QED
  BY <1>1, <1>2, <1>3, Zenon DEF Built

(* The steps that place an object, and what all the others do to the
   containers. *)
Places == \E c \in DOMAIN pack, base \in Known \cup {NoBase}, asDelta \in BOOLEAN :
              /\ asDelta => pack[c].size < RawSize(pack[c])
              /\ Place(pack[c], base, asDelta)

LEMMA RootPlaces ==
    ASSUME Base, Root
    PROVE  nextRoot \in DOMAIN pack /\ (pack[nextRoot].typ = "whole" => Places)
<1>1. nextRoot \in DOMAIN pack
  <2>1. Len(pack) \in Nat /\ DOMAIN pack = 1 .. Len(pack)
    BY PackFacts, Zenon DEF Types, Base
  <2>2. nextRoot <= Len(pack)
    BY Zenon DEF Root
  <2> QED
    BY <2>1, <2>2 DEF Types, Base
<1>2. ASSUME pack[nextRoot].typ = "whole" PROVE Place(pack[nextRoot], NoBase, FALSE)
  BY <1>2, Zenon DEF Root
<1>3. NoBase \in Known \cup {NoBase} /\ FALSE \in BOOLEAN
  OBVIOUS
<1> QED
  BY <1>1, <1>2, <1>3, Zenon DEF Places

LEMMA ChildPlaces ==
    ASSUME Base, PlaceChild
    PROVE  Places
<1>1. frames # <<>> /\ Top.kids # <<>>
  BY ChildShape, Zenon DEF Base
<1>2. Head(Top.kids) \in DOMAIN pack
  BY <1>1, ChildIn, Zenon DEF Base
<1>3. \E asDelta \in BOOLEAN : /\ asDelta => Child.size < RawSize(Child)
                               /\ Place(Child, Top.base, asDelta)
  <2> DEFINE d == KeepsDelta(Child, Top.serial, Top.chain)
  <2>1. d \in BOOLEAN /\ (d => Child.size < RawSize(Child))
    BY DEF KeepsDelta
  <2>2. Place(Child, Top.base, d)
    BY Zenon DEF PlaceChild
  <2> HIDE DEF d
  <2> QED
    BY <2>1, <2>2, Zenon
<1>4. Top.base \in Known \cup {NoBase}
  BY <1>1, StackParts, FrameFields, Zenon DEF Base, Types
<1> QED
  BY <1>2, <1>3, <1>4, Zenon DEF Places, Child

Builds == Range(Built') \subseteq Range(Built) /\ Range(sealed') \subseteq Range(Built)

LEMMA OthersBuild ==
    ASSUME Base, [IndexPackNext]_ipVars
    PROVE  Builds \/ Places
<1>1. /\ seg.open => Range(Built) = Range(sealed) \cup {seg}
      /\ ~seg.open => Range(Built) = Range(sealed)
  BY BuiltRange, Zenon DEF Base
<1>2. ASSUME UNCHANGED <<seg, sealed>> PROVE Builds
  <2>1. Built' = Built /\ Range(sealed') = Range(sealed)
    BY <1>2, Zenon DEF Built
  <2> QED
    BY <1>1, <2>1, Zenon DEF Builds
<1>3. ASSUME Fails PROVE Builds
  <2>1. PICK now : Fail(Held, now) /\ (now = sealed \/ (seg.open /\ now = Append(sealed, seg)))
    BY <1>3, Zenon DEF Fails
  <2>2. seg' = NoSegment /\ sealed' = now
    BY <2>1, Zenon DEF Fail
  <2>3. Built' = now
    BY <2>2, NothingTypes, Zenon DEF Built
  <2>4. now = sealed \/ (seg.open /\ now = Built)
    BY <2>1, Zenon DEF Built
  <2> QED
    BY <1>1, <2>2, <2>3, <2>4, Zenon DEF Builds
<1>4. ASSUME SealLast PROVE Builds
  <2>1. sealed' = Built /\ seg' = NoSegment
    BY <1>4, Zenon DEF SealLast, Built
  <2>2. Built' = Built
    BY <2>1, NothingTypes, Zenon DEF Built
  <2> QED
    BY <2>1, <2>2, Zenon DEF Builds
<1>5. ASSUME Root PROVE Builds \/ Places
  <2>1. CASE pack[nextRoot].typ = "whole"
    BY <1>5, <2>1, RootPlaces, Zenon
  <2>2. CASE pack[nextRoot].typ # "whole"
    BY <1>2, <1>5, <2>2, Zenon DEF Root
  <2> QED
    BY <2>1, <2>2, Zenon
<1>6. ASSUME PlaceChild PROVE Places
  BY <1>6, ChildPlaces, Zenon
<1>7. ASSUME UNCHANGED ipVars PROVE Builds
  BY <1>2, <1>7, Zenon DEF ipVars
<1>8. ASSUME IndexPackNext PROVE Builds \/ Places
  <2>1. ASSUME NEW p, NEW trailer, ReadPack(p, trailer) PROVE Builds
    BY <1>2, <2>1, Zenon DEF ReadPack
  <2>2. ASSUME NEW j, ExternalRead(j) PROVE Builds
    BY <1>2, <2>2, Zenon DEF ExternalRead
  <2>3. ASSUME InflateChild PROVE Builds
    BY <1>2, <2>3, Zenon DEF InflateChild
  <2>4. ASSUME ChildApplied PROVE Builds
    BY <1>2, <2>4, Zenon DEF ChildApplied
  <2>5. ASSUME Return PROVE Builds
    BY <1>2, <2>5, Zenon DEF Return
  <2> QED
    BY <1>3, <1>4, <1>5, <1>6, <1>8, <2>1, <2>2, <2>3, <2>4, <2>5, StepKinds, Zenon DEF Base
<1> QED
  BY <1>7, <1>8, Zenon

(* A step that places an object: the containers so far, and the one it went
   into. *)
LEMMA PlaceBuilds ==
    ASSUME Base, Types', Places
    PROVE  /\ seg' \in SegType /\ seg'.open /\ Range(Built') = Range(sealed') \cup {seg'}
           /\ \E rec \in RecType, raw \in Nat :
                 /\ rec.stored <= raw
                 /\ \/ Grows(rec, raw) /\ seg \in Range(Built) /\ Range(sealed') \subseteq Range(Built)
                    \/ Opens(rec) /\ Range(sealed') = Range(Built)
<1>1. PICK c \in DOMAIN pack, base \in Known \cup {NoBase}, asDelta \in BOOLEAN :
         /\ asDelta => pack[c].size < RawSize(pack[c])
         /\ Place(pack[c], base, asDelta)
  BY Zenon DEF Places
<1> DEFINE e == pack[c]
<1>2. e \in PackEntry /\ RawSize(e) \in Nat
  BY PackFacts, Zenon DEF Base, Types
<1>11. (asDelta => e.size < RawSize(e)) /\ Place(e, base, asDelta)
  BY <1>1, Zenon
<1> HIDE DEF e
<1>3. seg' \in SegType /\ seg'.open /\ sealed' \in Seq(SegType)
  BY <1>11, <1>2, PlaceFacts, Zenon DEF Base
<1>12. PICK rec \in RecType : Wrote(rec, e, base, asDelta)
  BY <1>11, <1>2, PlaceFacts, Zenon DEF Base
<1>4. rec.stored <= RawSize(e) /\ (Grows(rec, RawSize(e)) \/ Opens(rec))
  BY <1>12, Zenon DEF Wrote
<1>5. Range(Built') = Range(sealed') \cup {seg'}
  <2>1. Built' = Append(sealed', seg')
    BY <1>3, Zenon DEF Built
  <2> QED
    BY <1>3, <2>1, RangePush
<1>6. ASSUME Grows(rec, RawSize(e)) PROVE seg \in Range(Built) /\ Range(sealed') \subseteq Range(Built)
  <2>1. seg.open /\ sealed' = sealed
    BY <1>6, Zenon DEF Grows
  <2> QED
    BY <2>1, BuiltRange, Zenon DEF Base
<1>7. ASSUME Opens(rec) PROVE Range(sealed') = Range(Built)
  BY <1>7, Zenon DEF Opens
<1> QED
  BY <1>2, <1>3, <1>4, <1>5, <1>6, <1>7, Zenon

(* An added record starts where the container ended. *)
LEMMA TiledPlace ==
    ASSUME Types, seg' \in SegType, NEW rec \in RecType, NEW raw \in Nat, rec.stored <= raw,
           (Grows(rec, raw) /\ Tiled(seg)) \/ Opens(rec)
    PROVE  Tiled(seg')
<1>0. rec.offset \in Nat /\ rec.stored \in Nat
  BY DEF RecType
<1>1. CASE Grows(rec, raw) /\ Tiled(seg)
  <2> DEFINE q == seg.recs
             n == Len(seg.recs)
             r == seg'.recs
  <2>1. /\ r = Append(q, rec) /\ rec.offset = seg.offset /\ seg'.offset = seg.offset + rec.stored
        /\ q = <<>> \/ seg.offset + raw <= MaxPackBytes
    BY <1>1, Zenon DEF Grows
  <2>2. q \in Seq(RecType) /\ seg.offset \in Nat
    BY DEF Types, SegType
  <2> HIDE DEF q, r
  <2>3. /\ n \in Nat /\ Len(r) = n + 1 /\ DOMAIN r = 1 .. (n + 1) /\ r[n + 1] = rec
        /\ \A i \in 1 .. n : r[i] = q[i]
    BY <2>1, <2>2 DEF q
  <2>4. \A i \in 1 .. n : q[i].offset + q[i].stored = IF i = n THEN seg.offset ELSE q[i + 1].offset
    <3>1. DOMAIN q = 1 .. n
      BY <2>2 DEF q
    <3> QED
      BY <1>1, <3>1, Zenon DEF Tiled, q
  <2> HIDE DEF n
  <2>5. seg'.offset <= MaxPackBytes \/ Len(r) = 1
    <3>1. CASE q = <<>>
      <4>1. Len(q) = 0
        BY <3>1
      <4> QED
        BY <2>3, <4>1 DEF n, q
    <3>2. CASE seg.offset + raw <= MaxPackBytes
      BY <1>0, <2>1, <2>2, <3>2, LimitAssumption
    <3> QED
      BY <2>1, <3>1, <3>2, Zenon
  <2>6. ASSUME NEW i \in DOMAIN r
        PROVE  r[i].offset + r[i].stored = IF i = Len(r) THEN seg'.offset ELSE r[i + 1].offset
    <3>1. CASE i = n + 1
      BY <2>1, <2>3, <3>1, Zenon
    <3>2. CASE i = n
      <4>1. i \in 1 .. n /\ i # Len(r) /\ r[i] = q[i]
        BY <2>3, <2>6, <3>2
      <4>2. r[i + 1] = rec
        BY <2>3, <3>2, Zenon
      <4>3. q[i].offset + q[i].stored = seg.offset
        BY <2>4, <3>2, <4>1, Zenon
      <4> QED
        BY <2>1, <4>1, <4>2, <4>3, Zenon
    <3>3. CASE i \in 1 .. (n - 1)
      <4>1. i \in 1 .. n /\ i + 1 \in 1 .. n /\ i # n /\ i # Len(r)
        BY <2>3, <3>3
      <4> QED
        BY <2>3, <2>4, <4>1, Zenon
    <3> QED
      BY <2>3, <3>1, <3>2, <3>3
  <2> QED
    BY <2>5, <2>6, Zenon DEF Tiled, r
<1>2. CASE Opens(rec)
  <2>1. seg'.recs = <<rec>> /\ rec.offset = 0 /\ seg'.offset = rec.stored
    BY <1>2, Zenon DEF Opens
  <2>2. Len(<<rec>>) = 1 /\ DOMAIN <<rec>> = {1} /\ <<rec>>[1] = rec /\ rec.offset + rec.stored = rec.stored
    BY <1>0, <2>1
  <2> QED
    BY <2>1, <2>2, Zenon DEF Tiled
<1> QED
  BY <1>1, <1>2, Zenon

(* place compares raw sizes, so the stored bytes of no container pass the cap
   unless one object alone does, and the records tile the container, for every
   pack and every way its payloads compress. *)
THEOREM ContainersKeepToCap == IndexPackSpec => []ContainersWithinCap
<1>0. ContainersWithinCap <=> \A g \in Range(Built) : Tiled(g)
  BY Zenon DEF ContainersWithinCap, Tiled
<1>1. IndexPackInit => ContainersWithinCap
  <2> SUFFICES ASSUME IndexPackInit PROVE ContainersWithinCap
    OBVIOUS
  <2>1. Built = <<>>
    BY NothingTypes, Zenon DEF IndexPackInit, Built
  <2>2. DOMAIN <<>> = {}
    OBVIOUS
  <2> QED
    BY <1>0, <2>1, <2>2, Zenon DEF Range
<1>2. Base /\ Base' /\ ContainersWithinCap /\ [IndexPackNext]_ipVars => ContainersWithinCap'
  <2> SUFFICES ASSUME Base, Base', ContainersWithinCap, [IndexPackNext]_ipVars PROVE ContainersWithinCap'
    OBVIOUS
  <2>1. \A g \in Range(Built) : Tiled(g)
    BY <1>0, Zenon
  <2>2. SUFFICES \A g \in Range(Built') : Tiled(g)
    BY Zenon DEF ContainersWithinCap, Tiled
  <2>3. CASE Builds
    BY <2>1, <2>3, Zenon DEF Builds
  <2>4. CASE Places
    <3>1. /\ seg' \in SegType /\ Range(Built') = Range(sealed') \cup {seg'}
      BY <2>4, PlaceBuilds, Zenon DEF Base
    <3>2. PICK rec \in RecType, raw \in Nat :
             /\ rec.stored <= raw
             /\ \/ Grows(rec, raw) /\ seg \in Range(Built) /\ Range(sealed') \subseteq Range(Built)
                \/ Opens(rec) /\ Range(sealed') = Range(Built)
      BY <2>4, PlaceBuilds, Zenon DEF Base
    <3>3. (Grows(rec, raw) /\ Tiled(seg)) \/ Opens(rec)
      BY <2>1, <3>2, Zenon
    <3>4. Tiled(seg')
      BY <3>1, <3>2, <3>3, TiledPlace, Zenon DEF Base
    <3> QED
      BY <2>1, <3>1, <3>2, <3>4, Zenon
  <2> QED
    BY <2>3, <2>4, OthersBuild, Zenon
<1> QED
  BY <1>1, <1>2, BaseInvariant, PTL DEF IndexPackSpec
-----------------------------------------------------------------------------
(* Chains of deltas. *)

(* A container with one record more: a whole object has depth 0, a delta a depth
   past its base's. *)
HasBase(g, depth, rec, d) ==
    rec.base = NoBase \/ \E j \in DOMAIN g.recs : g.recs[j].obj = rec.base /\ depth[j] < d

Widens(r, wider, g, depth, rec, d) ==
    /\ \A i \in DOMAIN g.recs : i \in DOMAIN r.recs /\ r.recs[i] = g.recs[i] /\ wider[i] = depth[i]
    /\ \E j \in DOMAIN r.recs : r.recs[j] = rec /\ wider[j] = d

LEMMA RankedGrows ==
    ASSUME NEW g, NEW r, NEW rec, NEW depth, NEW d \in 0 .. MaxDeltaDepth,
           g.recs \in Seq(RecType), rec \in RecType, r.recs = Append(g.recs, rec), Ranked(g, depth),
           HasBase(g, depth, rec, d)
    PROVE  \E wider : Ranked(r, wider) /\ Widens(r, wider, g, depth, rec, d)
<1> DEFINE q == g.recs
           n == Len(g.recs)
           u == r.recs
           w == [i \in DOMAIN u |-> IF i \in DOMAIN q THEN depth[i] ELSE d]
<1>1. /\ n \in Nat /\ DOMAIN q = 1 .. n /\ DOMAIN u = 1 .. (n + 1) /\ u[n + 1] = rec
      /\ \A i \in 1 .. n : u[i] = q[i]
  OBVIOUS
<1>2. /\ depth \in [DOMAIN q -> 0 .. MaxDeltaDepth]
      /\ \A i \in DOMAIN q : \/ q[i].base = NoBase
                             \/ \E j \in 1 .. (i - 1) : q[j].obj = q[i].base /\ depth[j] < depth[i]
  BY Zenon DEF Ranked
<1>3. rec.base = NoBase \/ \E j \in DOMAIN q : q[j].obj = rec.base /\ depth[j] < d
  BY Zenon DEF HasBase
<1> HIDE DEF q, n, u
<1>4. /\ \A i \in DOMAIN q : i \in DOMAIN u /\ u[i] = q[i]
      /\ n + 1 \in DOMAIN u /\ n + 1 \notin DOMAIN q
      /\ \A i \in DOMAIN u : i \in DOMAIN q \/ i = n + 1
      /\ \A i \in DOMAIN q : i \in 1 .. ((n + 1) - 1)
      /\ \A i \in DOMAIN q : \A j \in 1 .. (i - 1) : j \in DOMAIN q
  BY <1>1
<1>5. /\ w \in [DOMAIN u -> 0 .. MaxDeltaDepth] /\ w[n + 1] = d
      /\ \A i \in DOMAIN q : w[i] = depth[i]
  BY <1>2, <1>4, Zenon
<1> HIDE DEF w
<1>6. ASSUME NEW i \in DOMAIN u
      PROVE  u[i].base = NoBase \/ \E j \in 1 .. (i - 1) : u[j].obj = u[i].base /\ w[j] < w[i]
  <2>1. CASE i \in DOMAIN q
    <3>1. CASE q[i].base = NoBase
      BY <1>4, <2>1, <3>1, Zenon
    <3>2. CASE \E j \in 1 .. (i - 1) : q[j].obj = q[i].base /\ depth[j] < depth[i]
      <4>1. PICK j \in 1 .. (i - 1) : q[j].obj = q[i].base /\ depth[j] < depth[i]
        BY <3>2, Zenon
      <4>2. j \in DOMAIN q
        BY <1>4, <2>1, Zenon
      <4>3. u[j] = q[j] /\ u[i] = q[i] /\ w[j] = depth[j] /\ w[i] = depth[i]
        BY <1>4, <1>5, <2>1, <4>2, Zenon
      <4> QED
        BY <4>1, <4>3, Zenon
    <3> QED
      BY <1>2, <2>1, <3>1, <3>2, Zenon
  <2>2. CASE i = n + 1
    <3>1. u[i] = rec /\ w[i] = d
      BY <1>1, <1>5, <2>2, Zenon
    <3>2. CASE rec.base = NoBase
      BY <3>1, <3>2, Zenon
    <3>3. CASE \E j \in DOMAIN q : q[j].obj = rec.base /\ depth[j] < d
      <4>1. PICK j \in DOMAIN q : q[j].obj = rec.base /\ depth[j] < d
        BY <3>3, Zenon
      <4>2. j \in 1 .. (i - 1)
        BY <1>4, <2>2, Zenon
      <4>3. u[j] = q[j] /\ w[j] = depth[j]
        BY <1>4, <1>5, Zenon
      <4> QED
        BY <3>1, <4>1, <4>2, <4>3, Zenon
    <3> QED
      BY <1>3, <3>2, <3>3, Zenon
  <2> QED
    BY <1>4, <2>1, <2>2, Zenon
<1>7. Ranked(r, w)
  BY <1>5, <1>6, Zenon DEF Ranked, u
<1>8. \E j \in DOMAIN u : u[j] = rec /\ w[j] = d
  BY <1>1, <1>4, <1>5, Zenon
<1> QED
  BY <1>4, <1>5, <1>7, <1>8, Zenon DEF u, q, Widens

(* A container with one record. *)
LEMMA RankedOne ==
    ASSUME NEW r, NEW rec, r.recs = <<rec>>, rec.base = NoBase
    PROVE  \E depth : /\ Ranked(r, depth)
                      /\ \E j \in DOMAIN r.recs : r.recs[j] = rec /\ depth[j] = 0
<1> DEFINE w == [i \in {1} |-> 0]
<1>1. DOMAIN r.recs = {1} /\ r.recs[1] = rec
  OBVIOUS
<1>2. 0 \in 0 .. MaxDeltaDepth
  BY LimitAssumption
<1>3. w \in [{1} -> 0 .. MaxDeltaDepth] /\ w[1] = 0
  BY <1>2
<1> HIDE DEF w
<1>4. Ranked(r, w)
  BY <1>1, <1>3, Zenon DEF Ranked
<1> QED
  BY <1>1, <1>3, <1>4, Zenon

Alike(f, g) == f.base = g.base /\ f.serial = g.serial /\ f.chain = g.chain

(* A delta of chain length d on the base of some walk; and the walks of the next
   state, each a walk of this one or one on an object h of chain length d. *)
DeltaOn(e, base, d) ==
    \E k \in DOMAIN frames : /\ frames[k].serial = SerialFor(RawSize(e)) /\ frames[k].base = base
                             /\ frames[k].chain + 1 = d

Descend(h, d) ==
    \A k \in DOMAIN frames' :
        \/ \E m \in DOMAIN frames : Alike(frames'[k], frames[m])
        \/ frames'[k].serial = serial' /\ frames'[k].base = h /\ frames'[k].chain = d

(* A step that places an object of chain length d. *)
LEMMA ChainsPlace ==
    ASSUME Base, Base', Chains, NEW e \in PackEntry, NEW base \in Known \cup {NoBase}, NEW asDelta \in BOOLEAN,
           NEW d \in 0 .. MaxDeltaDepth, asDelta => e.size < RawSize(e), Place(e, base, asDelta),
           asDelta => DeltaOn(e, base, d), Descend(e.obj, d),
           ~asDelta => d = 0
    PROVE  Chains'
<1>1. seg' \in SegType /\ seg'.open /\ serial' = SerialFor(RawSize(e))
  BY PlaceFacts, Zenon DEF Base
<1>0. PICK rec \in RecType : Wrote(rec, e, base, asDelta)
  BY PlaceFacts, Zenon DEF Base
<1>2. /\ rec.obj = e.obj /\ rec.base = (IF asDelta THEN base ELSE NoBase)
      /\ Grows(rec, RawSize(e)) \/ Opens(rec)
  BY <1>0, Zenon DEF Wrote
<1>3. serial \in Nat /\ serial' \in Nat /\ d \in Nat
  BY LimitAssumption DEF Base, Types
<1>4. \A m \in DOMAIN frames : /\ frames[m].serial \in Int /\ frames[m].chain \in Nat
                               /\ frames[m].serial <= serial
  <2>1. \A m \in DOMAIN frames : frames[m] \in FrameType
    BY DEF Base, Types
  <2>2. \A m \in DOMAIN frames : frames[m].serial \in Int /\ frames[m].chain \in Nat
    BY <2>1, FrameFields, Zenon
  <2> QED
    BY <1>3, <2>2 DEF Chains
<1>5. serial' >= serial
  BY <1>2, <1>3 DEF Grows, Opens
<1>6. \A k \in DOMAIN frames' : frames'[k].serial < serial' \/ (frames'[k].serial = serial' /\ seg'.open)
  <2> SUFFICES ASSUME NEW k \in DOMAIN frames' PROVE frames'[k].serial < serial' \/ frames'[k].serial = serial'
    BY <1>1, Zenon
  <2>1. CASE \E m \in DOMAIN frames : Alike(frames'[k], frames[m])
    BY <1>3, <1>4, <1>5, <2>1 DEF Alike
  <2> QED
    BY <2>1, Zenon DEF Descend
<1>7. CASE Grows(rec, RawSize(e))
  <2>1. seg.open /\ serial' = serial /\ sealed' = sealed /\ seg'.recs = Append(seg.recs, rec)
    BY <1>7, Zenon DEF Grows
  <2>2. PICK depth : /\ Ranked(seg, depth)
                     /\ \A k \in DOMAIN frames : frames[k].serial = serial => Based(seg, frames[k], depth)
    BY <2>1, Zenon DEF Chains
  <2>3. seg.recs \in Seq(RecType)
    BY DEF Base, Types, SegType
  <2>4. rec.base = NoBase \/ \E j \in DOMAIN seg.recs : seg.recs[j].obj = rec.base /\ depth[j] < d
    <3>1. CASE asDelta
      <4>1. PICK k \in DOMAIN frames : /\ frames[k].serial = serial /\ frames[k].base = base
                                       /\ frames[k].chain + 1 = d
        BY <1>1, <2>1, <3>1, Zenon DEF DeltaOn
      <4>2. PICK j \in DOMAIN seg.recs : seg.recs[j].obj = base /\ depth[j] <= frames[k].chain
        BY <2>2, <4>1, Zenon DEF Based
      <4>3. depth[j] \in 0 .. MaxDeltaDepth
        BY <2>2, Zenon DEF Ranked
      <4>4. depth[j] < d
        BY <1>3, <1>4, <4>1, <4>2, <4>3, LimitAssumption
      <4> QED
        BY <1>2, <3>1, <4>2, <4>4, Zenon
    <3> QED
      BY <1>2, <3>1, Zenon
  <2>5. HasBase(seg, depth, rec, d)
    BY <2>4, Zenon DEF HasBase
  <2>8. PICK wider : Ranked(seg', wider) /\ Widens(seg', wider, seg, depth, rec, d)
    BY <2>1, <2>2, <2>3, <2>5, RankedGrows, Zenon
  <2>6. ASSUME NEW k \in DOMAIN frames', frames'[k].serial = serial' PROVE Based(seg', frames'[k], wider)
    <3>1. CASE \E m \in DOMAIN frames : Alike(frames'[k], frames[m])
      <4>1. PICK m \in DOMAIN frames : Alike(frames'[k], frames[m])
        BY <3>1, Zenon
      <4>2. Based(seg, frames[m], depth)
        BY <2>1, <2>2, <2>6, <4>1, Zenon DEF Alike
      <4> QED
        BY <2>8, <4>1, <4>2, Zenon DEF Based, Alike, Widens
    <3>2. CASE frames'[k].base = e.obj /\ frames'[k].chain = d
      <4>1. d <= d
        BY <1>3
      <4> QED
        BY <1>2, <2>8, <3>2, <4>1, Zenon DEF Based, Widens
    <3> QED
      BY <3>1, <3>2, Zenon DEF Descend
  <2>7. \A g \in Range(sealed') : \E x : Ranked(g, x)
    BY <2>1, Zenon DEF Chains
  <2> QED
    BY <1>6, <2>6, <2>7, <2>8, Zenon DEF Chains
<1>8. CASE Opens(rec)
  <2>1. serial' = serial + 1 /\ sealed' = Built /\ seg'.recs = <<rec>>
    BY <1>8, Zenon DEF Opens
  <2>2. \A m \in DOMAIN frames : frames[m].serial # serial'
    BY <1>3, <1>4, <2>1
  <2>3. ~asDelta
    BY <1>1, <2>2, Zenon DEF DeltaOn
  <2>4. rec.base = NoBase /\ d = 0
    BY <1>2, <2>3, Zenon
  <2>5. PICK depth : /\ Ranked(seg', depth)
                     /\ \E j \in DOMAIN seg'.recs : seg'.recs[j] = rec /\ depth[j] = 0
    BY <2>1, <2>4, RankedOne
  <2>6. ASSUME NEW k \in DOMAIN frames', frames'[k].serial = serial' PROVE Based(seg', frames'[k], depth)
    <3>1. frames'[k].base = e.obj /\ frames'[k].chain = d
      BY <2>2, <2>6, Zenon DEF Alike, Descend
    <3>2. 0 <= 0
      OBVIOUS
    <3> QED
      BY <1>2, <2>4, <2>5, <3>1, <3>2, Zenon DEF Based
  <2>7. \A g \in Range(sealed') : \E x : Ranked(g, x)
    BY <2>1, BuiltRange, Zenon DEF Base, Chains
  <2> QED
    BY <1>6, <2>5, <2>6, <2>7, Zenon DEF Chains
<1> QED
  BY <1>2, <1>7, <1>8, Zenon

(* A step that leaves the containers alone and starts no walk. *)
LEMMA ChainsKept ==
    ASSUME Chains, UNCHANGED <<seg, serial, sealed>>,
           \A k \in DOMAIN frames' : k \in DOMAIN frames /\ frames'[k] = frames[k]
    PROVE  Chains'
<1>1. \A g \in Range(sealed') : \E depth : Ranked(g, depth)
  BY Zenon DEF Chains
<1>2. seg'.open => \E depth : /\ Ranked(seg', depth)
                              /\ \A k \in DOMAIN frames' : frames'[k].serial = serial'
                                                             => Based(seg', frames'[k], depth)
  BY Zenon DEF Chains
<1>3. \A k \in DOMAIN frames' : frames'[k].serial < serial' \/ (frames'[k].serial = serial' /\ seg'.open)
  BY Zenon DEF Chains
<1> QED
  BY <1>1, <1>2, <1>3, Zenon DEF Chains

(* A step after which no walk and no container is open. *)
LEMMA ChainsClosed ==
    ASSUME Base, Chains, frames' = <<>>, ~seg'.open, Range(sealed') \subseteq Range(Built)
    PROVE  Chains'
<1>1. \A g \in Range(Built) : \E depth : Ranked(g, depth)
  BY BuiltRange, Zenon DEF Base, Chains
<1>2. DOMAIN <<>> = {}
  OBVIOUS
<1>3. \A g \in Range(sealed') : \E depth : Ranked(g, depth)
  BY <1>1, Zenon
<1>4. \A k \in DOMAIN frames' : frames'[k].serial < serial' \/ (frames'[k].serial = serial' /\ seg'.open)
  BY <1>2, Zenon
<1> QED
  BY <1>3, <1>4, Zenon DEF Chains

LEMMA ChainsRoot ==
    ASSUME Base, Base', Chains, Root
    PROVE  Chains'
<1>1. nextRoot \in DOMAIN pack
  BY RootPlaces, Zenon
<1>2. CASE pack[nextRoot].typ # "whole"
  <2>1. UNCHANGED <<frames, seg, serial, sealed>>
    BY <1>2, Zenon DEF Root
  <2> QED
    BY <2>1, ChainsKept, Zenon
<1>3. CASE pack[nextRoot].typ = "whole"
  <2> DEFINE e == pack[nextRoot]
  <2>1. e \in PackEntry /\ e.obj \in Known
    BY <1>1, PackFacts, Zenon DEF Base, Types
  <2>2. frames = <<>> /\ Place(e, NoBase, FALSE)
    BY <1>3, Zenon DEF Root
  <2>3. serial' = SerialFor(RawSize(e))
    BY <2>1, <2>2, PlaceFacts, Zenon DEF Base
  <2>4. \/ frames' = frames
        \/ \E kids, b : frames' = <<Frame(kids, e.obj, b, SerialFor(RawSize(e)), 0, 1)>>
    BY <1>3, Zenon DEF Root
  <2> HIDE DEF e
  <2>5. ASSUME NEW k \in DOMAIN frames'
        PROVE  frames'[k].serial = serial' /\ frames'[k].base = e.obj /\ frames'[k].chain = 0
    <3>1. DOMAIN <<>> = {}
      OBVIOUS
    <3>2. PICK kids, b : frames' = <<Frame(kids, e.obj, b, SerialFor(RawSize(e)), 0, 1)>>
      BY <2>2, <2>4, <2>5, <3>1, Zenon
    <3> DEFINE f == Frame(kids, e.obj, b, SerialFor(RawSize(e)), 0, 1)
    <3>3. f.serial = SerialFor(RawSize(e)) /\ f.base = e.obj /\ f.chain = 0
      BY DEF Frame
    <3>4. frames' = <<f>>
      BY <3>2
    <3> HIDE DEF f
    <3>5. frames'[k] = f
      BY <2>5, <3>4
    <3> QED
      BY <2>3, <3>3, <3>5, Zenon
  <2>6. 0 \in 0 .. MaxDeltaDepth /\ FALSE \in BOOLEAN /\ NoBase \in Known \cup {NoBase}
    BY LimitAssumption
  <2> QED
    <3>1. Descend(e.obj, 0)
      BY <2>5, Zenon DEF Descend
    <3> QED
      BY <2>1, <2>2, <2>6, <3>1, ChainsPlace, Zenon
<1> QED
  BY <1>2, <1>3, Zenon

LEMMA ChainsChild ==
    ASSUME Base, Base', Chains, PlaceChild
    PROVE  Chains'
<1>1. frames # <<>> /\ Top.kids # <<>>
  BY ChildShape, Zenon DEF Base
<1>2. PICK refs \in Orders(RefKids(Child.obj)), t \in FrameType, x \in FrameType : ChildStep(refs, t, x)
  BY ChildShape, Zenon DEF Base
<1> DEFINE e == pack[Head(Top.kids)]
           asDelta == KeepsDelta(e, Top.serial, Top.chain)
           d == IF asDelta THEN Top.chain + 1 ELSE 0
           n == Len(frames)
<1>3. e \in PackEntry /\ e.obj \in Known
  BY <1>1, ChildIn, Zenon DEF Base
<1>4. /\ Place(e, Top.base, asDelta)
      /\ t.base = Top.base /\ t.serial = Top.serial /\ t.chain = Top.chain
      /\ x.base = e.obj /\ x.serial = SerialFor(RawSize(e)) /\ x.chain = d
      /\ frames' = IF x.kids = <<>> THEN Append(Callers, t) ELSE Append(Append(Callers, t), x)
  BY <1>2, Zenon DEF ChildStep
<1>5. /\ asDelta \in BOOLEAN /\ (asDelta => e.size < RawSize(e))
      /\ asDelta => Top.serial = SerialFor(RawSize(e)) /\ Top.chain < MaxDeltaDepth
  BY DEF KeepsDelta
<1>6. Top = frames[n] /\ Top.base \in Known /\ Top.chain \in Nat
  <2>1. Top = frames[n] /\ Top \in FrameType
    BY <1>1, StackParts, Zenon DEF Base, Types
  <2> QED
    BY <2>1, FrameFields, Zenon
<1>7. /\ n \in DOMAIN frames /\ n \in DOMAIN frames' /\ frames'[n] = t
      /\ \A k \in DOMAIN frames \ {n} : k \in DOMAIN frames' /\ frames'[k] = frames[k]
      /\ x.kids = <<>> => DOMAIN frames' = DOMAIN frames
      /\ x.kids # <<>> => DOMAIN frames' = DOMAIN frames \cup {n + 1} /\ frames'[n + 1] = x
  BY <1>1, <1>4, ChildStack, Zenon DEF Base, Types
<1> HIDE DEF asDelta, n
<1>8. d \in 0 .. MaxDeltaDepth
  BY <1>5, <1>6, LimitAssumption
<1>9. (asDelta => Top.chain + 1 = d) /\ (~asDelta => d = 0)
  BY Zenon
<1> HIDE DEF d, e
<1>10. serial' = SerialFor(RawSize(e))
  BY <1>3, <1>4, <1>5, <1>6, PlaceFacts, Zenon DEF Base
<1>11. ASSUME NEW k \in DOMAIN frames'
       PROVE  \/ \E m \in DOMAIN frames : Alike(frames'[k], frames[m])
              \/ frames'[k].serial = serial' /\ frames'[k].base = e.obj /\ frames'[k].chain = d
  <2>1. CASE k = n
    BY <1>4, <1>6, <1>7, <2>1, Zenon DEF Alike
  <2>2. CASE k \in DOMAIN frames \ {n}
    BY <1>7, <2>2, Zenon DEF Alike
  <2>3. CASE frames'[k] = x
    BY <1>4, <1>10, <2>3, Zenon
  <2>4. k = n \/ k \in DOMAIN frames \ {n} \/ frames'[k] = x
    <3>1. CASE x.kids = <<>>
      BY <1>7, <3>1, Zenon
    <3>2. CASE x.kids # <<>>
      <4>1. k \in DOMAIN frames \/ k = n + 1
        <5>1. DOMAIN frames' = DOMAIN frames \cup {n + 1}
          BY <1>7, <3>2, Zenon
        <5> QED
          BY <5>1
      <4>2. frames'[n + 1] = x
        BY <1>7, <3>2, Zenon
      <4> QED
        BY <4>1, <4>2
    <3> QED
      BY <3>1, <3>2, Zenon
  <2> QED
    BY <2>1, <2>2, <2>3, <2>4, Zenon
<1>12. asDelta => \E k \in DOMAIN frames : /\ frames[k].serial = SerialFor(RawSize(e)) /\ frames[k].base = Top.base
                                           /\ frames[k].chain + 1 = d
  BY <1>5, <1>6, <1>7, <1>9, Zenon
<1>13. Top.base \in Known \cup {NoBase}
  BY <1>6, Zenon
<1>14. Place(e, Top.base, asDelta) /\ asDelta \in BOOLEAN /\ (asDelta => e.size < RawSize(e))
  BY <1>4, <1>5, Zenon
<1> DEFINE b == Top.base
<1> HIDE DEF b
<1>15. /\ b \in Known \cup {NoBase} /\ Place(e, b, asDelta)
       /\ asDelta => DeltaOn(e, b, d)
  BY <1>12, <1>13, <1>14, Zenon DEF b, DeltaOn
<1>16. Descend(e.obj, d)
  BY <1>11, Zenon DEF Descend
<1> QED
  BY <1>3, <1>8, <1>9, <1>14, <1>15, <1>16, ChainsPlace, Zenon

(* A base read from the repository is in no container. *)
LEMMA ChainsExternal ==
    ASSUME Base, Chains, NEW j \in DOMAIN pack, ExternalRead(j)
    PROVE  Chains'
<1>1. UNCHANGED <<seg, serial, sealed>>
  BY Zenon DEF ExternalRead
<1>2. PICK refs, b : frames' = <<Frame(refs, pack[j].base, b, NoSerial, 0, 1)>>
  BY Zenon DEF ExternalRead
<1>3. \A k \in DOMAIN frames' : frames'[k].serial = NoSerial
  <2> DEFINE f == Frame(refs, pack[j].base, b, NoSerial, 0, 1)
  <2>1. f.serial = NoSerial
    BY DEF Frame
  <2>2. frames' = <<f>>
    BY <1>2
  <2> HIDE DEF f
  <2> QED
    BY <2>1, <2>2
<1>4. NoSerial < serial /\ NoSerial # serial
  BY DEF NoSerial, Base, Types
<1>5. \A g \in Range(sealed') : \E depth : Ranked(g, depth)
  BY <1>1, Zenon DEF Chains
<1>6. seg'.open => \E depth : /\ Ranked(seg', depth)
                              /\ \A k \in DOMAIN frames' : frames'[k].serial = serial'
                                                             => Based(seg', frames'[k], depth)
  <2>1. \A k \in DOMAIN frames' : frames'[k].serial # serial'
    BY <1>1, <1>3, <1>4, Zenon
  <2>2. seg'.open => \E depth : Ranked(seg', depth)
    BY <1>1, Zenon DEF Chains
  <2> QED
    BY <2>1, <2>2, Zenon
<1>7. \A k \in DOMAIN frames' : frames'[k].serial < serial' \/ (frames'[k].serial = serial' /\ seg'.open)
  BY <1>1, <1>3, <1>4, Zenon
<1> QED
  BY <1>5, <1>6, <1>7, Zenon DEF Chains

LEMMA ChainsNext ==
    ASSUME Base, Base', Chains, [IndexPackNext]_ipVars
    PROVE  Chains'
<1>1. ASSUME UNCHANGED <<frames, seg, serial, sealed>> PROVE Chains'
  BY <1>1, ChainsKept, Zenon
<1>2. ASSUME Fails \/ SealLast PROVE Chains'
  <2>1. /\ seg.open => Range(Built) = Range(sealed) \cup {seg} /\ Built = Append(sealed, seg)
        /\ ~seg.open => Range(Built) = Range(sealed) /\ Built = sealed
    BY BuiltRange, Zenon DEF Base, Built
  <2>2. seg' = NoSegment /\ (sealed' = sealed \/ sealed' = Built)
    BY <1>2, <2>1, Zenon DEF Fails, Fail, SealLast
  <2>3. frames' = <<>>
    BY <1>2, Zenon DEF Fails, Fail, SealLast
  <2>4. Range(sealed') \subseteq Range(Built)
    BY <2>1, <2>2, Zenon
  <2> QED
    BY <2>2, <2>3, <2>4, NothingTypes, ChainsClosed, Zenon
<1>3. ASSUME Return PROVE Chains'
  <2>1. UNCHANGED <<seg, serial, sealed>> /\ frames' = Callers /\ frames # <<>>
    BY <1>3, Zenon DEF Return, Walking
  <2>2. \A k \in DOMAIN Callers : k \in DOMAIN frames /\ Callers[k] = frames[k]
    BY <2>1, StackParts DEF Base, Types
  <2> QED
    BY <2>1, <2>2, ChainsKept, Zenon
<1>4. ASSUME UNCHANGED ipVars PROVE Chains'
  BY <1>1, <1>4, Zenon DEF ipVars
<1>5. ASSUME IndexPackNext PROVE Chains'
  <2>1. ASSUME NEW p, NEW trailer, ReadPack(p, trailer) PROVE Chains'
    BY <1>1, <2>1, Zenon DEF ReadPack
  <2>3. ASSUME InflateChild PROVE Chains'
    BY <1>1, <2>3, Zenon DEF InflateChild
  <2>4. ASSUME ChildApplied PROVE Chains'
    BY <1>1, <2>4, Zenon DEF ChildApplied
  <2> QED
    BY <1>2, <1>3, <1>5, <2>1, <2>3, <2>4, StepKinds, ChainsRoot, ChainsChild, ChainsExternal, Zenon DEF Base
<1> QED
  BY <1>4, <1>5, Zenon

(* A ranked container that holds nothing both as a delta and again is readable:
   what is kept of an object, if a delta, is its only record. *)
LEMMA RankedReadable ==
    ASSUME NEW g \in SegType, NEW rank, Ranked(g, rank), ~Repeats(g)
    PROVE  Readable(g)
<1> DEFINE D == DOMAIN g.recs
           O == Objects(g)
<1> SUFFICES ASSUME NEW kept \in KeptRecords(g)
             PROVE  \E depth \in [O -> 0 .. MaxDeltaDepth] : \A o \in O :
                      \/ g.recs[kept[o]].base = NoBase
                      \/ g.recs[kept[o]].base \in O /\ depth[g.recs[kept[o]].base] < depth[o]
  BY Zenon DEF Readable
<1> DEFINE whole(o) == g.recs[kept[o]].base = NoBase
           depth == [o \in O |-> IF whole(o) THEN 0 ELSE rank[kept[o]]]
<1>1. /\ kept \in [O -> D]
      /\ \A o \in O : g.recs[kept[o]].obj = o
  BY Zenon DEF KeptRecords
<1>2. rank \in [D -> 0 .. MaxDeltaDepth]
  BY Zenon DEF Ranked
<1>3. 0 \in 0 .. MaxDeltaDepth
  BY LimitAssumption
<1>4. depth \in [O -> 0 .. MaxDeltaDepth]
  <2>1. \A o \in O : (IF whole(o) THEN 0 ELSE rank[kept[o]]) \in 0 .. MaxDeltaDepth
    BY <1>1, <1>2, <1>3, Zenon
  <2> QED
    BY <2>1, Zenon
<1>5. \A i \in D : \A j \in 1 .. (i - 1) : j \in D
  <2>1. g.recs \in Seq(RecType)
    BY DEF SegType
  <2> QED
    BY <2>1
<1>6. ASSUME NEW o \in O, ~whole(o)
      PROVE  g.recs[kept[o]].base \in O /\ depth[g.recs[kept[o]].base] < depth[o]
  <2> DEFINE i == kept[o]
             p == g.recs[i].base
  <2>1. i \in D
    BY <1>1, Zenon
  <2>2. PICK j \in 1 .. (i - 1) : g.recs[j].obj = p /\ rank[j] < rank[i]
    BY <1>6, <2>1, Zenon DEF Ranked
  <2>3. j \in D /\ p \in O
    BY <1>5, <2>1, <2>2, Zenon DEF Objects
  <2>4. depth[o] = rank[i] /\ rank[i] \in Nat /\ rank[j] \in Nat
    <3>1. \A n \in 0 .. MaxDeltaDepth : n \in Nat
      OBVIOUS
    <3> QED
      BY <1>2, <1>6, <2>1, <2>3, <3>1, Zenon
  <2>5. CASE whole(p)
    <3>1. depth[p] = 0
      BY <2>3, <2>5, Zenon
    <3>2. 0 < rank[i]
      BY <2>2, <2>4
    <3> QED
      BY <2>3, <2>4, <3>1, <3>2, Zenon
  <2>6. CASE ~whole(p)
    <3>1. kept[p] \in D /\ g.recs[kept[p]].obj = p
      BY <1>1, <2>3, Zenon
    <3>2. kept[p] = j
      BY <2>2, <2>3, <2>6, <3>1, Zenon DEF Repeats
    <3>3. depth[p] = rank[j]
      BY <2>3, <2>6, <3>2, Zenon
    <3> QED
      BY <2>2, <2>3, <2>4, <3>3, Zenon
  <2> QED
    BY <2>5, <2>6, Zenon
<1> HIDE DEF depth
<1> QED
  BY <1>4, <1>6, Zenon

(* For every pack: place keeps a client's delta only when its base is already in
   the same container and the chain there is short enough, although the walk
   meets bases and deltas in an order of its own and seals containers between
   them.  So no read follows a base into another container, and a container in
   which no delta's object comes again can be read on its own, whichever records
   the reader keeps. *)
THEOREM ContainersReadAlone == IndexPackSpec => []ContainersSelfContained
<1>1. IndexPackInit => Chains
  <2> SUFFICES ASSUME IndexPackInit PROVE Chains
    OBVIOUS
  <2>1. sealed = <<>> /\ frames = <<>> /\ ~seg.open
    BY NothingTypes, Zenon DEF IndexPackInit
  <2>2. DOMAIN <<>> = {}
    OBVIOUS
  <2> QED
    BY <2>1, <2>2, Zenon DEF Chains, Range
<1>2. Base /\ Base' /\ Chains /\ [IndexPackNext]_ipVars => Chains'
  BY ChainsNext
<1>3. Base /\ Chains => ContainersSelfContained
  <2> SUFFICES ASSUME Base, Chains PROVE ContainersSelfContained
    OBVIOUS
  <2> SUFFICES ASSUME NEW g \in Range(Built)
               PROVE  /\ \A i \in DOMAIN g.recs :
                            g.recs[i].base # NoBase => \E j \in 1 .. (i - 1) : g.recs[j].obj = g.recs[i].base
                      /\ ~Repeats(g) => Readable(g)
    BY Zenon DEF ContainersSelfContained
  <2>1. PICK depth : Ranked(g, depth)
    BY BuiltRange, Zenon DEF Base, Chains
  <2>2. g \in SegType
    <3>1. Built \in Seq(SegType)
      BY BuiltRange, Zenon DEF Base
    <3>2. \A k \in DOMAIN Built : Built[k] \in SegType
      BY <3>1
    <3> QED
      BY <3>2, Zenon DEF Range
  <2>3. ~Repeats(g) => Readable(g)
    BY <2>1, <2>2, RankedReadable, Zenon
  <2> QED
    BY <2>1, <2>3, Zenon DEF Ranked
<1> QED
  BY <1>1, <1>2, <1>3, BaseInvariant, PTL DEF IndexPackSpec
-----------------------------------------------------------------------------
(* The entries in D of the pack p are on record in the containers cs, one record
   each. *)
ObjAt(cs, w) == cs[w[1]].recs[w[2]].obj

Recorded(p, cs, D, at) ==
    /\ at \in [D -> Spots(cs)] /\ IsInjective(at)
    /\ \A w \in Spots(cs) : \E i \in D : at[i] = w
    /\ \A i \in D : ObjAt(cs, at[i]) = p[i].obj

(* The entries handed to the walks fs and not stored yet; no entry is handed
   out twice. *)
KidsOf(f) == Range(f.kids)
Pending(fs) == UNION {KidsOf(fs[k]) : k \in DOMAIN fs}

Apart(fs) ==
    /\ \A k \in DOMAIN fs : IsInjective(fs[k].kids)
    /\ \A k, m \in DOMAIN fs : k # m => KidsOf(fs[k]) \cap KidsOf(fs[m]) = {}

(* Which entries of p are stored (D) and which are waiting (W), when the roots
   before n and the REF-deltas in R have been taken; X are the entries p defines. *)
Sorted(p, X, D, W, n, R) ==
    \A j \in DOMAIN p :
        /\ p[j].typ = "whole" => (j \in D <=> j < n) /\ j \notin W
        /\ p[j].typ = "ref" => (j \in D \/ j \in W <=> j \in R)
        /\ p[j].typ = "ofs" => (j \in D \/ j \in W <=> p[j].base \in D)
        /\ ~(j \in D /\ j \in W)
        /\ j \in D \/ j \in W => j \in X

Stores ==
    /\ resolving \in {"walk", "done"} =>
          /\ Apart(frames)
          /\ \E D \in SUBSET DOMAIN pack :
                /\ Sorted(pack, Defined, D, Pending(frames), nextRoot, refsDone)
                /\ \E at : Recorded(pack, Built, D, at)
    /\ resolving = "done" => nextRoot > Len(pack) /\ {j \in DOMAIN pack : pack[j].typ = "ref"} \subseteq refsDone
    /\ resolving = "idle" => Built = <<>>
-----------------------------------------------------------------------------
(* Every entry is stored once.  First the entries: which are stored, and which
   wait. *)

(* What an entry makes a pack define. *)
LEMMA DefinedGrows ==
    /\ Defined \subseteq DOMAIN pack
    /\ \A j \in DOMAIN pack : pack[j].typ = "whole" => j \in Defined
    /\ \A c \in Defined : OfsSet(c) \subseteq Defined
    /\ \A c \in Defined : {j \in DOMAIN pack : pack[j].typ = "ref" /\ pack[j].base = pack[c].obj} \subseteq Defined
    /\ \A h \in InRepository : {j \in DOMAIN pack : pack[j].typ = "ref" /\ pack[j].base = h} \subseteq Defined
<1>1. ASSUME NEW S \in SUBSET DOMAIN pack, Closed(S), NEW j \in DOMAIN pack
      PROVE  /\ pack[j].typ = "whole" => j \in S
             /\ pack[j].typ = "ofs" /\ pack[j].base \in S => j \in S
             /\ pack[j].typ = "ref" /\ pack[j].base \in InRepository => j \in S
             /\ \A i \in S : pack[j].typ = "ref" /\ pack[i].obj = pack[j].base => j \in S
  BY <1>1, Zenon DEF Closed
<1>2. \A j : j \in Defined <=> j \in DOMAIN pack /\ \A S \in SUBSET DOMAIN pack : Closed(S) => j \in S
  BY Zenon DEF Defined
<1>3. ASSUME NEW j \in DOMAIN pack, pack[j].typ = "whole" PROVE j \in Defined
  BY <1>1, <1>2, <1>3, Zenon
<1>4. ASSUME NEW c \in Defined, NEW j \in OfsSet(c) PROVE j \in Defined
  <2>1. j \in DOMAIN pack /\ pack[j].typ = "ofs" /\ pack[j].base = c
    BY Zenon DEF OfsSet
  <2> QED
    BY <1>1, <1>2, <2>1, Zenon
<1>5. ASSUME NEW c \in Defined, NEW j \in DOMAIN pack, pack[j].typ = "ref", pack[j].base = pack[c].obj
      PROVE  j \in Defined
  BY <1>1, <1>2, <1>5, Zenon
<1>6. ASSUME NEW h \in InRepository, NEW j \in DOMAIN pack, pack[j].typ = "ref", pack[j].base = h
      PROVE  j \in Defined
  BY <1>1, <1>2, <1>6, Zenon
<1> QED
  BY <1>2, <1>3, <1>4, <1>5, <1>6, Zenon

NewKids(p, c, R) ==
    {j \in DOMAIN p : p[j].typ = "ofs" /\ p[j].base = c}
      \cup ({j \in DOMAIN p : p[j].typ = "ref" /\ p[j].base = p[c].obj} \ R)

(* Entry c of p can be stored next: it is a root, or it was waiting. *)
IsNext(p, X, W, n, m, R, S, c) ==
    /\ DOMAIN p \subseteq Nat /\ c \in DOMAIN p /\ n \in Nat /\ m \in Nat
    /\ \A j \in DOMAIN p : p[j].typ = "ofs" => p[j].base # j
    /\ p[c].typ \in {"whole", "ofs", "ref"} /\ c \in X /\ NewKids(p, c, R) \subseteq X
    /\ (c \in W /\ m = n) \/ (p[c].typ = "whole" /\ c = n /\ m = n + 1)
    /\ S = R \cup {j \in DOMAIN p : p[j].typ = "ref" /\ p[j].base = p[c].obj}

LEMMA SortedPlace ==
    ASSUME NEW p, NEW X, NEW D, NEW W, NEW n, NEW m, NEW R, NEW S, NEW c,
           Sorted(p, X, D, W, n, R), IsNext(p, X, W, n, m, R, S, c)
    PROVE  /\ c \notin D /\ NewKids(p, c, R) \cap (D \cup W \cup {c}) = {}
           /\ Sorted(p, X, D \cup {c}, (W \ {c}) \cup NewKids(p, c, R), m, S)
<1> DEFINE N == NewKids(p, c, R)
<1> USE DEF IsNext
<1>1. c \notin D
  <2>1. CASE c \in W
    BY <2>1, Zenon DEF Sorted
  <2>2. CASE p[c].typ = "whole" /\ c = n
    <3>1. ~(c < n)
      BY <2>2
    <3> QED
      BY <2>2, <3>1, Zenon DEF Sorted
  <2> QED
    BY <2>1, <2>2, Zenon
<1>2. \A j \in N : /\ j \in DOMAIN p /\ (p[j].typ = "ofs" \/ p[j].typ = "ref")
                   /\ p[j].typ = "ofs" => p[j].base = c
                   /\ p[j].typ = "ref" => j \notin R
  BY DEF NewKids
<1>3. ASSUME NEW j \in N PROVE j \notin D /\ j \notin W
  BY <1>1, <1>2, Zenon DEF Sorted
<1>4. c \notin N
  <2>1. CASE c \in W
    BY <1>3, <2>1, Zenon
  <2>2. CASE p[c].typ = "whole"
    BY <1>2, <2>2
  <2> QED
    BY <2>1, <2>2, Zenon
<1>5. N \cap (D \cup W \cup {c}) = {}
  BY <1>3, <1>4, Zenon
<1>6. c \in W => p[c].typ # "whole"
  BY Zenon DEF Sorted
<1>7. ASSUME NEW j \in DOMAIN p PROVE
        /\ p[j].typ = "whole" => (j \in D \cup {c} <=> j < m) /\ j \notin (W \ {c}) \cup N
        /\ p[j].typ = "ref" => (j \in D \cup {c} \/ j \in (W \ {c}) \cup N <=> j \in S)
        /\ p[j].typ = "ofs" => (j \in D \cup {c} \/ j \in (W \ {c}) \cup N <=> p[j].base \in D \cup {c})
        /\ ~(j \in D \cup {c} /\ j \in (W \ {c}) \cup N)
        /\ j \in D \cup {c} \/ j \in (W \ {c}) \cup N => j \in X
  <2>1. /\ p[j].typ = "whole" => (j \in D <=> j < n) /\ j \notin W
        /\ p[j].typ = "ref" => (j \in D \/ j \in W <=> j \in R)
        /\ p[j].typ = "ofs" => (j \in D \/ j \in W <=> p[j].base \in D)
        /\ ~(j \in D /\ j \in W)
        /\ j \in D \/ j \in W => j \in X
    BY Zenon DEF Sorted
  <2>2. ASSUME p[j].typ = "whole" PROVE (j \in D \cup {c} <=> j < m) /\ j \notin (W \ {c}) \cup N
    <3>1. j \notin N
      BY <1>2, <2>2
    <3>2. CASE c \in W /\ m = n
      BY <1>6, <2>1, <2>2, <3>1, <3>2, Zenon
    <3>3. CASE c = n /\ m = n + 1
      <4>1. j < m <=> (j < n \/ j = c)
        BY <3>3
      <4> QED
        BY <2>1, <2>2, <3>1, <4>1, Zenon
    <3> QED
      BY <3>2, <3>3, Zenon
  <2>3. ASSUME p[j].typ = "ref" PROVE j \in D \cup {c} \/ j \in (W \ {c}) \cup N <=> j \in S
    <3>1. j \in N <=> (p[j].base = p[c].obj /\ j \notin R)
      BY <2>3 DEF NewKids
    <3>2. j \in S <=> (j \in R \/ p[j].base = p[c].obj)
      BY <2>3, Zenon
    <3>3. j = c => j \in W
      BY <2>3
    <3> QED
      BY <2>1, <2>3, <3>1, <3>2, <3>3, Zenon
  <2>4. ASSUME p[j].typ = "ofs"
        PROVE  j \in D \cup {c} \/ j \in (W \ {c}) \cup N <=> p[j].base \in D \cup {c}
    <3>1. j \in N <=> p[j].base = c
      BY <2>4 DEF NewKids
    <3>2. j = c => j \in W
      BY <2>4
    <3> QED
      BY <2>1, <2>4, <3>1, <3>2, Zenon
  <2>5. ~(j \in D \cup {c} /\ j \in (W \ {c}) \cup N)
    BY <1>3, <1>4, <2>1, Zenon
  <2>6. j \in D \cup {c} \/ j \in (W \ {c}) \cup N => j \in X
    BY <2>1, Zenon
  <2> QED
    BY <2>2, <2>3, <2>4, <2>5, <2>6, Zenon
<1> HIDE DEF N
<1>8. Sorted(p, X, D \cup {c}, (W \ {c}) \cup N, m, S)
  BY <1>7, Zenon DEF Sorted
<1> QED
  BY <1>1, <1>5, <1>8, Zenon DEF N

(* A delta is passed over by the loop over the roots. *)
NoRoot(p, n) == DOMAIN p \subseteq Nat /\ n \in DOMAIN p /\ p[n].typ # "whole"

LEMMA SortedSkip ==
    ASSUME NEW p, NEW X, NEW D, NEW W, NEW n, NEW R, NoRoot(p, n), Sorted(p, X, D, W, n, R)
    PROVE  Sorted(p, X, D, W, n + 1, R)
<1> USE DEF NoRoot
<1>1. \A j \in DOMAIN p : p[j].typ = "whole" => (j < n <=> j < n + 1)
  <2> SUFFICES ASSUME NEW j \in DOMAIN p, p[j].typ = "whole" PROVE j < n <=> j < n + 1
    OBVIOUS
  <2>1. j # n /\ j \in Nat
    BY Zenon
  <2> QED
    BY <2>1
<1> DEFINE m == n + 1
<1>2. \A j \in DOMAIN p : p[j].typ = "whole" => (j < n <=> j < m)
  BY <1>1
<1> HIDE DEF m
<1>3. Sorted(p, X, D, W, m, R)
  BY <1>2, Zenon DEF Sorted
<1> QED
  BY <1>3 DEF m

(* The REF-deltas on a base of the repository. *)
RefsOn(p, h, R) == {j \in DOMAIN p : p[j].typ = "ref" /\ p[j].base = h} \ R

LEMMA SortedExternal ==
    ASSUME NEW p, NEW X, NEW D, NEW W, NEW n, NEW R, NEW h,
           Sorted(p, X, D, W, n, R), RefsOn(p, h, R) \in SUBSET X
    PROVE  Sorted(p, X, D, W \cup RefsOn(p, h, R), n, R \cup RefsOn(p, h, R))
<1> DEFINE K == RefsOn(p, h, R)
<1>1. \A j \in K : j \in DOMAIN p /\ p[j].typ = "ref" /\ j \notin R
  BY Zenon DEF RefsOn
<1>2. K \cap (D \cup W) = {}
  BY <1>1, Zenon DEF Sorted
<1>3. \A j \in K : p[j].typ # "whole" /\ p[j].typ # "ofs"
  BY <1>1
<1>4. Sorted(p, X, D, W \cup K, n, R \cup K)
  <2>1. \A j \in K : j \in X
    BY Zenon
  <2> HIDE DEF K
  <2> QED
    BY <1>2, <1>3, <2>1, Zenon DEF Sorted
<1> QED
  BY <1>4, Zenon

(* The records. *)

LEMMA SpotIn ==
    ASSUME NEW cs, NEW w
    PROVE  w \in Spots(cs) <=> \E g \in DOMAIN cs : \E i \in DOMAIN cs[g].recs : w = <<g, i>>
BY DEF Spots

LEMMA SpotPair ==
    ASSUME NEW cs, NEW g, NEW i
    PROVE  /\ <<g, i>> \in Spots(cs) <=> g \in DOMAIN cs /\ i \in DOMAIN cs[g].recs
           /\ ObjAt(cs, <<g, i>>) = cs[g].recs[i].obj
BY DEF Spots, ObjAt

(* The list bs has the records of cs and one more, for object h. *)
OneMore(cs, bs, h, v) ==
    /\ v \notin Spots(cs) /\ Spots(bs) = Spots(cs) \cup {v}
    /\ ObjAt(bs, v) = h
    /\ \A w \in Spots(cs) : ObjAt(bs, w) = ObjAt(cs, w)

(* A record more in the last container. *)
LEMMA SpotGrows ==
    ASSUME NEW cs, NEW g \in SegType, NEW r \in SegType, NEW rec \in RecType, cs \in Seq(SegType),
           r.recs = Append(g.recs, rec)
    PROVE  \E v : OneMore(Append(cs, g), Append(cs, r), rec.obj, v)
<1> DEFINE A == Append(cs, g)
           B == Append(cs, r)
           n == Len(cs) + 1
           q == g.recs
           u == r.recs
           k == Len(g.recs) + 1
           v == <<n, k>>
<1>1. /\ DOMAIN A = DOMAIN B /\ n \in DOMAIN A /\ A[n] = g /\ B[n] = r
      /\ \A i \in DOMAIN A : i # n => A[i] = B[i]
  OBVIOUS
<1>2. q \in Seq(RecType)
  BY DEF SegType
<1>3. /\ u[k] = rec /\ k \notin DOMAIN q /\ DOMAIN u = DOMAIN q \cup {k}
      /\ \A i \in DOMAIN q : u[i] = q[i]
  <2> HIDE DEF q
  <2>1. u = Append(q, rec) /\ k = Len(q) + 1
    BY DEF q
  <2> HIDE DEF u, k
  <2> QED
    BY <1>2, <2>1
<1>4. A[n].recs = q /\ B[n].recs = u
  BY <1>1, Zenon
<1> HIDE DEF A, B, n, q, u, k
<1>5. v \notin Spots(A) /\ v \in Spots(B) /\ ObjAt(B, v) = rec.obj
  BY <1>1, <1>3, <1>4, SpotPair
<1>6. ASSUME NEW w \in Spots(A) PROVE w \in Spots(B) /\ ObjAt(B, w) = ObjAt(A, w)
  <2>1. PICK i \in DOMAIN A : \E j \in DOMAIN A[i].recs : w = <<i, j>>
    BY SpotIn
  <2>2. PICK j \in DOMAIN A[i].recs : w = <<i, j>>
    BY <2>1, Zenon
  <2>3. i \in DOMAIN B /\ j \in DOMAIN B[i].recs /\ B[i].recs[j] = A[i].recs[j]
    BY <1>1, <1>3, <1>4, Zenon
  <2> QED
    BY <2>2, <2>3, SpotPair
<1>7. ASSUME NEW w \in Spots(B), w # v PROVE w \in Spots(A)
  <2>1. PICK i \in DOMAIN B : \E j \in DOMAIN B[i].recs : w = <<i, j>>
    BY SpotIn
  <2>2. PICK j \in DOMAIN B[i].recs : w = <<i, j>>
    BY <2>1, Zenon
  <2>3. ~(i = n /\ j = k)
    BY <1>7, <2>2, Zenon
  <2>4. i \in DOMAIN A /\ j \in DOMAIN A[i].recs
    <3>1. CASE i = n
      BY <1>1, <1>3, <1>4, <2>3, <3>1, Zenon
    <3>2. CASE i # n
      BY <1>1, <3>2, Zenon
    <3> QED
      BY <3>1, <3>2, Zenon
  <2> QED
    BY <2>2, <2>4, SpotPair
<1> HIDE DEF v
<1>8. OneMore(A, B, rec.obj, v)
  BY <1>5, <1>6, <1>7, Zenon DEF OneMore
<1> QED
  BY <1>8, Zenon DEF A, B

(* A container more, with one record. *)
LEMMA SpotOpens ==
    ASSUME NEW cs, NEW r \in SegType, NEW rec \in RecType, cs \in Seq(SegType), r.recs = <<rec>>
    PROVE  \E v : OneMore(cs, Append(cs, r), rec.obj, v)
<1> DEFINE B == Append(cs, r)
           n == Len(cs) + 1
           u == r.recs
           v == <<n, 1>>
<1>1. /\ DOMAIN B = DOMAIN cs \cup {n} /\ n \notin DOMAIN cs /\ B[n] = r
      /\ \A i \in DOMAIN cs : B[i] = cs[i]
  OBVIOUS
<1>2. DOMAIN u = {1} /\ u[1] = rec
  OBVIOUS
<1>3. B[n].recs = u
  BY <1>1, Zenon
<1> HIDE DEF B, n, u
<1>4. v \notin Spots(cs) /\ v \in Spots(B) /\ ObjAt(B, v) = rec.obj
  BY <1>1, <1>2, <1>3, SpotPair
<1>5. ASSUME NEW w \in Spots(cs) PROVE w \in Spots(B) /\ ObjAt(B, w) = ObjAt(cs, w)
  <2>1. PICK i \in DOMAIN cs : \E j \in DOMAIN cs[i].recs : w = <<i, j>>
    BY SpotIn
  <2>2. PICK j \in DOMAIN cs[i].recs : w = <<i, j>>
    BY <2>1, Zenon
  <2>3. i \in DOMAIN B /\ j \in DOMAIN B[i].recs /\ B[i].recs[j] = cs[i].recs[j]
    BY <1>1, Zenon
  <2> QED
    BY <2>2, <2>3, SpotPair
<1>6. ASSUME NEW w \in Spots(B), w # v PROVE w \in Spots(cs)
  <2>1. PICK i \in DOMAIN B : \E j \in DOMAIN B[i].recs : w = <<i, j>>
    BY SpotIn
  <2>2. PICK j \in DOMAIN B[i].recs : w = <<i, j>>
    BY <2>1, Zenon
  <2>3. i # n
    <3> SUFFICES ASSUME i = n PROVE FALSE
      OBVIOUS
    <3>1. j = 1
      BY <1>2, <1>3, Zenon
    <3> QED
      BY <1>6, <2>2, <3>1, Zenon
  <2>4. i \in DOMAIN cs /\ B[i] = cs[i]
    BY <1>1, <2>3
  <2>5. j \in DOMAIN cs[i].recs
    BY <2>4, Zenon
  <2> QED
    BY <2>2, <2>4, <2>5, SpotPair
<1> HIDE DEF v
<1>7. OneMore(cs, B, rec.obj, v)
  BY <1>4, <1>5, <1>6, Zenon DEF OneMore
<1> QED
  BY <1>7, Zenon DEF B

(* place adds one record. *)
LEMMA PlaceRecords ==
    ASSUME Base, NEW e \in PackEntry, NEW base \in Known \cup {NoBase}, NEW asDelta \in BOOLEAN,
           asDelta => e.size < RawSize(e), Place(e, base, asDelta)
    PROVE  \E v : OneMore(Built, Built', e.obj, v)
<1>1. seg' \in SegType /\ seg'.open
  BY PlaceFacts, Zenon DEF Base
<1>0. PICK rec \in RecType : Wrote(rec, e, base, asDelta)
  BY PlaceFacts, Zenon DEF Base
<1>2. rec.obj = e.obj /\ (Grows(rec, RawSize(e)) \/ Opens(rec))
  BY <1>0, Zenon DEF Wrote
<1>3. Built' = Append(sealed', seg')
  BY <1>1, Zenon DEF Built
<1>4. Built \in Seq(SegType) /\ sealed \in Seq(SegType) /\ seg \in SegType
  BY BuiltRange, Zenon DEF Base, Types
<1>5. CASE Grows(rec, RawSize(e))
  <2>1. seg.open /\ sealed' = sealed /\ seg'.recs = Append(seg.recs, rec)
    BY <1>5, Zenon DEF Grows
  <2>2. Built = Append(sealed, seg) /\ Built' = Append(sealed, seg')
    BY <1>3, <2>1, Zenon DEF Built
  <2>3. \E v : OneMore(Append(sealed, seg), Append(sealed, seg'), rec.obj, v)
    BY <1>1, <1>4, <2>1, SpotGrows, Zenon
  <2> QED
    BY <1>2, <2>2, <2>3, Zenon
<1>6. CASE Opens(rec)
  <2>1. sealed' = Built /\ seg'.recs = <<rec>>
    BY <1>6, Zenon DEF Opens
  <2> DEFINE q == seg'
             cs == Built
  <2>2. q \in SegType /\ q.recs = <<rec>> /\ cs \in Seq(SegType) /\ Built' = Append(cs, q)
    BY <1>1, <1>3, <1>4, <2>1, Zenon
  <2> HIDE DEF q, cs
  <2>3. \E v : OneMore(cs, Append(cs, q), rec.obj, v)
    BY <2>2, SpotOpens
  <2> QED
    BY <1>2, <2>2, <2>3, Zenon DEF cs
<1> QED
  BY <1>2, <1>5, <1>6, Zenon

(* The entry placed is on record with the others. *)
LEMMA RecordedPlace ==
    ASSUME NEW p, NEW cs, NEW bs, NEW D, NEW at, NEW c, NEW v, c \notin D,
           Recorded(p, cs, D, at), OneMore(cs, bs, p[c].obj, v)
    PROVE  \E more : Recorded(p, bs, D \cup {c}, more)
<1> DEFINE b == [i \in D \cup {c} |-> IF i = c THEN v ELSE at[i]]
<1>1. /\ at \in [D -> Spots(cs)] /\ \A i, j \in D : at[i] = at[j] => i = j
      /\ \A w \in Spots(cs) : \E i \in D : at[i] = w
      /\ \A i \in D : ObjAt(cs, at[i]) = p[i].obj
  BY Zenon DEF Recorded, IsInjective
<1>2. /\ DOMAIN b = D \cup {c} /\ b[c] = v /\ \A i \in D : b[i] = at[i] /\ at[i] \in Spots(cs)
  BY <1>1, Zenon
<1>3. /\ v \notin Spots(cs) /\ Spots(bs) = Spots(cs) \cup {v} /\ ObjAt(bs, v) = p[c].obj
      /\ \A w \in Spots(cs) : ObjAt(bs, w) = ObjAt(cs, w)
  BY Zenon DEF OneMore
<1>4. b \in [D \cup {c} -> Spots(bs)]
  BY <1>1, <1>3, Zenon
<1> HIDE DEF b
<1>5. IsInjective(b)
  <2>1. \A i, j \in D \cup {c} : b[i] = b[j] => i = j
    BY <1>1, <1>2, <1>3, Zenon
  <2> QED
    BY <1>2, <2>1, Zenon DEF IsInjective
<1>6. \A w \in Spots(bs) : \E i \in D \cup {c} : b[i] = w
  BY <1>1, <1>2, <1>3, Zenon
<1>7. \A i \in D \cup {c} : ObjAt(bs, b[i]) = p[i].obj
  BY <1>1, <1>2, <1>3, Zenon
<1> QED
  BY <1>4, <1>5, <1>6, <1>7, Zenon DEF Recorded

(* The walks. *)

LEMMA PendingNone == Apart(<<>>) /\ Pending(<<>>) = {}
<1>1. DOMAIN <<>> = {}
  OBVIOUS
<1> QED
  BY <1>1, Zenon DEF Apart, Pending

LEMMA PendingOne ==
    ASSUME NEW f, NEW N, Lists(f.kids, N)
    PROVE  Apart(<<f>>) /\ Pending(<<f>>) = N
<1>1. DOMAIN <<f>> = {1} /\ <<f>>[1] = f
  OBVIOUS
<1>2. KidsOf(f) = N /\ IsInjective(f.kids)
  BY Zenon DEF Lists, KidsOf
<1>3. Apart(<<f>>)
  BY <1>1, <1>2, Zenon DEF Apart
<1>4. Pending(<<f>>) = N
  BY <1>1, <1>2, Zenon DEF Pending
<1> QED
  BY <1>3, <1>4

(* A walk with no kids left returns. *)
LEMMA PendingReturn ==
    ASSUME frames \in Seq(FrameType), frames # <<>>, Top.kids = <<>>, Apart(frames)
    PROVE  Apart(Callers) /\ Pending(Callers) = Pending(frames)
<1> DEFINE n == Len(frames)
<1>1. /\ \A k \in DOMAIN Callers : k \in DOMAIN frames /\ Callers[k] = frames[k]
      /\ \A k \in DOMAIN frames : k \in DOMAIN Callers \/ k = n
      /\ Top = frames[n]
  BY StackParts
<1> HIDE DEF n
<1>2. KidsOf(frames[n]) = {}
  <2>1. DOMAIN <<>> = {}
    OBVIOUS
  <2> QED
    BY <1>1, <2>1, Zenon DEF KidsOf, Range
<1>3. Apart(Callers)
  BY <1>1, Zenon DEF Apart
<1>4. Pending(Callers) = Pending(frames)
  <2>1. ASSUME NEW j \in Pending(frames) PROVE j \in Pending(Callers)
    <3>1. PICK k \in DOMAIN frames : j \in KidsOf(frames[k])
      BY <2>1, Zenon DEF Pending
    <3>2. k \in DOMAIN Callers
      BY <1>1, <1>2, <3>1, Zenon
    <3> QED
      BY <1>1, <3>1, <3>2, Zenon DEF Pending
  <2>2. ASSUME NEW j \in Pending(Callers) PROVE j \in Pending(frames)
    BY <1>1, <2>2, Zenon DEF Pending
  <2> QED
    BY <2>1, <2>2, Zenon
<1> QED
  BY <1>3, <1>4

(* A child is done: what is built on it waits instead. *)
LEMMA PendingChild ==
    ASSUME frames \in Seq(FrameType), frames # <<>>, Top.kids # <<>>, Apart(frames),
           NEW t \in FrameType, NEW x \in FrameType, NEW N, Lists(x.kids, N), N \cap Pending(frames) = {},
           t.kids = Tail(Top.kids),
           frames' = IF x.kids = <<>> THEN Append(Callers, t) ELSE Append(Append(Callers, t), x)
    PROVE  /\ Head(Top.kids) \in Pending(frames)
           /\ Apart(frames')
           /\ Pending(frames') = (Pending(frames) \ {Head(Top.kids)}) \cup N
<1> DEFINE n == Len(frames)
           m == n + 1
           c == Head(Top.kids)
           G == frames'
<1>1. /\ n \in DOMAIN frames /\ n \in DOMAIN G /\ G[n] = t
      /\ \A k \in DOMAIN frames \ {n} : k \in DOMAIN G /\ G[k] = frames[k]
      /\ x.kids = <<>> => DOMAIN G = DOMAIN frames
      /\ x.kids # <<>> => DOMAIN G = DOMAIN frames \cup {m} /\ m \notin DOMAIN frames /\ G[m] = x
  BY ChildStack, Zenon
<1>2. Top = frames[n] /\ Top \in FrameType
  BY StackParts, Zenon
<1>3. Lists(Top.kids, KidsOf(Top))
  <2>1. Top.kids \in Seq(Nat)
    BY <1>2, FrameFields, Zenon
  <2>2. IsInjective(Top.kids)
    BY <1>1, <1>2, Zenon DEF Apart
  <2> QED
    BY <2>1, <2>2, Zenon DEF Lists, KidsOf
<1>4. c \in KidsOf(Top) /\ Lists(Tail(Top.kids), KidsOf(Top) \ {c})
  BY <1>3, ListsTail, Zenon
<1>5. KidsOf(t) = KidsOf(Top) \ {c} /\ IsInjective(t.kids)
  <2>1. Lists(t.kids, KidsOf(Top) \ {c})
    BY <1>4, Zenon
  <2> HIDE DEF c
  <2> QED
    BY <2>1, Zenon DEF Lists, KidsOf
<1>6. KidsOf(x) = N /\ IsInjective(x.kids)
  BY Zenon DEF Lists, KidsOf
<1>7. x.kids = <<>> => N = {}
  <2>1. DOMAIN <<>> = {}
    OBVIOUS
  <2> QED
    BY <1>6, <2>1, Zenon DEF KidsOf, Range
<1>8. \A k, l \in DOMAIN frames : k # l => KidsOf(frames[k]) \cap KidsOf(frames[l]) = {}
  BY Zenon DEF Apart
<1> HIDE DEF n, m, c, G
<1>9. \A k \in DOMAIN G : /\ k \in DOMAIN frames \/ (x.kids # <<>> /\ k = m)
                          /\ k \in DOMAIN frames /\ k # n => G[k] = frames[k]
  <2>1. CASE x.kids = <<>>
    BY <1>1, <2>1, Zenon
  <2>2. CASE x.kids # <<>>
    <3>1. DOMAIN G = DOMAIN frames \cup {m}
      BY <1>1, <2>2, Zenon
    <3> QED
      BY <1>1, <2>2, <3>1, Zenon
  <2> QED
    BY <2>1, <2>2, Zenon
<1>10. ASSUME NEW k \in DOMAIN G, k \in DOMAIN frames
       PROVE  KidsOf(G[k]) = KidsOf(frames[k]) \ {c} /\ IsInjective(G[k].kids)
  <2>1. CASE k = n
    BY <1>1, <1>2, <1>5, <2>1, Zenon
  <2>2. CASE k # n
    <3>1. G[k] = frames[k]
      BY <1>9, <1>10, <2>2, Zenon
    <3>2. c \notin KidsOf(frames[k])
      BY <1>1, <1>2, <1>4, <1>8, <1>10, <2>2, Zenon
    <3> QED
      BY <1>10, <3>1, <3>2, Zenon DEF Apart
  <2> QED
    BY <2>1, <2>2, Zenon
<1>11. x.kids # <<>> => G[m] = x /\ m \in DOMAIN G /\ m \notin DOMAIN frames
  <2>1. x.kids # <<>> => DOMAIN G = DOMAIN frames \cup {m}
    BY <1>1, Zenon
  <2> QED
    BY <1>1, <2>1, Zenon
<1>12. \A k \in DOMAIN frames : KidsOf(frames[k]) \subseteq Pending(frames)
  BY Zenon DEF Pending
<1>13. Apart(G)
  <2>1. ASSUME NEW k \in DOMAIN G PROVE IsInjective(G[k].kids)
    BY <1>6, <1>9, <1>10, <1>11, <2>1, Zenon
  <2>2. ASSUME NEW k \in DOMAIN G, NEW l \in DOMAIN G, k # l PROVE KidsOf(G[k]) \cap KidsOf(G[l]) = {}
    <3>1. CASE k \in DOMAIN frames /\ l \in DOMAIN frames
      BY <1>8, <1>10, <2>2, <3>1, Zenon
    <3>2. CASE k \in DOMAIN frames /\ l = m /\ x.kids # <<>>
      BY <1>6, <1>10, <1>11, <1>12, <2>2, <3>2, Zenon
    <3>3. CASE l \in DOMAIN frames /\ k = m /\ x.kids # <<>>
      BY <1>6, <1>10, <1>11, <1>12, <2>2, <3>3, Zenon
    <3> QED
      BY <1>9, <2>2, <3>1, <3>2, <3>3, Zenon
  <2> QED
    BY <2>1, <2>2, Zenon DEF Apart
<1>14. Pending(G) = (Pending(frames) \ {c}) \cup N
  <2>0. \A k \in DOMAIN frames : k \in DOMAIN G
    BY <1>1, Zenon
  <2>1. ASSUME NEW j \in Pending(G) PROVE j \in (Pending(frames) \ {c}) \cup N
    <3>1. PICK k \in DOMAIN G : j \in KidsOf(G[k])
      BY <2>1, Zenon DEF Pending
    <3>2. CASE k \in DOMAIN frames
      BY <1>10, <1>12, <3>1, <3>2, Zenon
    <3>3. CASE x.kids # <<>> /\ k = m
      BY <1>6, <1>11, <3>1, <3>3, Zenon
    <3> QED
      BY <1>9, <3>2, <3>3, Zenon
  <2>2. ASSUME NEW j \in Pending(frames), j # c PROVE j \in Pending(G)
    <3>1. PICK k \in DOMAIN frames : j \in KidsOf(frames[k])
      BY <2>2, Zenon DEF Pending
    <3>2. k \in DOMAIN G /\ j \in KidsOf(G[k])
      BY <1>10, <2>0, <2>2, <3>1, Zenon
    <3> QED
      BY <3>2, Zenon DEF Pending
  <2>3. ASSUME NEW j \in N PROVE j \in Pending(G)
    <3>1. x.kids # <<>>
      BY <1>7, <2>3, Zenon
    <3>2. m \in DOMAIN G /\ j \in KidsOf(G[m])
      BY <1>6, <1>11, <3>1, Zenon
    <3> QED
      BY <3>2, Zenon DEF Pending
  <2> QED
    BY <2>1, <2>2, <2>3, Zenon
<1>15. c \in Pending(frames)
  BY <1>1, <1>2, <1>4, <1>12, Zenon
<1> QED
  BY <1>13, <1>14, <1>15, Zenon DEF G, c

(* The steps. *)

Kids(c) == OfsSet(c) \cup RefKids(pack[c].obj)

LEMMA PlaceSorted ==
    ASSUME Base, resolving = "walk", NEW c \in DOMAIN pack, NEW D, NEW m \in Nat,
           Sorted(pack, Defined, D, Pending(frames), nextRoot, refsDone),
           (c \in Pending(frames) /\ m = nextRoot) \/ (pack[c].typ = "whole" /\ c = nextRoot /\ m = nextRoot + 1)
    PROVE  /\ c \notin D /\ Kids(c) \cap Pending(frames) = {}
           /\ Sorted(pack, Defined, D \cup {c}, (Pending(frames) \ {c}) \cup Kids(c), m,
                     refsDone \cup RefKids(pack[c].obj))
<1> DEFINE W == Pending(frames)
           S == refsDone \cup RefKids(pack[c].obj)
           X == Defined
<1>1. DOMAIN pack \subseteq Nat /\ pack[c].typ \in {"whole", "ofs", "ref"}
  <2>1. Len(pack) \in Nat /\ DOMAIN pack = 1 .. Len(pack) /\ pack[c].typ \in {"whole", "ofs", "ref"}
    BY PackFacts, Zenon DEF Base, Types
  <2> QED
    BY <2>1
<1>2. \A j \in DOMAIN pack : pack[j].typ = "ofs" => pack[j].base # j
  <2> SUFFICES ASSUME NEW j \in DOMAIN pack, pack[j].typ = "ofs" PROVE pack[j].base # j
    BY Zenon
  <2>1. pack[j].base \in 1 .. (j - 1)
    BY Zenon DEF Base, Phase, ScanOk, HeaderOk
  <2>2. j \in Nat
    BY <1>1, Zenon
  <2> QED
    BY <2>1, <2>2
<1>3. c \in X
  BY DefinedGrows, Zenon DEF Sorted
<1>4. Kids(c) \subseteq X
  <2>1. OfsSet(c) \subseteq X
    BY <1>3, DefinedGrows, Zenon
  <2>2. {j \in DOMAIN pack : pack[j].typ = "ref" /\ pack[j].base = pack[c].obj} \subseteq X
    BY <1>3, DefinedGrows, Zenon
  <2> QED
    BY <2>1, <2>2, Zenon DEF Kids, RefKids
<1>5. Kids(c) = NewKids(pack, c, refsDone)
  BY Zenon DEF Kids, NewKids, RefKids, OfsSet
<1>6. S = refsDone \cup {j \in DOMAIN pack : pack[j].typ = "ref" /\ pack[j].base = pack[c].obj}
  BY DEF RefKids
<1>7. nextRoot \in Nat
  BY DEF Base, Types
<1>8. Sorted(pack, X, D, W, nextRoot, refsDone)
  OBVIOUS
<1>9. (c \in W /\ m = nextRoot) \/ (pack[c].typ = "whole" /\ c = nextRoot /\ m = nextRoot + 1)
  OBVIOUS
<1> HIDE DEF W, S, X
<1>10. /\ c \notin D /\ NewKids(pack, c, refsDone) \cap (D \cup W \cup {c}) = {}
       /\ Sorted(pack, X, D \cup {c}, (W \ {c}) \cup NewKids(pack, c, refsDone), m, S)
  <2> DEFINE p == pack
             n == nextRoot
             R == refsDone
  <2>1. Sorted(p, X, D, W, n, R) /\ IsNext(p, X, W, n, m, R, S, c)
    BY <1>1, <1>2, <1>3, <1>4, <1>5, <1>6, <1>7, <1>8, <1>9, Zenon DEF IsNext
  <2> HIDE DEF p, n, R
  <2>2. /\ c \notin D /\ NewKids(p, c, R) \cap (D \cup W \cup {c}) = {}
        /\ Sorted(p, X, D \cup {c}, (W \ {c}) \cup NewKids(p, c, R), m, S)
    BY <2>1, SortedPlace, Zenon
  <2> QED
    BY <2>2, Zenon DEF p, R
<1>11. Kids(c) \cap W = {}
  BY <1>5, <1>10, Zenon
<1> QED
  BY <1>5, <1>10, <1>11, Zenon DEF W, S, X

LEMMA SamePack ==
    ASSUME pack' = pack PROVE Defined' = Defined
<1>1. \A S : Closed(S)' <=> Closed(S)
  BY Zenon DEF Closed
<1> QED
  BY <1>1, Zenon DEF Defined

(* A step that places entry c. *)
LEMMA StoresPlace ==
    ASSUME resolving = "walk", UNCHANGED <<pack, resolving>>, NEW c \in DOMAIN pack,
           NEW D \in SUBSET DOMAIN pack, NEW at, c \notin D, Recorded(pack, Built, D, at),
           NEW v, OneMore(Built, Built', pack[c].obj, v), Apart(frames'),
           Sorted(pack, Defined, D \cup {c}, Pending(frames'), nextRoot', refsDone')
    PROVE  Stores'
<1>1. Defined' = Defined
  BY SamePack, Zenon
<1>2. PICK more : Recorded(pack, Built', D \cup {c}, more)
  BY RecordedPlace, Zenon
<1>3. D \cup {c} \in SUBSET DOMAIN pack
  BY Zenon
<1>4. resolving' # "done" /\ resolving' # "idle"
  OBVIOUS
<1> DEFINE E == D \cup {c}
<1>5. /\ E \in SUBSET DOMAIN pack' /\ Sorted(pack', Defined', E, Pending(frames'), nextRoot', refsDone')
      /\ Recorded(pack', Built', E, more)
  BY <1>1, <1>2, <1>3, Zenon
<1> HIDE DEF E
<1> QED
  BY <1>4, <1>5, Zenon DEF Stores

LEMMA StoresRoot ==
    ASSUME Base, Stores, Root
    PROVE  Stores'
<1>1. /\ resolving = "walk" /\ frames = <<>> /\ nextRoot' = nextRoot + 1
      /\ UNCHANGED <<pack, resolving>>
  BY Zenon DEF Root
<1>2. nextRoot \in DOMAIN pack /\ nextRoot \in Nat /\ nextRoot' \in Nat
  <2>1. nextRoot \in Nat
    BY DEF Base, Types
  <2> QED
    BY <1>1, <2>1, RootPlaces
<1>3. PICK D \in SUBSET DOMAIN pack :
         /\ Sorted(pack, Defined, D, Pending(frames), nextRoot, refsDone)
         /\ \E at : Recorded(pack, Built, D, at)
  BY <1>1, Zenon DEF Stores
<1>4. PICK at : Recorded(pack, Built, D, at)
  BY <1>3, Zenon
<1>5. CASE pack[nextRoot].typ # "whole"
  <2>1. UNCHANGED <<refsDone, frames, seg, sealed>>
    BY <1>5, Zenon DEF Root
  <2>2. Defined' = Defined /\ Built' = Built
    BY <1>1, <2>1, SamePack, Zenon DEF Built
  <2>3. Len(pack) \in Nat /\ DOMAIN pack = 1 .. Len(pack)
    BY PackFacts, Zenon DEF Base, Types
  <2>4. DOMAIN pack \subseteq Nat
    BY <2>3
  <2>5. Sorted(pack, Defined, D, Pending(frames), nextRoot + 1, refsDone)
    <3>1. NoRoot(pack, nextRoot)
      BY <1>2, <1>5, <2>4, Zenon DEF NoRoot
    <3> QED
      BY <1>3, <3>1, SortedSkip, Zenon
  <2>6. resolving' # "done" /\ resolving' # "idle" /\ resolving' = "walk"
    BY <1>1
  <2>7. Apart(frames')
    BY <1>1, <2>1, PendingNone, Zenon
  <2>8. /\ D \in SUBSET DOMAIN pack' /\ Sorted(pack', Defined', D, Pending(frames'), nextRoot', refsDone')
        /\ Recorded(pack', Built', D, at)
    BY <1>1, <1>4, <2>1, <2>2, <2>5, Zenon
  <2> QED
    BY <2>6, <2>7, <2>8, Zenon DEF Stores
<1>6. CASE pack[nextRoot].typ = "whole"
  <2> DEFINE c == nextRoot
             e == pack[c]
  <2>1. PICK refs \in Orders(RefKids(e.obj)) :
          LET kids == OfsKids(c) \o refs
          IN  /\ refsDone' = refsDone \cup Range(refs) /\ Place(e, NoBase, FALSE)
              /\ IF kids = <<>> THEN UNCHANGED frames
                 ELSE \E b, at2 : frames' = <<Frame(kids, e.obj, b, at2, 0, 1)>>
    BY <1>6, Zenon DEF Root
  <2> DEFINE kids == OfsKids(c) \o refs
  <2>2. Lists(kids, Kids(c)) /\ Range(refs) = RefKids(e.obj)
    BY KidsIn, Zenon DEF Base, Kids
  <2>3. \E v : OneMore(Built, Built', e.obj, v)
    <3>1. NoBase \in Known \cup {NoBase} /\ FALSE \in BOOLEAN
      OBVIOUS
    <3>2. e \in PackEntry
      BY <1>2, PackFacts, Zenon DEF Base, Types
    <3> QED
      BY <2>1, <3>1, <3>2, PlaceRecords, Zenon
  <2>4. Pending(frames) = {} /\ (Pending(frames) \ {c}) \cup Kids(c) = Kids(c)
    BY <1>1, PendingNone, Zenon
  <2>5. /\ c \notin D
        /\ Sorted(pack, Defined, D \cup {c}, (Pending(frames) \ {c}) \cup Kids(c), nextRoot', refsDone \cup RefKids(e.obj))
    BY <1>1, <1>2, <1>3, <1>6, PlaceSorted, Zenon
  <2>6. Apart(frames') /\ Pending(frames') = Kids(c)
    <3>1. CASE kids = <<>>
      <4>1. frames' = <<>>
        BY <1>1, <2>1, <3>1, Zenon
      <4>2. Kids(c) = {}
        <5>1. DOMAIN <<>> = {}
          OBVIOUS
        <5> HIDE DEF kids, c
        <5> QED
          BY <2>2, <3>1, <5>1, Zenon DEF Lists, Range
      <4> QED
        BY <4>1, <4>2, PendingNone, Zenon
    <3>2. CASE kids # <<>>
      <4>1. PICK b, at2 : frames' = <<Frame(kids, e.obj, b, at2, 0, 1)>>
        BY <2>1, <3>2, Zenon
      <4> DEFINE f == Frame(kids, e.obj, b, at2, 0, 1)
      <4> HIDE DEF kids, c, e
      <4>2. f.kids = kids
        BY DEF Frame
      <4>3. frames' = <<f>>
        BY <4>1
      <4> HIDE DEF f
      <4>4. Lists(f.kids, Kids(c))
        BY <2>2, <4>2, Zenon
      <4> QED
        BY <4>3, <4>4, PendingOne, Zenon
    <3> QED
      BY <3>1, <3>2, Zenon
  <2>7. Sorted(pack, Defined, D \cup {c}, Pending(frames'), nextRoot', refsDone')
    BY <2>1, <2>2, <2>4, <2>5, <2>6, Zenon
  <2> HIDE DEF kids
  <2> QED
    BY <1>1, <1>2, <1>4, <2>3, <2>5, <2>6, <2>7, StoresPlace, Zenon
<1> QED
  BY <1>5, <1>6, Zenon

LEMMA StoresChild ==
    ASSUME Base, Stores, PlaceChild
    PROVE  Stores'
<1>1. resolving = "walk" /\ frames # <<>> /\ Top.kids # <<>> /\ UNCHANGED <<pack, resolving, nextRoot>>
  BY ChildShape, Zenon DEF Base
<1>2. PICK refs \in Orders(RefKids(Child.obj)), t \in FrameType, x \in FrameType : ChildStep(refs, t, x)
  BY ChildShape, Zenon DEF Base
<1> DEFINE c == Head(Top.kids)
           asDelta == KeepsDelta(pack[c], Top.serial, Top.chain)
<1>3. c \in DOMAIN pack /\ pack[c] \in PackEntry /\ Child = pack[c]
  BY <1>1, ChildIn, Zenon DEF Base, Child
<1>4. /\ Place(pack[c], Top.base, asDelta)
      /\ refsDone' = refsDone \cup Range(refs) /\ t.kids = Tail(Top.kids) /\ x.kids = OfsKids(c) \o refs
      /\ frames' = IF x.kids = <<>> THEN Append(Callers, t) ELSE Append(Append(Callers, t), x)
  BY <1>2, Zenon DEF ChildStep
<1>5. PICK D \in SUBSET DOMAIN pack :
         /\ Apart(frames)
         /\ Sorted(pack, Defined, D, Pending(frames), nextRoot, refsDone)
         /\ \E at : Recorded(pack, Built, D, at)
  BY <1>1, Zenon DEF Stores
<1>6. PICK at : Recorded(pack, Built, D, at)
  BY <1>5, Zenon
<1>7. frames \in Seq(FrameType) /\ nextRoot \in Nat
  BY DEF Base, Types
<1>8. Lists(x.kids, Kids(c)) /\ Range(refs) = RefKids(pack[c].obj)
  <2> DEFINE o == pack[c].obj
  <2>1. refs \in Orders(RefKids(o)) /\ Types /\ Kids(c) = OfsSet(c) \cup RefKids(o)
    BY <1>3, Zenon DEF Base, Kids
  <2> HIDE DEF o, c
  <2>2. Lists(OfsKids(c) \o refs, OfsSet(c) \cup RefKids(o)) /\ Range(refs) = RefKids(o)
    BY <2>1, KidsIn, Zenon
  <2> QED
    BY <1>4, <2>1, <2>2, Zenon DEF o
<1>9. \E v : OneMore(Built, Built', pack[c].obj, v)
  <2>1. asDelta \in BOOLEAN /\ (asDelta => pack[c].size < RawSize(pack[c]))
    BY DEF KeepsDelta
  <2>2. Top.base \in Known \cup {NoBase}
    BY <1>1, <1>7, StackParts, FrameFields, Zenon
  <2> DEFINE b == Top.base
             e == pack[c]
  <2>3. /\ b \in Known \cup {NoBase} /\ e \in PackEntry /\ asDelta \in BOOLEAN
        /\ asDelta => e.size < RawSize(e)
        /\ Place(e, b, asDelta)
    BY <1>3, <1>4, <2>1, <2>2, Zenon
  <2> HIDE DEF asDelta, b, e
  <2>4. \E v : OneMore(Built, Built', e.obj, v)
    BY <2>3, PlaceRecords, Zenon
  <2> QED
    BY <2>4, Zenon DEF e
<1> HIDE DEF asDelta
<1>10. c \in Pending(frames)
  <2>1. Len(frames) \in DOMAIN frames /\ Top = frames[Len(frames)]
    BY <1>1, <1>7, StackParts
  <2>2. Top.kids \in Seq(Nat)
    BY <1>1, <1>7, StackParts, FrameFields, Zenon
  <2>3. 1 \in DOMAIN Top.kids /\ Top.kids[1] = c
    BY <1>1, <2>2
  <2>4. c \in KidsOf(Top)
    BY <2>3, Zenon DEF KidsOf, Range
  <2> HIDE DEF c
  <2> QED
    BY <2>1, <2>4, Zenon DEF Pending
<1>11. /\ c \notin D /\ Kids(c) \cap Pending(frames) = {}
       /\ Sorted(pack, Defined, D \cup {c}, (Pending(frames) \ {c}) \cup Kids(c), nextRoot, refsDone \cup RefKids(pack[c].obj))
  <2> HIDE DEF c
  <2> QED
    BY <1>1, <1>3, <1>5, <1>7, <1>10, PlaceSorted, Zenon
<1>12. Apart(frames') /\ Pending(frames') = (Pending(frames) \ {c}) \cup Kids(c)
  <2> DEFINE N == Kids(c)
  <2>1. Lists(x.kids, N) /\ N \cap Pending(frames) = {}
    BY <1>8, <1>11, Zenon
  <2> HIDE DEF N
  <2>2. Apart(frames') /\ Pending(frames') = (Pending(frames) \ {Head(Top.kids)}) \cup N
    BY <1>1, <1>4, <1>5, <1>7, <2>1, PendingChild, Zenon
  <2> QED
    BY <2>2, Zenon DEF N
<1> HIDE DEF c
<1>13. Sorted(pack, Defined, D \cup {c}, Pending(frames'), nextRoot', refsDone')
  BY <1>1, <1>4, <1>8, <1>11, <1>12, Zenon
<1> QED
  BY <1>1, <1>3, <1>6, <1>9, <1>11, <1>12, <1>13, StoresPlace, Zenon

LEMMA StoresExternal ==
    ASSUME Base, Stores, NEW j \in DOMAIN pack, ExternalRead(j)
    PROVE  Stores'
<1> DEFINE h == pack[j].base
           K == RefKids(h)
<1>1. /\ resolving = "walk" /\ frames = <<>> /\ h \in InRepository
      /\ UNCHANGED <<pack, resolving, nextRoot, seg, sealed>>
  BY Zenon DEF ExternalRead
<1>2. PICK refs \in Orders(K) : /\ refsDone' = refsDone \cup Range(refs)
                               /\ \E b : frames' = <<Frame(refs, h, b, NoSerial, 0, 1)>>
  BY Zenon DEF ExternalRead
<1>3. Lists(refs, K) /\ Range(refs) = K
  BY KidsIn, Zenon DEF Base
<1>4. PICK D \in SUBSET DOMAIN pack :
         /\ Sorted(pack, Defined, D, Pending(frames), nextRoot, refsDone)
         /\ \E at : Recorded(pack, Built, D, at)
  BY <1>1, Zenon DEF Stores
<1>5. PICK at : Recorded(pack, Built, D, at)
  BY <1>4, Zenon
<1>6. K = {i \in DOMAIN pack : pack[i].typ = "ref" /\ pack[i].base = h} \ refsDone
  BY Zenon DEF RefKids
<1>7. K \subseteq Defined
  <2>1. {i \in DOMAIN pack : pack[i].typ = "ref" /\ pack[i].base = h} \subseteq Defined
    BY <1>1, DefinedGrows, Zenon
  <2> QED
    BY <1>6, <2>1, Zenon
<1> HIDE DEF K
<1>8. Sorted(pack, Defined, D, Pending(frames) \cup K, nextRoot, refsDone \cup K)
  <2> DEFINE W == Pending(frames)
             X == Defined
             B == h
  <2>1. K = RefsOn(pack, B, refsDone)
    BY <1>6, Zenon DEF RefsOn
  <2>2. Sorted(pack, X, D, W, nextRoot, refsDone) /\ RefsOn(pack, B, refsDone) \in SUBSET X
    BY <1>4, <1>7, <2>1, Zenon
  <2> HIDE DEF W, X, B
  <2>3. Sorted(pack, X, D, W \cup RefsOn(pack, B, refsDone), nextRoot, refsDone \cup RefsOn(pack, B, refsDone))
    BY <2>2, SortedExternal, Zenon
  <2> QED
    BY <2>1, <2>3, Zenon DEF W, X
<1>9. Apart(frames') /\ Pending(frames') = K
  <2>1. PICK b : frames' = <<Frame(refs, h, b, NoSerial, 0, 1)>>
    BY <1>2, Zenon
  <2> DEFINE f == Frame(refs, h, b, NoSerial, 0, 1)
  <2>2. f.kids = refs
    BY DEF Frame
  <2>3. frames' = <<f>>
    BY <2>1
  <2> HIDE DEF f
  <2>4. Lists(f.kids, K)
    BY <1>3, <2>2, Zenon
  <2> QED
    BY <2>3, <2>4, PendingOne, Zenon
<1>10. Pending(frames) \cup K = K
  BY <1>1, PendingNone, Zenon
<1>11. Defined' = Defined /\ Built' = Built
  BY <1>1, SamePack, Zenon DEF Built
<1>12. /\ D \in SUBSET DOMAIN pack' /\ Sorted(pack', Defined', D, Pending(frames'), nextRoot', refsDone')
       /\ Recorded(pack', Built', D, at)
  BY <1>1, <1>2, <1>3, <1>5, <1>8, <1>9, <1>10, <1>11, Zenon
<1>13. resolving' # "done" /\ resolving' # "idle"
  BY <1>1
<1> QED
  BY <1>9, <1>12, <1>13, Zenon DEF Stores

(* A step that places nothing and hands out nothing. *)
LEMMA StoresKept ==
    ASSUME Stores, UNCHANGED <<pack, resolving, nextRoot, refsDone>>, Built' = Built,
           Apart(frames) => Apart(frames') /\ Pending(frames') = Pending(frames)
    PROVE  Stores'
<1>1. Defined' = Defined
  BY SamePack, Zenon
<1>2. resolving' \in {"walk", "done"} =>
          /\ Apart(frames')
          /\ \E D \in SUBSET DOMAIN pack' :
                /\ Sorted(pack', Defined', D, Pending(frames'), nextRoot', refsDone')
                /\ \E at : Recorded(pack', Built', D, at)
  <2> SUFFICES ASSUME resolving' \in {"walk", "done"}
               PROVE  /\ Apart(frames')
                      /\ \E D \in SUBSET DOMAIN pack' :
                            /\ Sorted(pack', Defined', D, Pending(frames'), nextRoot', refsDone')
                            /\ \E at : Recorded(pack', Built', D, at)
    OBVIOUS
  <2>1. PICK D \in SUBSET DOMAIN pack :
           /\ Apart(frames)
           /\ Sorted(pack, Defined, D, Pending(frames), nextRoot, refsDone)
           /\ \E at : Recorded(pack, Built, D, at)
    BY Zenon DEF Stores
  <2>2. PICK at : Recorded(pack, Built, D, at)
    BY <2>1, Zenon
  <2>3. Apart(frames') /\ Pending(frames') = Pending(frames)
    BY <2>1, Zenon
  <2>4. /\ D \in SUBSET DOMAIN pack' /\ Sorted(pack', Defined', D, Pending(frames'), nextRoot', refsDone')
        /\ Recorded(pack', Built', D, at)
    BY <1>1, <2>1, <2>2, <2>3, Zenon
  <2> QED
    BY <2>3, <2>4, Zenon
<1>3. resolving' = "done" => nextRoot' > Len(pack') /\ {j \in DOMAIN pack' : pack'[j].typ = "ref"} \subseteq refsDone'
  BY Zenon DEF Stores
<1>4. resolving' = "idle" => Built' = <<>>
  BY Zenon DEF Stores
<1> QED
  BY <1>2, <1>3, <1>4, Zenon DEF Stores

(* When the last container is sealed, no entry is left: a delta on an entry
   before it follows from the ones before. *)
LEMMA AllStored ==
    ASSUME Base, resolving \in {"walk", "done"}, NEW D \in SUBSET DOMAIN pack, frames = <<>>,
           Sorted(pack, Defined, D, Pending(frames), nextRoot, refsDone), nextRoot > Len(pack),
           {j \in DOMAIN pack : pack[j].typ = "ref"} \subseteq refsDone
    PROVE  D = DOMAIN pack /\ Defined = DOMAIN pack
<1>1. Len(pack) \in Nat /\ DOMAIN pack = 1 .. Len(pack) /\ \A i \in DOMAIN pack : pack[i].typ \in {"whole", "ofs", "ref"}
  BY PackFacts, Zenon DEF Base, Types
<1>2. Pending(frames) = {}
  BY PendingNone, Zenon
<1>3. \A i \in DOMAIN pack : i \in Nat /\ i < nextRoot
  BY <1>1 DEF Base, Types
<1>4. ASSUME NEW i \in DOMAIN pack, i \notin D PROVE \E k \in DOMAIN pack \ D : k < i
  <2>1. pack[i].typ = "ofs"
    BY <1>1, <1>2, <1>3, <1>4, Zenon DEF Sorted
  <2>2. pack[i].base \in 1 .. (i - 1)
    BY <2>1, Zenon DEF Base, Phase, ScanOk, HeaderOk
  <2>3. pack[i].base \in DOMAIN pack /\ pack[i].base < i
    BY <1>1, <1>3, <2>2
  <2>4. pack[i].base \notin D
    BY <1>2, <1>4, <2>1, Zenon DEF Sorted
  <2> QED
    BY <2>3, <2>4, Zenon
<1>5. D = DOMAIN pack
  <2> DEFINE M == DOMAIN pack \ D
  <2> SUFFICES ASSUME M # {} PROVE FALSE
    BY Zenon
  <2>1. M \subseteq Nat
    BY <1>3, Zenon
  <2>2. PICK i \in M : \A k \in M : i <= k
    <3> HIDE DEF M
    <3> QED
      BY <2>1, Least, Zenon
  <2>3. PICK k \in M : k < i
    BY <1>4, <2>2, Zenon
  <2>4. i <= k /\ i \in Nat /\ k \in Nat
    BY <2>1, <2>2, <2>3, Zenon
  <2> QED
    BY <2>3, <2>4
<1>6. Defined = DOMAIN pack
  BY <1>5, DefinedGrows, Zenon DEF Sorted
<1> QED
  BY <1>5, <1>6

LEMMA StoresNext ==
    ASSUME Base, Base', Stores, [IndexPackNext]_ipVars
    PROVE  Stores'
<1>1. ASSUME UNCHANGED <<pack, resolving, nextRoot, refsDone, frames, seg, sealed>> PROVE Stores'
  <2>1. Built' = Built
    BY <1>1, Zenon DEF Built
  <2> QED
    BY <1>1, <2>1, StoresKept, Zenon
<1>2. ASSUME Fails PROVE Stores'
  <2>1. resolving' = "failed"
    BY <1>2, Zenon DEF Fails, Fail
  <2> QED
    BY <2>1 DEF Stores
<1>3. ASSUME SealLast PROVE Stores'
  <2>1. /\ resolving = "walk" /\ resolving' = "done" /\ sealed' = Built /\ seg' = NoSegment
        /\ nextRoot > Len(pack) /\ {j \in DOMAIN pack : pack[j].typ = "ref"} \subseteq refsDone
        /\ UNCHANGED <<pack, nextRoot, refsDone, frames>>
    BY <1>3, Zenon DEF SealLast, Built
  <2>2. Built' = Built /\ Defined' = Defined
    BY <2>1, NothingTypes, SamePack, Zenon DEF Built
  <2>3. /\ Apart(frames)
        /\ \E D \in SUBSET DOMAIN pack :
              /\ Sorted(pack, Defined, D, Pending(frames), nextRoot, refsDone)
              /\ \E at : Recorded(pack, Built, D, at)
    BY <2>1, Zenon DEF Stores
  <2>4. /\ Apart(frames')
        /\ \E D \in SUBSET DOMAIN pack' :
              /\ Sorted(pack', Defined', D, Pending(frames'), nextRoot', refsDone')
              /\ \E at : Recorded(pack', Built', D, at)
    BY <2>1, <2>2, <2>3, Zenon
  <2>5. nextRoot' > Len(pack') /\ {j \in DOMAIN pack' : pack'[j].typ = "ref"} \subseteq refsDone'
    BY <2>1, Zenon
  <2>6. resolving' # "idle"
    BY <2>1
  <2> QED
    BY <2>4, <2>5, <2>6, Zenon DEF Stores
<1>4. ASSUME Return PROVE Stores'
  <2>1. /\ UNCHANGED <<pack, resolving, nextRoot, refsDone, seg, sealed>> /\ frames' = Callers /\ frames # <<>>
        /\ Top.kids = <<>>
    BY <1>4, Zenon DEF Return, Walking
  <2>2. Built' = Built
    BY <2>1, Zenon DEF Built
  <2>3. frames \in Seq(FrameType)
    BY Zenon DEF Base, Types
  <2>4. Apart(frames) => Apart(frames') /\ Pending(frames') = Pending(frames)
    BY <2>1, <2>3, PendingReturn, Zenon
  <2> QED
    BY <2>1, <2>2, <2>4, StoresKept, Zenon
<1>5. ASSUME resolving = "idle", NEW p, NEW trailer, ReadPack(p, trailer) PROVE Stores'
  <2>1. /\ UNCHANGED <<nextRoot, refsDone, frames, seg, sealed>>
        /\ resolving' = "walk" \/ resolving' = "failed"
    BY <1>5, Zenon DEF ReadPack
  <2>2. frames' = <<>> /\ nextRoot' = 1 /\ refsDone' = {} /\ Built = <<>>
    BY <1>5, <2>1, Zenon DEF Base, Phase, Stores
  <2>3. Built' = <<>>
    BY <2>1, <2>2, Zenon DEF Built
  <2>4. Spots(<<>>) = {}
    <3>1. DOMAIN <<>> = {}
      OBVIOUS
    <3> QED
      BY <3>1, Zenon DEF Spots
  <2> DEFINE none == [i \in {} |-> 0]
  <2>5. Recorded(pack', Built', {}, none)
    BY <2>3, <2>4, Zenon DEF Recorded, IsInjective
  <2>6. Sorted(pack', Defined', {}, Pending(frames'), nextRoot', refsDone')
    <3> SUFFICES ASSUME resolving' = "walk" \/ resolving' = "failed"
                 PROVE  Sorted(pack', Defined', {}, {}, 1, {})
      BY <2>1, <2>2, PendingNone, Zenon
    <3>1. Len(pack') \in Nat /\ DOMAIN pack' = 1 .. Len(pack')
      <4>1. pack' \in Seq(PackEntry)
        <5>1. Packs \subseteq Seq(PackEntry) /\ <<>> \in Seq(PackEntry)
          BY EntryAssumption
        <5> QED
          BY <5>1, Zenon DEF Base, Types
      <4> QED
        BY <4>1
    <3>2. \A j \in DOMAIN pack' : ~(j < 1)
      BY <3>1
    <3> QED
      BY <3>2, Zenon DEF Sorted
  <2>7. Apart(frames')
    BY <2>2, PendingNone, Zenon
  <2>8. resolving' # "done" /\ resolving' # "idle"
    BY <2>1
  <2>9. {} \in SUBSET DOMAIN pack'
    BY Zenon
  <2> QED
    BY <2>5, <2>6, <2>7, <2>8, <2>9, Zenon DEF Stores
<1>6. ASSUME UNCHANGED ipVars PROVE Stores'
  BY <1>1, <1>6, Zenon DEF ipVars
<1>7. ASSUME IndexPackNext PROVE Stores'
  <2>1. ASSUME InflateChild PROVE Stores'
    BY <1>1, <2>1, Zenon DEF InflateChild
  <2>2. ASSUME ChildApplied PROVE Stores'
    BY <1>1, <2>2, Zenon DEF ChildApplied
  <2> QED
    BY <1>2, <1>3, <1>4, <1>5, <1>7, <2>1, <2>2, StepKinds, StoresRoot, StoresChild, StoresExternal, Zenon DEF Base
<1> QED
  BY <1>6, <1>7, Zenon

(* A push that ends well has stored every entry of its pack exactly once, and
   its pack defined them all: for every pack, whatever the order of bases and
   deltas in it, however often an object comes, and in every order children
   may hand the REF-deltas out. *)
THEOREM PackIsStored == IndexPackSpec => []EveryObjectStoredOnce
<1>1. IndexPackInit => Stores
  <2> SUFFICES ASSUME IndexPackInit PROVE Stores
    OBVIOUS
  <2>1. Built = <<>>
    BY NothingTypes, Zenon DEF IndexPackInit, Built
  <2>2. resolving = "idle"
    BY Zenon DEF IndexPackInit
  <2> QED
    BY <2>1, <2>2 DEF Stores
<1>2. Base /\ Base' /\ Stores /\ [IndexPackNext]_ipVars => Stores'
  BY StoresNext
<1>3. Base /\ Stores => EveryObjectStoredOnce
  <2> SUFFICES ASSUME Base, Stores, resolving = "done"
               PROVE  /\ Defined = DOMAIN pack
                      /\ \E at \in Bijection(DOMAIN pack, Spots(sealed)) :
                            \A i \in DOMAIN pack : sealed[at[i][1]].recs[at[i][2]].obj = pack[i].obj
    BY Zenon DEF EveryObjectStoredOnce
  <2>1. PICK D \in SUBSET DOMAIN pack :
           /\ Sorted(pack, Defined, D, Pending(frames), nextRoot, refsDone)
           /\ \E at : Recorded(pack, Built, D, at)
    BY Zenon DEF Stores
  <2>2. PICK at : Recorded(pack, Built, D, at)
    BY <2>1, Zenon
  <2>3. nextRoot > Len(pack) /\ {j \in DOMAIN pack : pack[j].typ = "ref"} \subseteq refsDone
    BY Zenon DEF Stores
  <2>4. frames = <<>> /\ Built = sealed
    <3>1. resolving # "walk"
      OBVIOUS
    <3> QED
      BY <3>1, Zenon DEF Base, Phase, Built
  <2>5. D = DOMAIN pack /\ Defined = DOMAIN pack
    BY <2>1, <2>3, <2>4, AllStored, Zenon
  <2>6. Recorded(pack, sealed, DOMAIN pack, at)
    BY <2>2, <2>4, <2>5, Zenon
  <2>7. at \in Bijection(DOMAIN pack, Spots(sealed))
    BY <2>6, Zenon DEF Recorded, Bijection, Injection, Surjection, IsInjective
  <2>8. \A i \in DOMAIN pack : sealed[at[i][1]].recs[at[i][2]].obj = pack[i].obj
    BY <2>6, Zenon DEF Recorded, ObjAt
  <2> QED
    BY <2>5, <2>7, <2>8, Zenon
<1> QED
  BY <1>1, <1>2, <1>3, BaseInvariant, PTL DEF IndexPackSpec
=============================================================================
