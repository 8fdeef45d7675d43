-------------------------- MODULE ObjectStoreReads --------------------------
(***************************************************************************)
(* The proof that a read of ObjectStore never misses what its Storer wrote *)
(* or what was flushed before the packs were listed, although uploads move *)
(* the objects and cold builds replace the index between two of its steps. *)
(***************************************************************************)
EXTENDS ObjectStoreProofs

(* Reads.  What an index finds it goes on finding: merges, registrations and a
   build only add to it. *)
LEMMA FindableIs ==
    ASSUME NEW tables, NEW o
    PROVE  o \in Findable(tables) <=> o \in Obj /\ \E i \in DOMAIN tables : o \in DOMAIN tables[i]
  BY Zenon DEF Findable, Found, Holders

LEMMA OneTableFinds ==
    ASSUME NEW t \in Table PROVE Findable(<<t>>) = DOMAIN t
<1>1. DOMAIN t \subseteq Obj
  BY TableType, Zenon
<1>2. DOMAIN <<t>> = {1} /\ <<t>>[1] = t
  OBVIOUS
<1> DEFINE q == <<t>>
<1> HIDE DEF q
<1>3. ASSUME NEW o PROVE o \in Findable(q) <=> o \in DOMAIN t
  BY <1>1, <1>2, FindableIs, Zenon DEF q
<1>4. Findable(q) = DOMAIN t
  BY <1>3, Zenon
<1> QED
  BY <1>4, Zenon DEF q

LEMMA MergeFinds ==
    ASSUME NEW tables \in Seq(Table) PROVE Findable(<<mergeTables(tables, {})>>) = Findable(tables)
<1>1. mergeTables(tables, {}) \in Table
  BY MergeTable, Zenon
<1>2. DOMAIN mergeTables(tables, {}) = Findable(tables)
  BY Zenon DEF mergeTables, Findable
<1> QED
  BY <1>1, <1>2, OneTableFinds, Zenon

LEMMA ConcatFinds ==
    ASSUME NEW p \in Seq(Table), NEW q \in Seq(Table) PROVE Findable(p \o q) = Findable(p) \cup Findable(q)
<1>1. ASSUME NEW o PROVE (\E i \in DOMAIN (p \o q) : o \in DOMAIN (p \o q)[i])
                         <=> (\E i \in DOMAIN p : o \in DOMAIN p[i]) \/ (\E i \in DOMAIN q : o \in DOMAIN q[i])
  <2>1. /\ DOMAIN p = 1 .. Len(p) /\ DOMAIN q = 1 .. Len(q) /\ Len(p) \in Nat /\ Len(q) \in Nat
        /\ DOMAIN (p \o q) = 1 .. (Len(p) + Len(q))
        /\ \A i \in 1 .. Len(p) : (p \o q)[i] = p[i]
        /\ \A i \in 1 .. Len(q) : (p \o q)[Len(p) + i] = q[i]
        /\ \A i \in 1 .. (Len(p) + Len(q)) : i <= Len(p) \/ (i - Len(p) \in 1 .. Len(q) /\ (p \o q)[i] = q[i - Len(p)])
    OBVIOUS
  <2>2. ASSUME NEW i \in DOMAIN (p \o q), o \in DOMAIN (p \o q)[i]
        PROVE  (\E k \in DOMAIN p : o \in DOMAIN p[k]) \/ (\E k \in DOMAIN q : o \in DOMAIN q[k])
    <3>1. CASE i <= Len(p)
      <4>1. i \in DOMAIN p /\ (p \o q)[i] = p[i]
        BY <2>1, <3>1
      <4> QED
        BY <2>2, <4>1, Zenon
    <3>2. CASE ~(i <= Len(p))
      BY <2>1, <2>2, <3>2, Zenon
    <3> QED
      BY <3>1, <3>2, Zenon
  <2>3. ASSUME NEW k \in DOMAIN p, o \in DOMAIN p[k] PROVE \E i \in DOMAIN (p \o q) : o \in DOMAIN (p \o q)[i]
    <3>1. k \in DOMAIN (p \o q) /\ (p \o q)[k] = p[k]
      BY <2>1
    <3> QED
      BY <2>3, <3>1, Zenon
  <2>4. ASSUME NEW k \in DOMAIN q, o \in DOMAIN q[k] PROVE \E i \in DOMAIN (p \o q) : o \in DOMAIN (p \o q)[i]
    <3>1. Len(p) + k \in DOMAIN (p \o q) /\ (p \o q)[Len(p) + k] = q[k]
      BY <2>1
    <3> QED
      BY <2>4, <3>1, Zenon
  <2> QED
    BY <2>2, <2>3, <2>4, Zenon
<1> DEFINE u == p \o q
<1> HIDE DEF u
<1>2. ASSUME NEW o PROVE o \in Findable(u) <=> o \in Findable(p) \/ o \in Findable(q)
  BY <1>1, FindableIs, Zenon DEF u
<1>3. Findable(u) = Findable(p) \cup Findable(q)
  BY <1>2, Zenon
<1> QED
  BY <1>3, Zenon DEF u

(* The fields of an index that a read depends on. *)
SameIndex(ix, iy) ==
    /\ iy.built = ix.built /\ iy.tables = ix.tables /\ iy.local = ix.local
    /\ iy.pending = ix.pending /\ iy.seen = ix.seen
LEMMA BoundedFinds ==
    ASSUME NEW ix, Sound(ix), ix.err = "none"
    PROVE  LET iy == Bounded(ix)
           IN  /\ Findable(iy.tables) = Findable(ix.tables) /\ iy.built = ix.built
               /\ iy.local = ix.local /\ iy.pending = ix.pending /\ iy.seen = ix.seen
<1>1. CASE Len(ix.tables) > MaxTables
  <2> DEFINE new == [ix EXCEPT !.tables = <<mergeTables(ix.tables, ix.dead)>>, !.dead = {}]
  <2>1. Bounded(ix) = new
    BY <1>1, Zenon DEF Bounded
  <2>2. /\ new.tables = <<mergeTables(ix.tables, ix.dead)>> /\ new.built = ix.built
        /\ new.local = ix.local /\ new.pending = ix.pending /\ new.seen = ix.seen
    BY Zenon DEF Sound, IndexField
  <2>3. ix.dead = {} /\ ix.tables \in Seq(Table)
    BY Zenon DEF Sound
  <2> HIDE DEF new
  <2> QED
    BY <2>1, <2>2, <2>3, MergeFinds, Zenon
<1>2. CASE ~(Len(ix.tables) > MaxTables)
  BY <1>2, Zenon DEF Bounded
<1> QED
  BY <1>1, <1>2, Zenon

LEMMA RegisterFinds ==
    ASSUME NEW ix, Sound(ix), ix.err = "none", NEW id \in Records, NEW recs \in Made
    PROVE  LET iy == register(ix, id, recs)
           IN  /\ Findable(iy.tables) = Findable(ix.tables) \cup DOMAIN recs /\ iy.built = ix.built
               /\ iy.local = ix.local \cup {id} /\ iy.pending = ix.pending /\ iy.seen = ix.seen
<1> DEFINE t == newPackTable(id, recs)
           new == [ix EXCEPT !.dead = @ \ {id}, !.tables = Append(@, t), !.local = @ \cup {id}]
<1>1. /\ DOMAIN new = IndexField /\ new.err = ix.err /\ new.dead = ix.dead \ {id} /\ new.tables = Append(ix.tables, t)
      /\ new.built = ix.built /\ new.local = ix.local \cup {id} /\ new.pending = ix.pending /\ new.seen = ix.seen
  BY Zenon DEF Sound, IndexField
<1>2. t \in Table /\ DOMAIN t = DOMAIN recs
  BY PackTable, Zenon DEF newPackTable
<1>3. register(ix, id, recs) = Bounded(new)
  BY Zenon DEF register
<1> HIDE DEF new, t
<1>4. ix.dead = {} /\ ix.tables \in Seq(Table)
  BY Zenon DEF Sound
<1>5. new.tables = ix.tables \o <<t>> /\ new.dead = {} /\ <<t>> \in Seq(Table) /\ new.tables \in Seq(Table)
  BY <1>1, <1>2, <1>4
<1>6. Sound(new)
  BY <1>1, <1>5, Zenon DEF Sound
<1>7. Findable(new.tables) = Findable(ix.tables) \cup DOMAIN recs
  BY <1>2, <1>4, <1>5, ConcatFinds, OneTableFinds, Zenon
<1> QED
  BY <1>1, <1>3, <1>6, <1>7, BoundedFinds, Zenon

LEMMA PublishFinds ==
    ASSUME NEW ix, Sound(ix), ix.err = "none", NEW got \in Seq(Table), NEW before
    PROVE  LET iy == Published(ix, got, before)
           IN  /\ Findable(iy.tables) = Findable(got) \cup Findable(ix.tables) /\ iy.built
               /\ iy.local = ix.local /\ iy.pending = ix.pending /\ iy.seen = before
<1> DEFINE one == IF Len(got) > 1 THEN <<mergeTables(got, {})>> ELSE got
           new == [ix EXCEPT !.tables = one \o @, !.built = TRUE, !.seen = before]
<1>1. Published(ix, got, before) = Bounded(new)
  BY Zenon DEF Published
<1>2. one \in Seq(Table)
  BY MergeTable
<1>3. Findable(one) = Findable(got)
  BY MergeFinds, Zenon
<1> HIDE DEF one
<1>4. /\ DOMAIN new = IndexField /\ new.err = ix.err /\ new.dead = ix.dead /\ new.tables = one \o ix.tables
      /\ new.built = TRUE /\ new.local = ix.local /\ new.pending = ix.pending /\ new.seen = before
  BY Zenon DEF Sound, IndexField
<1> HIDE DEF new
<1>5. ix.dead = {} /\ ix.tables \in Seq(Table)
  BY Zenon DEF Sound
<1>6. new.dead = {} /\ new.tables \in Seq(Table)
  BY <1>2, <1>4, <1>5
<1>7. Sound(new)
  BY <1>4, <1>6, Zenon DEF Sound
<1>8. Findable(new.tables) = Findable(got) \cup Findable(ix.tables)
  BY <1>2, <1>3, <1>4, <1>5, ConcatFinds, Zenon
<1> QED
  BY <1>1, <1>4, <1>7, <1>8, BoundedFinds, Zenon

(* The overlay. *)
LEMMA OverlayAdds ==
    ASSUME NEW ix, Sound(ix), NEW o, NEW name
    PROVE  LET iy == registerPending(ix, o, name)
           IN  /\ iy.tables = ix.tables /\ iy.built = ix.built /\ iy.local = ix.local /\ iy.seen = ix.seen
               /\ DOMAIN iy.pending = DOMAIN ix.pending \cup {o} /\ iy.pending[o] = name
               /\ \A x \in DOMAIN ix.pending : x # o => iy.pending[x] = ix.pending[x]
<1> DEFINE new == [x \in DOMAIN ix.pending \cup {o} |-> IF x = o THEN name ELSE ix.pending[x]]
<1>1. /\ DOMAIN new = DOMAIN ix.pending \cup {o} /\ new[o] = name
      /\ \A x \in DOMAIN ix.pending : x # o => new[x] = ix.pending[x]
  BY Zenon
<1> HIDE DEF new
<1>2. /\ registerPending(ix, o, name).pending = new
      /\ registerPending(ix, o, name).tables = ix.tables /\ registerPending(ix, o, name).built = ix.built
      /\ registerPending(ix, o, name).local = ix.local /\ registerPending(ix, o, name).seen = ix.seen
  BY Zenon DEF registerPending, Sound, IndexField, new
<1> QED
  BY <1>1, <1>2, Zenon
-----------------------------------------------------------------------------
(* What a Storer none of whose uploads failed has on offer: the overlay names
   the staged files of its loose objects; the objects of its own jobs are in its
   index, or loose or still in the overlay, and their packs are on disk or in
   the bucket; what was flushed before it listed the packs is in its index or
   loose. *)
Find(s) == Findable(store[s].tables)
OverlayNames(s) ==
    \A o \in DOMAIN store[s].pending :
        /\ store[s].pending[o] \in DOMAIN jobs[s]
        /\ jobs[s][store[s].pending[o]].kind = "loose" /\ jobs[s][store[s].pending[o]].obj = o
OffersJob(s, i) ==
    /\ jobs[s][i].kind = "pack" => DOMAIN jobs[s][i].recs \subseteq Find(s) /\ jobs[s][i].id \in store[s].local \cup bins
    /\ jobs[s][i].kind = "loose" => jobs[s][i].obj \in loose \cup DOMAIN store[s].pending
Offers(s) ==
    /\ OverlayNames(s)
    /\ \A i \in DOMAIN jobs[s] : OffersJob(s, i)
    /\ store[s].seen \ Empty \subseteq loose \cup Find(s)

(* A cold build has what was flushed before its listing, or is yet to read it. *)
BuildCovers(s, b) ==
    \A o \in cold[s][b].before \ Empty :
        o \in loose \cup Findable(cold[s][b].got) \/ \E id \in cold[s][b].todo : o \in DOMAIN id

OffersInv ==
    /\ \A s \in Storer : store[s].err = "none" => Offers(s)
    /\ \A s \in Storer : \A b \in Builder : BuildCovers(s, b)

(* A read in progress.  An object that must be found is at hand when the read
   gets to the place where it looks last; the pack it is about to open has its
   .bin; a base is in the index already when the read goes on to it, and is
   another object unless a container has the object as a delta of itself. *)
SelfBased(o) == \E c \in AllSealed : o \in DOMAIN c /\ c[o] = o
Sought(r) == r.due /\ r.goal \notin Empty
InHand == {"staged", "fetch", "framed"}
HopedAt(s, o, delta) ==
    \/ o \in loose \cup Find(s)
    \/ delta /\ o \in DOMAIN store[s].pending
    \/ ~store[s].built /\ o \in acked /\ \A b \in Builder : cold[s][b].on => o \in cold[s][b].before
ReadAt(s, r) ==
    /\ r.stage = "pending" => r.path \in DOMAIN jobs[s] /\ jobs[s][r.path].kind = "loose" /\ jobs[s][r.path].obj = r.at
    /\ r.stage = "staged" => r.pack \in Kept(s)
    /\ r.stage = "fetch" => r.pack \in bins
    /\ r.stage \in InHand => r.base \in Find(s) \cup {Whole} /\ (r.base = r.at => SelfBased(r.at))
    /\ r.links > 0 /\ r.stage = "lookup" => r.at \in Find(s)
    /\ Sought(r) /\ r.stage = "loose" => r.at \in loose
    /\ Sought(r) /\ r.links = 0 /\ r.stage = "lookup" => HopedAt(s, r.at, r.kind = "delta")
ReadShape(r) ==
    /\ DOMAIN r = DOMAIN NoRead /\ r.links \in Nat
    /\ r.links > 0 => r.stage \in {"lookup"} \cup InHand /\ r.kind # "delta"
    /\ r.links = 0 /\ r.stage \in {"pending", "lookup", "loose"} \cup InHand => r.at = r.goal
ReadGood(s) == ReadShape(reading[s]) /\ ReadAt(s, reading[s])
ReadInv == DOMAIN reading = Storer /\ \A s \in Storer : store[s].err = "none" => ReadGood(s)

(* A step after which a Storer has the same on offer, or the bucket more. *)
Growing == bins \subseteq bins' /\ loose \subseteq loose' /\ acked \subseteq acked'
SameJobs(t) ==
    /\ DOMAIN jobs'[t] = DOMAIN jobs[t]
    /\ \A k \in DOMAIN jobs[t] : /\ jobs'[t][k].kind = jobs[t][k].kind /\ jobs'[t][k].id = jobs[t][k].id
                                 /\ jobs'[t][k].recs = jobs[t][k].recs /\ jobs'[t][k].obj = jobs[t][k].obj
Calm(t) == SameIndex(store[t], store'[t]) /\ SameJobs(t)

LEMMA CalmOffers == ASSUME NEW t \in Storer, Offers(t), Growing, Calm(t) PROVE Offers(t)'
<1>1. Find(t)' = Find(t)
  BY Zenon DEF Calm, SameIndex, Find, Findable, Found, Holders
<1>2. OverlayNames(t)'
  <2>1. store'[t].pending = store[t].pending
    BY Zenon DEF Calm, SameIndex
  <2>2. ASSUME NEW o \in DOMAIN store[t].pending
        PROVE  /\ store[t].pending[o] \in DOMAIN jobs'[t]
               /\ jobs'[t][store[t].pending[o]].kind = "loose" /\ jobs'[t][store[t].pending[o]].obj = o
    BY Zenon DEF Calm, SameJobs, Offers, OverlayNames
  <2> QED
    BY <2>1, <2>2, Zenon DEF OverlayNames
<1>3. ASSUME NEW i \in DOMAIN jobs'[t] PROVE OffersJob(t, i)'
  BY <1>1, Zenon DEF Calm, SameIndex, SameJobs, Offers, OffersJob, Growing
<1>4. store'[t].seen \ Empty \subseteq loose' \cup Find(t)'
  BY <1>1, Zenon DEF Calm, SameIndex, Offers, Growing
<1> QED
  BY <1>2, <1>3, <1>4, Zenon DEF Offers

LEMMA SameBuild == ASSUME NEW t \in Storer, NEW b \in Builder, BuildCovers(t, b), Growing, cold'[t][b] = cold[t][b]
                   PROVE BuildCovers(t, b)'
<1> DEFINE c == cold[t][b]
<1>1. \A o \in c.before \ Empty : o \in loose' \cup Findable(c.got) \/ \E id \in c.todo : o \in DOMAIN id
  BY Zenon DEF BuildCovers, Growing
<1>2. Findable(cold[t][b].got)' = Findable(cold[t][b].got)
  BY Zenon DEF Findable, Found, Holders
<1> QED
  BY <1>1, <1>2, Zenon DEF BuildCovers

(* The read of a Storer whose index, jobs and overlay keep what it relies on. *)
LEMMA ReadKept ==
    ASSUME NEW t \in Storer, ReadGood(t), reading'[t] = reading[t], Growing, Find(t) \subseteq Find(t)',
           Sealed(t) \subseteq Sealed(t)',
           \A k \in DOMAIN jobs[t] : /\ k \in DOMAIN jobs'[t] /\ jobs'[t][k].kind = jobs[t][k].kind
                                     /\ jobs'[t][k].obj = jobs[t][k].obj,
           \A o, delta : o \notin Empty /\ HopedAt(t, o, delta) => HopedAt(t, o, delta)'
    PROVE  ReadGood(t)'
<1> DEFINE r == reading[t]
<1>1. ReadShape(r) /\ ReadAt(t, r)
  BY Zenon DEF ReadGood
<1>2. ReadShape(reading[t])'
  BY <1>1, Zenon DEF ReadShape
<1>3. r.stage = "pending" => r.path \in DOMAIN jobs'[t] /\ jobs'[t][r.path].kind = "loose" /\ jobs'[t][r.path].obj = r.at
  BY <1>1, Zenon DEF ReadAt
<1>4. (r.stage = "staged" => r.pack \in Kept(t)') /\ (r.stage = "fetch" => r.pack \in bins')
  BY <1>1, Zenon DEF ReadAt, Kept, Growing
<1>5. /\ r.stage \in InHand => r.base \in Find(t)' \cup {Whole} /\ (r.base = r.at => SelfBased(r.at))
      /\ r.links > 0 /\ r.stage = "lookup" => r.at \in Find(t)'
      /\ Sought(r) /\ r.stage = "loose" => r.at \in loose'
  BY <1>1, Zenon DEF ReadAt, Growing
<1>6. ASSUME Sought(r), r.links = 0, r.stage = "lookup" PROVE HopedAt(t, r.at, r.kind = "delta")'
  <2>1. r.at \notin Empty /\ HopedAt(t, r.at, r.kind = "delta")
    BY <1>1, <1>6, Zenon DEF ReadShape, ReadAt, Sought
  <2> QED
    BY <2>1, Zenon
<1> QED
  BY <1>1, <1>2, <1>3, <1>4, <1>5, <1>6, Zenon DEF ReadGood, ReadAt

LEMMA CalmReads ==
    ASSUME NEW t \in Storer, ReadGood(t), reading'[t] = reading[t], Growing, Calm(t), cold'[t] = cold[t] PROVE ReadGood(t)'
<1>1. Find(t)' = Find(t) /\ store'[t].pending = store[t].pending /\ store'[t].built = store[t].built
  BY Zenon DEF Calm, SameIndex, Find, Findable, Found, Holders
<1>2. Sealed(t)' = Sealed(t)
  <2>1. Sealed(t)' = {jobs'[t][k].id : k \in {k \in DOMAIN jobs'[t] : jobs'[t][k].kind = "pack"}}
    BY Zenon DEF Sealed, JobsOf
  <2>2. Sealed(t) = {jobs[t][k].id : k \in {k \in DOMAIN jobs[t] : jobs[t][k].kind = "pack"}}
    BY Zenon DEF Sealed, JobsOf
  <2>3. {k \in DOMAIN jobs'[t] : jobs'[t][k].kind = "pack"} = {k \in DOMAIN jobs[t] : jobs[t][k].kind = "pack"}
    BY Zenon DEF Calm, SameJobs
  <2>4. \A k \in {k \in DOMAIN jobs[t] : jobs[t][k].kind = "pack"} : jobs'[t][k].id = jobs[t][k].id
    BY Zenon DEF Calm, SameJobs
  <2> QED
    BY <2>1, <2>2, <2>3, <2>4, Zenon
<1>3. ASSUME NEW o, NEW delta, HopedAt(t, o, delta) PROVE HopedAt(t, o, delta)'
  BY <1>1, <1>3, Zenon DEF HopedAt, Growing
<1>4. \A k \in DOMAIN jobs[t] : /\ k \in DOMAIN jobs'[t] /\ jobs'[t][k].kind = jobs[t][k].kind
                                /\ jobs'[t][k].obj = jobs[t][k].obj
  BY Zenon DEF Calm, SameJobs
<1> QED
  BY <1>1, <1>2, <1>3, <1>4, ReadKept, Zenon

(* Every Storer but one is calm, or all are. *)
LEMMA SameIsCalm == ASSUME NEW t \in Storer, store'[t] = store[t], jobs'[t] = jobs[t] PROVE Calm(t)
  BY Zenon DEF Calm, SameIndex, SameJobs

LEMMA CalmStep ==
    ASSUME OffersInv, ReadInv, Growing, \A t \in Storer : Calm(t), UNCHANGED <<cold, reading>>,
           \A t \in Storer : store'[t].err = "none" => store[t].err = "none"
    PROVE  OffersInv' /\ ReadInv'
<1>1. ASSUME NEW t \in Storer, store'[t].err = "none" PROVE Offers(t)' /\ ReadGood(t)'
  <2>1. Offers(t) /\ ReadGood(t) /\ Calm(t)
    BY <1>1, Zenon DEF OffersInv, ReadInv
  <2> QED
    BY <2>1, CalmOffers, CalmReads, Zenon
<1>2. ASSUME NEW t \in Storer, NEW b \in Builder PROVE BuildCovers(t, b)'
  BY SameBuild, Zenon DEF OffersInv
<1> QED
  BY <1>1, <1>2, Zenon DEF OffersInv, ReadInv

LEMMA OneStep ==
    ASSUME OffersInv, ReadInv, Growing, NEW s \in Storer, DOMAIN reading' = Storer,
           \A t \in Storer \ {s} : /\ store'[t] = store[t] /\ jobs'[t] = jobs[t]
                                   /\ cold'[t] = cold[t] /\ reading'[t] = reading[t],
           store'[s].err = "none" => Offers(s)' /\ ReadGood(s)',
           \A b \in Builder : BuildCovers(s, b)'
    PROVE  OffersInv' /\ ReadInv'
<1>1. ASSUME NEW t \in Storer, t # s, store'[t].err = "none" PROVE Offers(t)' /\ ReadGood(t)'
  <2>1. Offers(t) /\ ReadGood(t) /\ Calm(t)
    BY <1>1, SameIsCalm, Zenon DEF OffersInv, ReadInv
  <2> QED
    BY <1>1, <2>1, CalmOffers, CalmReads, Zenon
<1>2. ASSUME NEW t \in Storer, t # s, NEW b \in Builder PROVE BuildCovers(t, b)'
  BY <1>2, SameBuild, Zenon DEF OffersInv
<1> QED
  BY <1>1, <1>2, Zenon DEF OffersInv, ReadInv

(* A job is added. *)
LEMMA AppendedJobs ==
    ASSUME IndexInv, NEW s \in Storer, NEW j, jobs' = [jobs EXCEPT ![s] = Append(@, j)]
    PROVE  /\ \A t \in Storer \ {s} : jobs'[t] = jobs[t]
           /\ \A k \in DOMAIN jobs[s] : k \in DOMAIN jobs'[s] /\ jobs'[s][k] = jobs[s][k]
           /\ \A k \in DOMAIN jobs'[s] : k \in DOMAIN jobs[s] \/ jobs'[s][k] = j
           /\ Len(jobs[s]) + 1 \in DOMAIN jobs'[s] /\ jobs'[s][Len(jobs[s]) + 1] = j
<1> DEFINE new == Append(jobs[s], j)
<1>1. jobs \in [Storer -> Seq(UploadJob)] /\ jobs[s] \in Seq(UploadJob)
  BY Zenon DEF IndexInv
<1>2. /\ \A k \in DOMAIN jobs[s] : k \in DOMAIN new /\ new[k] = jobs[s][k]
      /\ \A k \in DOMAIN new : k \in DOMAIN jobs[s] \/ new[k] = j
      /\ Len(jobs[s]) + 1 \in DOMAIN new /\ new[Len(jobs[s]) + 1] = j
  BY <1>1
<1> HIDE DEF new
<1>3. jobs'[s] = new /\ \A t \in Storer \ {s} : jobs'[t] = jobs[t]
  BY <1>1, Zenon DEF new
<1> QED
  BY <1>2, <1>3, Zenon

(* recordErr leaves what a read depends on. *)
LEMMA RecordErrCalm == ASSUME NEW ix, Sound(ix), NEW ok PROVE SameIndex(ix, recordErr(ix, ok))
  BY Zenon DEF SameIndex, recordErr, Sound, IndexField

LEMMA OtherIndexes ==
    ASSUME IndexInv, NEW s \in Storer, NEW ix, store' = [store EXCEPT ![s] = ix]
    PROVE  store'[s] = ix /\ \A t \in Storer \ {s} : store'[t] = store[t]
<1>1. DOMAIN store = Storer
  BY Zenon DEF IndexInv
<1> QED
  BY <1>1, Zenon

LEMMA SealReads ==
    ASSUME IndexInv, HeldInv, OffersInv, ReadInv, NEW s \in Storer, NEW queued \in BOOLEAN, Seal(s, queued)
    PROVE  OffersInv' /\ ReadInv'
<1> DEFINE n == Cardinality(JobsOf(s, "pack")) + 1
           c == plan[s].seals[n]
           r == register(store[s], Name(c), c)
           ix == recordErr(r, queued)
           j == [kind |-> "pack", id |-> Name(c), recs |-> c, obj |-> Whole, stage |-> IF queued THEN "queued" ELSE "bad"]
<1>1. c \in Made
  BY SealedContainer, Zenon
<1>2. store' = [store EXCEPT ![s] = ix] /\ jobs' = [jobs EXCEPT ![s] = Append(@, j)]
  BY Zenon DEF Seal
<1>3. UNCHANGED <<bins, loose, cold, reading, acked>>
  BY Zenon DEF Seal
<1>4. Name(c) \in Records
  BY <1>1, NameRecords
<1> HIDE DEF c
<1>5. j.kind = "pack" /\ j.id = Name(c) /\ j.recs = c
  BY Zenon
<1> HIDE DEF j
<1>6. store'[s] = ix /\ \A t \in Storer \ {s} : store'[t] = store[t]
  BY <1>2, OtherIndexes
<1>7. /\ \A t \in Storer \ {s} : jobs'[t] = jobs[t]
      /\ \A k \in DOMAIN jobs[s] : k \in DOMAIN jobs'[s] /\ jobs'[s][k] = jobs[s][k]
      /\ \A k \in DOMAIN jobs'[s] : k \in DOMAIN jobs[s] \/ jobs'[s][k] = j
  BY <1>2, AppendedJobs
<1>8. Growing
  BY <1>3, Zenon DEF Growing
<1>9. ASSUME store'[s].err = "none" PROVE Offers(s)' /\ ReadGood(s)'
  <2>1. Grows
    BY SealHeld, Zenon
  <2>2. store[s].err = "none" /\ Sealed(s) \subseteq Sealed(s)'
    BY <1>9, <2>1, Zenon DEF Grows
  <2>3. Sound(store[s]) /\ Offers(s) /\ ReadGood(s)
    BY <2>2, Zenon DEF IndexInv, OffersInv, ReadInv
  <2>4. /\ Findable(r.tables) = Findable(store[s].tables) \cup DOMAIN c /\ r.built = store[s].built
        /\ r.local = store[s].local \cup {Name(c)} /\ r.pending = store[s].pending /\ r.seen = store[s].seen
    BY <1>1, <1>4, <2>2, <2>3, RegisterFinds, Zenon
  <2>5. SameIndex(r, ix)
    BY <1>1, <1>4, <2>3, RegisterSound, RecordErrCalm, Zenon
  <2> HIDE DEF r, ix
  <2>6. Findable(store'[s].tables) = Findable(r.tables)
    BY <1>6, <2>5, Zenon DEF SameIndex
  <2>7. Find(s)' = Find(s) \cup DOMAIN c
    BY <2>4, <2>6, Zenon DEF Find, Findable, Found, Holders
  <2>8. /\ store'[s].built = store[s].built /\ store'[s].local = store[s].local \cup {Name(c)}
        /\ store'[s].pending = store[s].pending /\ store'[s].seen = store[s].seen
    BY <1>6, <2>4, <2>5, Zenon DEF SameIndex
  <2>9. OverlayNames(s)'
    <3>1. ASSUME NEW x \in DOMAIN store[s].pending
          PROVE  /\ store[s].pending[x] \in DOMAIN jobs'[s]
                 /\ jobs'[s][store[s].pending[x]].kind = "loose" /\ jobs'[s][store[s].pending[x]].obj = x
      <4> DEFINE p == store[s].pending[x]
      <4>1. p \in DOMAIN jobs[s] /\ jobs[s][p].kind = "loose" /\ jobs[s][p].obj = x
        BY <2>3, <3>1, Zenon DEF Offers, OverlayNames
      <4> HIDE DEF p
      <4>2. p \in DOMAIN jobs'[s] /\ jobs'[s][p].kind = "loose" /\ jobs'[s][p].obj = x
        BY <1>7, <4>1, Zenon
      <4> QED
        BY <4>2, Zenon DEF p
    <3> QED
      BY <2>8, <3>1, Zenon DEF OverlayNames
  <2>10. ASSUME NEW k \in DOMAIN jobs'[s] PROVE OffersJob(s, k)'
    <3>1. CASE k \in DOMAIN jobs[s]
      <4>1. OffersJob(s, k) /\ jobs'[s][k] = jobs[s][k]
        BY <1>7, <2>3, <3>1, Zenon DEF Offers
      <4> QED
        BY <1>3, <2>7, <2>8, <4>1, Zenon DEF OffersJob
    <3>2. CASE jobs'[s][k] = j
      <4>1. "pack" # "loose"
        OBVIOUS
      <4> QED
        BY <1>5, <2>7, <2>8, <3>2, <4>1, Zenon DEF OffersJob
    <3> QED
      BY <1>7, <3>1, <3>2, Zenon
  <2>11. Offers(s)'
    BY <1>3, <2>3, <2>7, <2>8, <2>9, <2>10, Zenon DEF Offers
  <2>12. ASSUME NEW o, NEW delta, HopedAt(s, o, delta) PROVE HopedAt(s, o, delta)'
    BY <1>3, <2>7, <2>8, <2>12, Zenon DEF HopedAt
  <2>13. ReadGood(s)'
    <3>1. reading'[s] = reading[s] /\ Find(s) \subseteq Find(s)'
      BY <1>3, <2>7, Zenon
    <3>2. \A k \in DOMAIN jobs[s] : /\ k \in DOMAIN jobs'[s] /\ jobs'[s][k].kind = jobs[s][k].kind
                                    /\ jobs'[s][k].obj = jobs[s][k].obj
      BY <1>7, Zenon
    <3> QED
      BY <1>8, <2>2, <2>3, <2>12, <3>1, <3>2, ReadKept, Zenon
  <2> QED
    BY <2>11, <2>13, Zenon
<1>10. \A b \in Builder : BuildCovers(s, b)'
  BY <1>3, <1>8, SameBuild, Zenon DEF OffersInv
<1>11. DOMAIN reading' = Storer
  BY <1>3, Zenon DEF ReadInv
<1> QED
  BY <1>3, <1>6, <1>7, <1>8, <1>9, <1>10, <1>11, OneStep, Zenon

LEMMA WriteLooseReads ==
    ASSUME IndexInv, HeldInv, OffersInv, ReadInv, NEW s \in Storer, NEW queued \in BOOLEAN, WriteLoose(s, queued)
    PROVE  OffersInv' /\ ReadInv'
<1> DEFINE n == Cardinality(JobsOf(s, "loose")) + 1
           o == plan[s].writes[n]
           m == Len(jobs[s]) + 1
           r == registerPending(store[s], o, m)
           ix == recordErr(r, queued)
           j == [kind |-> "loose", id |-> NoRecords, recs |-> NoRecords, obj |-> o,
                 stage |-> IF queued THEN "queued" ELSE "bad"]
<1>2. store' = [store EXCEPT ![s] = ix] /\ jobs' = [jobs EXCEPT ![s] = Append(@, j)]
  BY Zenon DEF WriteLoose
<1>3. UNCHANGED <<bins, loose, cold, reading, acked>>
  BY Zenon DEF WriteLoose
<1> HIDE DEF o
<1>5. j.kind = "loose" /\ j.obj = o
  BY Zenon
<1> HIDE DEF j
<1>6. store'[s] = ix /\ \A t \in Storer \ {s} : store'[t] = store[t]
  BY <1>2, OtherIndexes
<1>7. /\ \A t \in Storer \ {s} : jobs'[t] = jobs[t]
      /\ \A k \in DOMAIN jobs[s] : k \in DOMAIN jobs'[s] /\ jobs'[s][k] = jobs[s][k]
      /\ \A k \in DOMAIN jobs'[s] : k \in DOMAIN jobs[s] \/ jobs'[s][k] = j
      /\ m \in DOMAIN jobs'[s] /\ jobs'[s][m] = j
  BY <1>2, AppendedJobs
<1>8. Growing
  BY <1>3, Zenon DEF Growing
<1>9. ASSUME store'[s].err = "none" PROVE Offers(s)' /\ ReadGood(s)'
  <2>1. Grows
    BY WriteLooseHeld, Zenon
  <2>2. store[s].err = "none" /\ Sealed(s) \subseteq Sealed(s)'
    BY <1>9, <2>1, Zenon DEF Grows
  <2>3. Sound(store[s]) /\ Offers(s) /\ ReadGood(s)
    BY <2>2, Zenon DEF IndexInv, OffersInv, ReadInv
  <2> HIDE DEF m
  <2>4. /\ r.tables = store[s].tables /\ r.built = store[s].built /\ r.local = store[s].local /\ r.seen = store[s].seen
        /\ DOMAIN r.pending = DOMAIN store[s].pending \cup {o} /\ r.pending[o] = m
        /\ \A x \in DOMAIN store[s].pending : x # o => r.pending[x] = store[s].pending[x]
    BY <2>3, OverlayAdds
  <2>5. SameIndex(r, ix)
    BY <2>3, OverlaySound, RecordErrCalm, Zenon
  <2> HIDE DEF r, ix
  <2>6. /\ store'[s].built = store[s].built /\ store'[s].local = store[s].local /\ store'[s].tables = store[s].tables
        /\ store'[s].pending = r.pending /\ store'[s].seen = store[s].seen
    BY <1>6, <2>4, <2>5, Zenon DEF SameIndex
  <2>7. Find(s)' = Find(s)
    BY <2>6, Zenon DEF Find, Findable, Found, Holders
  <2>8. ASSUME NEW x \in DOMAIN r.pending
        PROVE  r.pending[x] \in DOMAIN jobs'[s] /\ jobs'[s][r.pending[x]].kind = "loose" /\ jobs'[s][r.pending[x]].obj = x
    <3>1. CASE x = o
      BY <1>5, <1>7, <2>4, <3>1, Zenon
    <3>2. CASE x # o
      <4>1. x \in DOMAIN store[s].pending /\ r.pending[x] = store[s].pending[x]
        BY <2>4, <3>2, Zenon
      <4>2. /\ store[s].pending[x] \in DOMAIN jobs[s]
            /\ jobs[s][store[s].pending[x]].kind = "loose" /\ jobs[s][store[s].pending[x]].obj = x
        BY <2>3, <4>1, Zenon DEF Offers, OverlayNames
      <4> QED
        BY <1>7, <4>1, <4>2, Zenon
    <3> QED
      BY <3>1, <3>2, Zenon
  <2>9. OverlayNames(s)'
    BY <2>6, <2>8, Zenon DEF OverlayNames
  <2>10. ASSUME NEW k \in DOMAIN jobs'[s] PROVE OffersJob(s, k)'
    <3>1. CASE k \in DOMAIN jobs[s]
      <4>1. OffersJob(s, k) /\ jobs'[s][k] = jobs[s][k]
        BY <1>7, <2>3, <3>1, Zenon DEF Offers
      <4> QED
        BY <1>3, <2>4, <2>6, <2>7, <4>1, Zenon DEF OffersJob
    <3>2. CASE jobs'[s][k] = j
      <4>1. "pack" # "loose"
        OBVIOUS
      <4> QED
        BY <1>5, <2>4, <2>6, <3>2, <4>1, Zenon DEF OffersJob
    <3> QED
      BY <1>7, <3>1, <3>2, Zenon
  <2>11. Offers(s)'
    BY <1>3, <2>3, <2>6, <2>7, <2>9, <2>10, Zenon DEF Offers
  <2>12. ASSUME NEW x, NEW delta, HopedAt(s, x, delta) PROVE HopedAt(s, x, delta)'
    BY <1>3, <2>4, <2>6, <2>7, <2>12, Zenon DEF HopedAt
  <2>13. ReadGood(s)'
    <3>1. reading'[s] = reading[s] /\ Find(s) \subseteq Find(s)'
      BY <1>3, <2>7, Zenon
    <3>2. \A k \in DOMAIN jobs[s] : /\ k \in DOMAIN jobs'[s] /\ jobs'[s][k].kind = jobs[s][k].kind
                                    /\ jobs'[s][k].obj = jobs[s][k].obj
      BY <1>7, Zenon
    <3> QED
      BY <1>8, <2>2, <2>3, <2>12, <3>1, <3>2, ReadKept, Zenon
  <2> QED
    BY <2>11, <2>13, Zenon
<1>10. \A b \in Builder : BuildCovers(s, b)'
  BY <1>3, <1>8, SameBuild, Zenon DEF OffersInv
<1>11. DOMAIN reading' = Storer
  BY <1>3, Zenon DEF ReadInv
<1> QED
  BY <1>3, <1>6, <1>7, <1>8, <1>9, <1>10, <1>11, OneStep, Zenon

(* A job goes to another stage. *)
LEMMA MovedSame ==
    ASSUME IndexInv, NEW s \in Storer, NEW i \in DOMAIN jobs[s], NEW stage, Stage(s, i, stage)
    PROVE  /\ \A t \in Storer : SameJobs(t) /\ Sealed(t)' = Sealed(t)
           /\ \A t \in Storer \ {s} : jobs'[t] = jobs[t]
<1> DEFINE moved == [jobs[s][i] EXCEPT !.stage = stage]
           new == [jobs[s] EXCEPT ![i] = moved]
<1>1. jobs \in [Storer -> Seq(UploadJob)] /\ jobs[s] \in Seq(UploadJob) /\ jobs[s][i] \in UploadJob
  BY DEF IndexInv
<1>2. DOMAIN jobs[s][i] = {"kind", "id", "recs", "obj", "stage"}
  BY <1>1, Zenon DEF UploadJob
<1>3. /\ moved.id = jobs[s][i].id /\ moved.kind = jobs[s][i].kind
      /\ moved.recs = jobs[s][i].recs /\ moved.obj = jobs[s][i].obj
  BY <1>2
<1>4. jobs' = [jobs EXCEPT ![s] = new]
  BY Zenon DEF Stage
<1> HIDE DEF moved
<1>5. DOMAIN new = DOMAIN jobs[s] /\ new[i] = moved /\ \A k \in DOMAIN jobs[s] \ {i} : new[k] = jobs[s][k]
  BY Zenon
<1> HIDE DEF new
<1>6. jobs'[s] = new /\ \A t \in Storer \ {s} : jobs'[t] = jobs[t]
  BY <1>1, <1>4, Zenon
<1>7. SameJobs(s)
  <2>1. \A k \in DOMAIN jobs[s] : /\ new[k].kind = jobs[s][k].kind /\ new[k].id = jobs[s][k].id
                                  /\ new[k].recs = jobs[s][k].recs /\ new[k].obj = jobs[s][k].obj
    BY <1>3, <1>5, Zenon
  <2> QED
    BY <1>5, <1>6, <2>1, Zenon DEF SameJobs
<1>8. \A t \in Storer \ {s} : SameJobs(t)
  BY <1>6, Zenon DEF SameJobs
<1>9. \A t \in Storer : Sealed(t)' = Sealed(t)
  BY JobsMoved
<1> QED
  BY <1>6, <1>7, <1>8, <1>9, Zenon

(* The answers to PutObject and the removal of staged files. *)
LEMMA PutReads ==
    ASSUME IndexInv, HeldInv, OffersInv, ReadInv, NEW s \in Storer, NEW i \in DOMAIN jobs[s],
           NEW landed \in BOOLEAN, NEW ok \in BOOLEAN,
           PutBin(s, i, landed, ok) \/ PutCue(s, i, landed, ok) \/ PutLoose(s, i, landed, ok)
    PROVE  OffersInv' /\ ReadInv'
<1>1. PICK stage : Stage(s, i, stage)
  BY Zenon DEF PutBin, PutCue, PutLoose, Answered
<1>2. store' = [store EXCEPT ![s] = recordErr(store[s], ok)] /\ UNCHANGED <<cold, reading, acked>>
  BY Zenon DEF PutBin, PutCue, PutLoose, Answered
<1>3. Grows
  BY PutHeld, Zenon
<1>4. Growing /\ \A t \in Storer : store'[t].err = "none" => store[t].err = "none"
  BY <1>2, <1>3, Zenon DEF Grows, Growing
<1>5. \A t \in Storer : SameJobs(t)
  BY <1>1, MovedSame
<1>6. \A t \in Storer : SameIndex(store[t], store'[t])
  <2>1. store'[s] = recordErr(store[s], ok) /\ \A t \in Storer \ {s} : store'[t] = store[t]
    BY <1>2, OtherIndexes
  <2>2. SameIndex(store[s], recordErr(store[s], ok))
    BY RecordErrCalm, Zenon DEF IndexInv
  <2>3. \A t \in Storer \ {s} : SameIndex(store[t], store'[t])
    BY <2>1, Zenon DEF SameIndex
  <2> QED
    BY <2>1, <2>2, <2>3, Zenon
<1>7. \A t \in Storer : Calm(t)
  BY <1>5, <1>6, Zenon DEF Calm
<1> QED
  BY <1>2, <1>4, <1>7, CalmStep, Zenon

LEMMA RemoveStagedReads ==
    ASSUME IndexInv, OffersInv, ReadInv, NEW s \in Storer, NEW i \in DOMAIN jobs[s], RemoveStaged(s, i)
    PROVE  OffersInv' /\ ReadInv'
<1>1. Stage(s, i, "gone") /\ UNCHANGED <<bins, loose, store, cold, reading, acked>>
  BY Zenon DEF RemoveStaged
<1>2. \A t \in Storer : SameJobs(t)
  BY <1>1, MovedSame
<1>3. Growing /\ \A t \in Storer : SameIndex(store[t], store'[t])
  BY <1>1, Zenon DEF Growing, SameIndex
<1>4. \A t \in Storer : Calm(t)
  BY <1>2, <1>3, Zenon DEF Calm
<1> QED
  BY <1>1, <1>3, <1>4, CalmStep, Zenon

LEMMA FlushReads ==
    ASSUME IndexInv, OffersInv, ReadInv, NEW s \in Storer, FlushUploads(s) PROVE OffersInv' /\ ReadInv'
<1> DEFINE ix == [store[s] EXCEPT !.flushed = TRUE]
<1>1. store' = [store EXCEPT ![s] = ix] /\ UNCHANGED <<bins, loose, jobs, cold, reading>> /\ acked \subseteq acked'
  BY Zenon DEF FlushUploads
<1>2. SameIndex(store[s], ix) /\ ix.err = store[s].err
  BY Zenon DEF IndexInv, Sound, IndexField, SameIndex
<1> HIDE DEF ix
<1>3. store'[s] = ix /\ \A t \in Storer \ {s} : store'[t] = store[t]
  BY <1>1, OtherIndexes
<1>4. /\ \A t \in Storer : SameIndex(store[t], store'[t])
      /\ \A t \in Storer : store'[t].err = "none" => store[t].err = "none"
  <2>1. \A t \in Storer \ {s} : SameIndex(store[t], store'[t])
    BY <1>3, Zenon DEF SameIndex
  <2> QED
    BY <1>2, <1>3, <2>1, Zenon
<1>5. Growing /\ \A t \in Storer : Calm(t)
  BY <1>1, <1>4, Zenon DEF Growing, Calm, SameJobs
<1> QED
  BY <1>1, <1>4, <1>5, CalmStep, Zenon

(* done, first half: an object leaves the overlay, a pack the local ones, once
   it is in the bucket. *)
LEMMA UnlistReads ==
    ASSUME IndexInv, HeldInv, AckInv, OffersInv, ReadInv, NEW s \in Storer, NEW i \in DOMAIN jobs[s], Unlist(s, i)
    PROVE  OffersInv' /\ ReadInv'
<1> DEFINE j == jobs[s][i]
           ix == IF j.kind = "loose" THEN evict(store[s], j.obj)
                 ELSE IF j.stage = "good" THEN markUploaded(store[s], j.id) ELSE deregister(store[s], j.id)
<1>1. /\ store' = [store EXCEPT ![s] = ix] /\ Stage(s, i, "unlisted") /\ UNCHANGED <<bins, loose, cold, reading, acked>>
      /\ j.stage \in {"good", "bad"}
  BY Zenon DEF Unlist, Job
<1>2. store'[s] = ix /\ \A t \in Storer \ {s} : store'[t] = store[t]
  <2> HIDE DEF ix
  <2> QED
    BY <1>1, OtherIndexes
<1>3. SameJobs(s) /\ Sealed(s)' = Sealed(s) /\ \A t \in Storer \ {s} : jobs'[t] = jobs[t]
  BY <1>1, MovedSame
<1>4. Growing
  BY <1>1, Zenon DEF Growing
<1>5. ASSUME store'[s].err = "none" PROVE Offers(s)' /\ ReadGood(s)'
  <2>1. Grows
    BY DoneHeld, Zenon
  <2>2. store[s].err = "none"
    BY <1>5, <2>1, Zenon DEF Grows
  <2>3. Sound(store[s]) /\ Offers(s) /\ ReadGood(s) /\ j.stage = "good"
    BY <1>1, <2>2 DEF IndexInv, OffersInv, ReadInv
  <2>4. (j.kind = "pack" => j.id \in bins) /\ (j.kind = "loose" => j.obj \in loose) /\ j.kind \in {"pack", "loose"}
    <3>1. JobKept(s, j) /\ JobLands(j, store[s].err, DOMAIN cues, loose) /\ "good" # "queued" /\ "loose" # "pack"
      BY DEF HeldInv, JobsHeld, AckInv, JobsLand
    <3>2. j \in UploadJob
      BY DEF IndexInv
    <3>3. j.kind \in {"pack", "loose"}
      BY <3>2, Zenon DEF UploadJob
    <3> QED
      BY <2>2, <2>3, <3>1, <3>3, Zenon DEF JobKept, JobLands, Landed
  <2>5. /\ store'[s].tables = store[s].tables /\ store'[s].built = store[s].built /\ store'[s].seen = store[s].seen
        /\ \A id \in store[s].local : id \in store'[s].local \cup bins
        /\ DOMAIN store'[s].pending \subseteq DOMAIN store[s].pending
        /\ \A x \in DOMAIN store[s].pending : x \in DOMAIN store'[s].pending \cup loose
        /\ \A x \in DOMAIN store'[s].pending : store'[s].pending[x] = store[s].pending[x]
    <3>1. CASE j.kind = "loose"
      <4>1. ix = evict(store[s], j.obj)
        BY <3>1, Zenon
      <4>2. /\ ix.tables = store[s].tables /\ ix.built = store[s].built /\ ix.seen = store[s].seen
            /\ ix.local = store[s].local /\ ix.pending = Restrict(store[s].pending, DOMAIN store[s].pending \ {j.obj})
        BY <2>3, <4>1, Zenon DEF evict, Sound, IndexField
      <4> HIDE DEF ix
      <4>3. /\ DOMAIN ix.pending = DOMAIN store[s].pending \ {j.obj}
            /\ \A x \in DOMAIN ix.pending : ix.pending[x] = store[s].pending[x]
        BY <4>2, Zenon DEF Restrict
      <4> HIDE DEF j
      <4> QED
        BY <1>2, <2>4, <3>1, <4>2, <4>3, Zenon
    <3>2. CASE j.kind = "pack"
      <4>1. ix = markUploaded(store[s], j.id)
        BY <2>3, <3>2
      <4>2. /\ ix.tables = store[s].tables /\ ix.built = store[s].built /\ ix.seen = store[s].seen
            /\ ix.local = store[s].local \ {j.id} /\ ix.pending = store[s].pending
        BY <2>3, <4>1, Zenon DEF markUploaded, Sound, IndexField
      <4> HIDE DEF ix, j
      <4> QED
        BY <1>2, <2>4, <3>2, <4>2, Zenon
    <3> QED
      BY <2>4, <3>1, <3>2, Zenon
  <2>6. Find(s)' = Find(s)
    BY <2>5, Zenon DEF Find, Findable, Found, Holders
  <2>7. OverlayNames(s)'
    <3>1. ASSUME NEW x \in DOMAIN store'[s].pending
          PROVE  /\ store[s].pending[x] \in DOMAIN jobs'[s]
                 /\ jobs'[s][store[s].pending[x]].kind = "loose" /\ jobs'[s][store[s].pending[x]].obj = x
      BY <1>3, <2>3, <2>5, Zenon DEF Offers, OverlayNames, SameJobs
    <3> QED
      BY <2>5, <3>1, Zenon DEF OverlayNames
  <2>8. ASSUME NEW k \in DOMAIN jobs'[s] PROVE OffersJob(s, k)'
    <3>1. OffersJob(s, k)
      BY <1>3, <2>3, <2>8, Zenon DEF Offers, SameJobs
    <3> QED
      BY <1>1, <1>3, <2>5, <2>6, <2>8, <3>1, Zenon DEF OffersJob, SameJobs
  <2>9. Offers(s)'
    BY <1>1, <2>3, <2>5, <2>6, <2>7, <2>8, Zenon DEF Offers
  <2>10. ASSUME NEW x, NEW delta, HopedAt(s, x, delta) PROVE HopedAt(s, x, delta)'
    BY <1>1, <2>5, <2>6, <2>10, Zenon DEF HopedAt
  <2>11. ReadGood(s)'
    <3>1. reading'[s] = reading[s] /\ Find(s) \subseteq Find(s)' /\ Sealed(s) \subseteq Sealed(s)'
      BY <1>1, <1>3, <2>6, Zenon
    <3>2. \A k \in DOMAIN jobs[s] : /\ k \in DOMAIN jobs'[s] /\ jobs'[s][k].kind = jobs[s][k].kind
                                    /\ jobs'[s][k].obj = jobs[s][k].obj
      BY <1>3, Zenon DEF SameJobs
    <3> QED
      BY <1>4, <2>3, <2>10, <3>1, <3>2, ReadKept, Zenon
  <2> QED
    BY <2>9, <2>11, Zenon
<1>6. \A b \in Builder : BuildCovers(s, b)'
  BY <1>1, <1>4, SameBuild, Zenon DEF OffersInv
<1>7. DOMAIN reading' = Storer
  BY <1>1, Zenon DEF ReadInv
<1> QED
  BY <1>1, <1>2, <1>3, <1>4, <1>5, <1>6, <1>7, OneStep, Zenon

(* The cold build: a listing is taken after what was flushed by then, and what
   is read from it covers that. *)
LEMMA BuildReads ==
    ASSUME IndexInv, NEW s \in Storer, NEW b \in Builder, NEW c,
           cold' = [cold EXCEPT ![s] = [@ EXCEPT ![b] = c]]
    PROVE  /\ \A t \in Storer \ {s} : cold'[t] = cold[t]
           /\ cold'[s][b] = c /\ \A d \in Builder \ {b} : cold'[s][d] = cold[s][d]
<1>1. DOMAIN cold = Storer /\ DOMAIN cold[s] = Builder
  BY Zenon DEF IndexInv
<1>2. cold'[s] = [cold[s] EXCEPT ![b] = c] /\ \A t \in Storer \ {s} : cold'[t] = cold[t]
  BY <1>1, Zenon
<1> QED
  BY <1>1, <1>2, Zenon

LEMMA BuildsCover ==
    ASSUME IndexInv, OffersInv, NEW s \in Storer, NEW b \in Builder, NEW c,
           cold' = [cold EXCEPT ![s] = [@ EXCEPT ![b] = c]], UNCHANGED <<bins, loose, acked>>,
           \A o \in c.before \ Empty : o \in loose \cup Findable(c.got) \/ \E id \in c.todo : o \in DOMAIN id
    PROVE  Growing /\ \A d \in Builder : BuildCovers(s, d)'
<1>1. /\ \A t \in Storer \ {s} : cold'[t] = cold[t]
      /\ cold'[s][b] = c /\ \A d \in Builder \ {b} : cold'[s][d] = cold[s][d]
  BY BuildReads
<1>2. Growing
  BY Zenon DEF Growing
<1>3. BuildCovers(s, b)'
  <2>1. Findable(cold[s][b].got)' = Findable(c.got)
    BY <1>1, Zenon DEF Findable, Found, Holders
  <2> QED
    BY <1>1, <2>1, Zenon DEF BuildCovers
<1>4. ASSUME NEW d \in Builder \ {b} PROVE BuildCovers(s, d)'
  BY <1>1, <1>2, SameBuild, Zenon DEF OffersInv
<1> QED
  BY <1>2, <1>3, <1>4, Zenon

LEMMA ColdReads ==
    ASSUME IndexInv, OffersInv, ReadInv, NEW s \in Storer, NEW b \in Builder, NEW c,
           cold' = [cold EXCEPT ![s] = [@ EXCEPT ![b] = c]], UNCHANGED <<bins, loose, store, jobs, reading, acked>>,
           \A o \in c.before \ Empty : o \in loose \cup Findable(c.got) \/ \E id \in c.todo : o \in DOMAIN id,
           \A o \in acked : (cold[s][b].on => o \in cold[s][b].before) => (c.on => o \in c.before)
    PROVE  OffersInv' /\ ReadInv'
<1>2. /\ \A t \in Storer \ {s} : cold'[t] = cold[t]
      /\ cold'[s][b] = c /\ \A d \in Builder \ {b} : cold'[s][d] = cold[s][d]
  BY BuildReads
<1>3. Growing /\ \A d \in Builder : BuildCovers(s, d)'
  BY BuildsCover
<1>4. Calm(s)
  BY SameIsCalm, Zenon
<1>5. ASSUME store'[s].err = "none" PROVE Offers(s)' /\ ReadGood(s)'
  <2>1. Offers(s) /\ ReadGood(s)
    BY <1>5, Zenon DEF OffersInv, ReadInv
  <2>2. Offers(s)'
    BY <1>3, <1>4, <2>1, CalmOffers, Zenon
  <2>3. Find(s)' = Find(s) /\ Sealed(s)' = Sealed(s)
    BY Zenon DEF Find, Findable, Found, Holders, Sealed, JobsOf
  <2>4. ASSUME NEW o, NEW delta, HopedAt(s, o, delta) PROVE HopedAt(s, o, delta)'
    <3>1. CASE ~store[s].built /\ o \in acked /\ \A d \in Builder : cold[s][d].on => o \in cold[s][d].before
      <4>1. \A d \in Builder : cold'[s][d].on => o \in cold'[s][d].before
        BY <1>2, <3>1, Zenon
      <4> QED
        BY <3>1, <4>1, Zenon DEF HopedAt
    <3>2. CASE o \in loose \cup Find(s) \/ (delta /\ o \in DOMAIN store[s].pending)
      BY <2>3, <3>2, Zenon DEF HopedAt
    <3> QED
      BY <2>4, <3>1, <3>2, Zenon DEF HopedAt
  <2>5. \A k \in DOMAIN jobs[s] : /\ k \in DOMAIN jobs'[s] /\ jobs'[s][k].kind = jobs[s][k].kind
                                  /\ jobs'[s][k].obj = jobs[s][k].obj
    BY Zenon
  <2>6. ReadGood(s)'
    BY <1>3, <2>1, <2>3, <2>4, <2>5, ReadKept, Zenon
  <2> QED
    BY <2>2, <2>6, Zenon
<1>6. DOMAIN reading' = Storer
  BY Zenon DEF ReadInv
<1> QED
  BY <1>2, <1>3, <1>5, <1>6, OneStep, Zenon

LEMMA ListFetchReads ==
    ASSUME IndexInv, AckInv, OffersInv, ReadInv, NEW s \in Storer, NEW b \in Builder,
           ListPacks(s, b) \/ FetchFails(s, b) \/ \E id \in cold[s][b].todo : FetchCue(s, b, id)
    PROVE  OffersInv' /\ ReadInv'
<1>1. UNCHANGED <<bins, loose, store, jobs, reading, acked>>
  BY ZenonT(30) DEF ListPacks, FetchFails, FetchCue
<1>2. CASE ListPacks(s, b)
  <2> DEFINE c == [NoCold EXCEPT !.on = TRUE, !.todo = DOMAIN cues, !.before = acked]
  <2>1. cold' = [cold EXCEPT ![s] = [@ EXCEPT ![b] = c]]
    BY <1>2, Zenon DEF ListPacks
  <2>2. c.on /\ c.todo = DOMAIN cues /\ c.before = acked
    BY DEF NoCold
  <2> HIDE DEF c
  <2>3. \A o \in c.before \ Empty : o \in loose \cup Findable(c.got) \/ \E id \in c.todo : o \in DOMAIN id
    <3>1. \A o \in acked \ Empty : o \in loose \/ \E id \in DOMAIN cues : o \in DOMAIN id
      BY Zenon DEF AckInv, AckedStay
    <3> QED
      BY <2>2, <3>1, Zenon
  <2>4. \A o \in acked : (cold[s][b].on => o \in cold[s][b].before) => (c.on => o \in c.before)
    BY <2>2, Zenon
  <2> QED
    BY <1>1, <2>1, <2>3, <2>4, ColdReads
<1>3. CASE FetchFails(s, b)
  <2>1. cold' = [cold EXCEPT ![s] = [@ EXCEPT ![b] = NoCold]]
    BY <1>3, Zenon DEF FetchFails
  <2>2. ~NoCold.on /\ NoCold.before = {}
    BY DEF NoCold
  <2>3. /\ \A o \in NoCold.before \ Empty : o \in loose \cup Findable(NoCold.got) \/ \E id \in NoCold.todo : o \in DOMAIN id
        /\ \A o \in acked : (cold[s][b].on => o \in cold[s][b].before) => (NoCold.on => o \in NoCold.before)
    BY <2>2, Zenon
  <2> QED
    BY <1>1, <2>1, <2>3, ColdReads
<1>4. ASSUME NEW id \in cold[s][b].todo, FetchCue(s, b, id) PROVE OffersInv' /\ ReadInv'
  <2> DEFINE t == newPackTable(id, cues[id])
             c == [cold[s][b] EXCEPT !.todo = @ \ {id}, !.got = Append(@, t)]
  <2>1. cold' = [cold EXCEPT ![s] = [@ EXCEPT ![b] = c]]
    BY <1>4, ZenonT(30) DEF FetchCue
  <2>2. DOMAIN cold[s][b] = {"on", "todo", "got", "before"} /\ cold[s][b].got \in Seq(Table) /\ id \in DOMAIN cues
    BY DEF IndexInv
  <2>3. id \in Records /\ cues[id] \in Made /\ Name(cues[id]) = id
    BY <2>2 DEF IndexInv, AckInv, NamesFit
  <2>4. t \in Table /\ DOMAIN t = DOMAIN cues[id]
    BY <2>3, PackTable DEF newPackTable
  <2>5. DOMAIN id \subseteq DOMAIN t
    BY <2>3, <2>4, Zenon DEF Name, Restrict
  <2> HIDE DEF t
  <2>6. c.on = cold[s][b].on /\ c.before = cold[s][b].before /\ c.todo = cold[s][b].todo \ {id} /\ c.got = Append(cold[s][b].got, t)
    BY <2>2
  <2> HIDE DEF c
  <2>7. c.got = cold[s][b].got \o <<t>> /\ <<t>> \in Seq(Table)
    BY <2>2, <2>4, <2>6
  <2>8. Findable(c.got) = Findable(cold[s][b].got) \cup DOMAIN t
    BY <2>2, <2>4, <2>7, ConcatFinds, OneTableFinds, Zenon
  <2>9. BuildCovers(s, b)
    BY Zenon DEF OffersInv
  <2>10. \A o \in c.before \ Empty : o \in loose \cup Findable(c.got) \/ \E x \in c.todo : o \in DOMAIN x
    BY <2>5, <2>6, <2>8, <2>9, Zenon DEF BuildCovers
  <2>11. \A o \in acked : (cold[s][b].on => o \in cold[s][b].before) => (c.on => o \in c.before)
    BY <2>6, Zenon
  <2> QED
    BY <1>1, <2>1, <2>10, <2>11, ColdReads
<1> QED
  BY <1>2, <1>3, <1>4, Zenon

LEMMA PublishReads ==
    ASSUME IndexInv, HeldInv, OffersInv, ReadInv, NEW s \in Storer, NEW b \in Builder, PublishBuild(s, b)
    PROVE  OffersInv' /\ ReadInv'
<1> DEFINE got == cold[s][b].got
           before == cold[s][b].before
           pub == Published(store[s], got, before)
           ix == IF store[s].built THEN store[s] ELSE pub
<1>1. /\ store' = [store EXCEPT ![s] = ix] /\ cold' = [cold EXCEPT ![s] = [@ EXCEPT ![b] = NoCold]]
      /\ cold[s][b].on /\ cold[s][b].todo = {} /\ UNCHANGED <<bins, loose, jobs, reading, acked>>
  BY Zenon DEF PublishBuild
<1>2. \A o \in before \ Empty : o \in loose \cup Findable(got)
  BY <1>1, Zenon DEF OffersInv, BuildCovers
<1>3. Sound(store[s]) /\ got \in Seq(Table)
  BY Zenon DEF IndexInv
<1> HIDE DEF got, pub
<1>4. store'[s] = ix /\ \A t \in Storer \ {s} : store'[t] = store[t]
  <2> HIDE DEF ix
  <2> QED
    BY <1>1, OtherIndexes
<1>5. Growing /\ \A d \in Builder : BuildCovers(s, d)'
  <2>1. \A o \in NoCold.before \ Empty : o \in loose \cup Findable(NoCold.got) \/ \E id \in NoCold.todo : o \in DOMAIN id
    BY DEF NoCold
  <2> QED
    BY <1>1, <2>1, BuildsCover
<1>6. /\ \A t \in Storer \ {s} : cold'[t] = cold[t]
      /\ cold'[s][b] = NoCold /\ \A d \in Builder \ {b} : cold'[s][d] = cold[s][d]
  BY <1>1, BuildReads
<1>7. ASSUME store'[s].err = "none" PROVE Offers(s)' /\ ReadGood(s)'
  <2>1. store[s].err = "none"
    BY <1>7, PublishHeld, Zenon DEF Grows
  <2>2. Offers(s) /\ ReadGood(s)
    BY <2>1, Zenon DEF OffersInv, ReadInv
  <2>3. /\ Findable(pub.tables) = Findable(got) \cup Findable(store[s].tables) /\ pub.built
        /\ pub.local = store[s].local /\ pub.pending = store[s].pending /\ pub.seen = before
    BY <1>3, <2>1, PublishFinds, Zenon DEF pub
  <2>4. /\ store'[s].local = store[s].local /\ store'[s].pending = store[s].pending
        /\ store[s].built => store'[s] = store[s]
        /\ ~store[s].built => store'[s] = pub
    BY <1>4, <2>3, Zenon
  <2>5. /\ Find(s) \subseteq Find(s)' /\ (~store[s].built => Findable(got) \subseteq Find(s)')
        /\ store'[s].seen \ Empty \subseteq loose \cup Find(s)'
    <3>1. Find(s)' = Findable(store'[s].tables)
      BY Zenon DEF Find, Findable, Found, Holders
    <3>2. CASE store[s].built
      BY <2>2, <2>4, <3>1, <3>2, Zenon DEF Find, Offers
    <3>3. CASE ~store[s].built
      BY <1>2, <2>3, <2>4, <3>1, <3>3, Zenon DEF Find
    <3> QED
      BY <3>2, <3>3, Zenon
  <2>6. OverlayNames(s)'
    <3>1. ASSUME NEW x \in DOMAIN store[s].pending
          PROVE  /\ store[s].pending[x] \in DOMAIN jobs[s]
                 /\ jobs[s][store[s].pending[x]].kind = "loose" /\ jobs[s][store[s].pending[x]].obj = x
      BY <2>2, <3>1, Zenon DEF Offers, OverlayNames
    <3>2. jobs' = jobs /\ store'[s].pending = store[s].pending
      BY <1>1, <2>4, Zenon
    <3> QED
      BY <3>1, <3>2, Zenon DEF OverlayNames
  <2>7. ASSUME NEW k \in DOMAIN jobs'[s] PROVE OffersJob(s, k)'
    <3>1. OffersJob(s, k) /\ jobs'[s][k] = jobs[s][k]
      BY <1>1, <2>2, <2>7, Zenon DEF Offers
    <3> QED
      BY <1>1, <2>4, <2>5, <3>1, Zenon DEF OffersJob
  <2>8. Offers(s)'
    BY <1>1, <2>5, <2>6, <2>7, Zenon DEF Offers
  <2>9. ASSUME NEW o, NEW delta, o \notin Empty, HopedAt(s, o, delta) PROVE HopedAt(s, o, delta)'
    <3>1. CASE o \in loose \cup Find(s) \/ (delta /\ o \in DOMAIN store[s].pending)
      BY <1>1, <2>4, <2>5, <3>1, Zenon DEF HopedAt
    <3>2. CASE ~store[s].built /\ o \in acked /\ \A d \in Builder : cold[s][d].on => o \in cold[s][d].before
      <4>1. o \in loose \cup Findable(got)
        BY <1>1, <1>2, <2>9, <3>2, Zenon
      <4> QED
        BY <1>1, <2>5, <3>2, <4>1, Zenon DEF HopedAt
    <3> QED
      BY <2>9, <3>1, <3>2, Zenon DEF HopedAt
  <2>10. Sealed(s)' = Sealed(s)
    BY <1>1, Zenon DEF Sealed, JobsOf
  <2>11. \A k \in DOMAIN jobs[s] : /\ k \in DOMAIN jobs'[s] /\ jobs'[s][k].kind = jobs[s][k].kind
                                   /\ jobs'[s][k].obj = jobs[s][k].obj
    BY <1>1, Zenon
  <2>12. ReadGood(s)'
    BY <1>1, <1>5, <2>2, <2>5, <2>9, <2>10, <2>11, ReadKept, Zenon
  <2> QED
    BY <2>8, <2>12, Zenon
<1>8. DOMAIN reading' = Storer
  BY <1>1, Zenon DEF ReadInv
<1> QED
  BY <1>1, <1>4, <1>5, <1>6, <1>7, <1>8, OneStep, Zenon
-----------------------------------------------------------------------------
(* What a step of a read r that ends in n must give: a read as ReadGood says,
   or an end that is no miss of what is sought, nor damage but for the links. *)
GoesOn(s, n) == Ended(n) \/ (ReadShape(n) /\ ReadAt(s, n))
StepGood(s, r, n) ==
    /\ GoesOn(s, n)
    /\ Sought(r) => n.stage # "missing"
    /\ n.stage = "bad" => r.links >= MaxLinks \/ SelfBased(r.at)

LEMMA ReadGoes ==
    ASSUME OffersInv, ReadInv, NEW s \in Storer, NEW n, Read(s, n), UNCHANGED <<bins, loose, store, jobs, cold, acked>>,
           store[s].err = "none" => GoesOn(s, n)
    PROVE  OffersInv' /\ ReadInv' /\ reading'[s].stage = n.stage /\ \A t \in Storer \ {s} : reading'[t] = reading[t]
<1> DEFINE over == [NoRead EXCEPT !.stage = n.stage, !.due = n.due]
           x == IF Ended(n) THEN over ELSE n
<1>1. over.stage = n.stage /\ DOMAIN over = DOMAIN NoRead /\ over.links = 0
  BY DEF NoRead
<1>2. Ended(n) => ReadShape(over) /\ ReadAt(s, over)
  <2>1. Ended(n) => over.stage \notin {"pending", "staged", "fetch", "lookup", "loose"} \cup InHand
    BY <1>1 DEF Ended, InHand
  <2>2. over.links \in Nat /\ ~(over.links > 0)
    BY <1>1
  <2> HIDE DEF over
  <2> QED
    BY <1>1, <2>1, <2>2, Zenon DEF ReadShape, ReadAt
<1> HIDE DEF over
<1>3. /\ reading'[s] = x /\ DOMAIN reading' = Storer
      /\ \A t \in Storer \ {s} : reading'[t] = reading[t]
  BY Zenon DEF Read, over, ReadInv
<1>4. x.stage = n.stage /\ (store[s].err = "none" => ReadShape(x) /\ ReadAt(s, x))
  BY <1>1, <1>2, Zenon DEF GoesOn
<1> HIDE DEF x
<1>5. Growing /\ Calm(s)
  BY SameIsCalm, Zenon DEF Growing
<1>6. ASSUME store'[s].err = "none" PROVE Offers(s)' /\ ReadGood(s)'
  <2>1. Offers(s) /\ ReadShape(x) /\ ReadAt(s, x)
    BY <1>4, <1>6, Zenon DEF OffersInv
  <2>2. Offers(s)'
    BY <1>5, <2>1, CalmOffers, Zenon
  <2>3. Find(s)' = Find(s) /\ Kept(s)' = Kept(s)
    BY Zenon DEF Find, Findable, Found, Holders, Kept, Sealed, JobsOf
  <2>4. ASSUME NEW o, NEW delta, HopedAt(s, o, delta) PROVE HopedAt(s, o, delta)'
    BY <2>3, <2>4, Zenon DEF HopedAt
  <2>5. /\ x.stage = "pending" => x.path \in DOMAIN jobs'[s] /\ jobs'[s][x.path].kind = "loose" /\ jobs'[s][x.path].obj = x.at
        /\ x.stage = "staged" => x.pack \in Kept(s)'
        /\ x.stage = "fetch" => x.pack \in bins'
    BY <2>1, <2>3, Zenon DEF ReadAt
  <2>6. /\ x.stage \in InHand => x.base \in Find(s)' \cup {Whole} /\ (x.base = x.at => SelfBased(x.at))
        /\ x.links > 0 /\ x.stage = "lookup" => x.at \in Find(s)'
        /\ Sought(x) /\ x.stage = "loose" => x.at \in loose'
    BY <2>1, <2>3, Zenon DEF ReadAt
  <2>7. Sought(x) /\ x.links = 0 /\ x.stage = "lookup" => HopedAt(s, reading[s].at, reading[s].kind = "delta")'
    <3>1. Sought(x) /\ x.links = 0 /\ x.stage = "lookup" => HopedAt(s, x.at, x.kind = "delta")
      BY <2>1, Zenon DEF ReadAt
    <3>2. HopedAt(s, x.at, x.kind = "delta") => HopedAt(s, reading[s].at, reading[s].kind = "delta")'
      BY <1>3, <2>4, Zenon
    <3> QED
      BY <3>1, <3>2, Zenon
  <2>8. ReadShape(reading[s])'
    BY <1>3, <2>1, Zenon DEF ReadShape
  <2>9. ReadAt(s, reading[s])'
    BY <1>3, <2>5, <2>6, <2>7, Zenon DEF ReadAt, Sought
  <2> QED
    BY <2>2, <2>8, <2>9, Zenon DEF ReadGood
<1>7. \A b \in Builder : BuildCovers(s, b)'
  BY <1>5, SameBuild, Zenon DEF OffersInv
<1>8. OffersInv' /\ ReadInv'
  BY <1>3, <1>5, <1>6, <1>7, OneStep, Zenon
<1> QED
  BY <1>3, <1>4, <1>8, Zenon

(* An object that must be there is where a read of it gets to. *)
LEMMA DueHoped ==
    ASSUME IndexInv, NEW s \in Storer, Offers(s), NEW o \in Due(s), o \notin Empty,
           NEW delta, delta \/ o \notin DOMAIN store[s].pending
    PROVE  HopedAt(s, o, delta)
<1>1. CASE o \in Own(s)
  <2>1. PICK i \in DOMAIN jobs[s] : o \in Carried(jobs[s][i])
    BY <1>1, Zenon DEF Own
  <2>2. OffersJob(s, i)
    BY Zenon DEF Offers
  <2>3. CASE jobs[s][i].kind = "pack"
    BY <2>1, <2>2, <2>3, Zenon DEF Carried, OffersJob, HopedAt
  <2>4. CASE jobs[s][i].kind # "pack"
    <3>1. o = jobs[s][i].obj
      BY <2>1, <2>4, Zenon DEF Carried
    <3>2. jobs[s][i].kind = "loose" => o \in loose \cup DOMAIN store[s].pending
      BY <2>2, <3>1, Zenon DEF OffersJob
    <3>3. jobs[s][i] \in UploadJob
      BY DEF IndexInv
    <3>4. jobs[s][i].kind = "loose"
      BY <2>4, <3>3, Zenon DEF UploadJob
    <3> QED
      BY <3>2, <3>4, Zenon DEF HopedAt
  <2> QED
    BY <2>3, <2>4, Zenon
<1>2. CASE o \notin Own(s) /\ store[s].built
  BY <1>2, Zenon DEF Due, Offers, HopedAt
<1>3. CASE o \notin Own(s) /\ ~store[s].built
  BY <1>3, Zenon DEF Due, HopedAt
<1> QED
  BY <1>1, <1>2, <1>3, Zenon

(* The read of an object from the overlay on. *)
LEMMA ReadFromGood ==
    ASSUME NEW s \in Storer, OverlayNames(s), NEW r, DOMAIN r = DOMAIN NoRead, r.links = 0,
           Sought(r) /\ ~Pending(s, r.goal) => HopedAt(s, r.goal, r.kind = "delta")
    PROVE  GoesOn(s, ReadFrom(s, r, r.goal)) /\ ReadFrom(s, r, r.goal).stage \in {"pending", "lookup"}
<1> DEFINE n == ReadFrom(s, r, r.goal)
<1>1. CASE Pending(s, r.goal)
  <2>1. n = [r EXCEPT !.at = r.goal, !.stage = "pending", !.path = store[s].pending[r.goal]]
    BY <1>1, Zenon DEF ReadFrom
  <2>2. /\ DOMAIN n = DOMAIN NoRead /\ n.links = 0 /\ n.at = r.goal /\ n.goal = r.goal /\ n.stage = "pending"
        /\ n.path = store[s].pending[r.goal]
    BY <2>1 DEF NoRead
  <2> HIDE DEF n
  <2>3. n.stage \notin {"lookup", "loose"} \cup InHand /\ n.links \in Nat /\ ~(n.links > 0)
    BY <2>2 DEF InHand
  <2>4. n.path \in DOMAIN jobs[s] /\ jobs[s][n.path].kind = "loose" /\ jobs[s][n.path].obj = n.at
    BY <1>1, <2>2, Zenon DEF OverlayNames, Pending
  <2>5. n.stage # "staged" /\ n.stage # "fetch"
    BY <2>2
  <2>6. ReadShape(n)
    BY <2>2, <2>3, Zenon DEF ReadShape
  <2>7. ReadAt(s, n)
    BY <2>3, <2>4, <2>5, Zenon DEF ReadAt
  <2> QED
    BY <2>2, <2>6, <2>7, Zenon DEF GoesOn, n
<1>2. CASE ~Pending(s, r.goal)
  <2>1. n = [r EXCEPT !.at = r.goal, !.stage = "lookup"]
    BY <1>2, Zenon DEF ReadFrom
  <2>2. /\ DOMAIN n = DOMAIN NoRead /\ n.links = 0 /\ n.at = r.goal /\ n.goal = r.goal /\ n.stage = "lookup"
        /\ n.kind = r.kind /\ n.due = r.due
    BY <2>1 DEF NoRead
  <2> HIDE DEF n
  <2>3. n.stage \notin {"pending", "staged", "fetch", "loose"} \cup InHand /\ n.links \in Nat /\ ~(n.links > 0)
    BY <2>2 DEF InHand
  <2>4. Sought(n) => HopedAt(s, n.at, n.kind = "delta")
    BY <1>2, <2>2, Zenon DEF Sought
  <2>5. ReadShape(n)
    BY <2>2, <2>3, Zenon DEF ReadShape
  <2>6. ReadAt(s, n)
    BY <2>3, <2>4, Zenon DEF ReadAt
  <2> QED
    BY <2>2, <2>5, <2>6, Zenon DEF GoesOn, n
<1> QED
  BY <1>1, <1>2, Zenon

LEMMA WantedIs ==
    ASSUME NEW s, NEW o, NEW kind
    PROVE  LET w == Wanted(s, o, kind)
           IN  DOMAIN w = DOMAIN NoRead /\ w.links = 0 /\ w.goal = o /\ w.kind = kind /\ w.due = (o \in Due(s))
  BY DEF Wanted, NoRead

LEMMA StartGood ==
    ASSUME IndexInv, OffersInv, NEW s \in Storer, StartRead(s)
    PROVE  \E n : Read(s, n) /\ (store[s].err = "none" => StepGood(s, reading[s], n))
<1>1. PICK o \in Obj : EncodedObject(s, o) \/ HeadInfo(s, o) \/ DeltaObject(s, o)
  BY Zenon DEF StartRead
<1>2. ASSUME NEW kind, NEW w, w = Wanted(s, o, kind)
      PROVE  store[s].err = "none" => GoesOn(s, ReadFrom(s, w, o)) /\ ReadFrom(s, w, o).stage \in {"pending", "lookup"}
  <2> SUFFICES ASSUME store[s].err = "none"
               PROVE  GoesOn(s, ReadFrom(s, w, o)) /\ ReadFrom(s, w, o).stage \in {"pending", "lookup"}
    OBVIOUS
  <2>1. Offers(s)
    BY Zenon DEF OffersInv
  <2>2. DOMAIN w = DOMAIN NoRead /\ w.links = 0 /\ w.goal = o /\ w.kind = kind /\ w.due = (o \in Due(s))
    BY <1>2, WantedIs
  <2>3. Sought(w) /\ ~Pending(s, w.goal) => HopedAt(s, w.goal, w.kind = "delta")
    <3> SUFFICES ASSUME Sought(w), ~Pending(s, w.goal) PROVE HopedAt(s, w.goal, w.kind = "delta")
      OBVIOUS
    <3>1. o \in Due(s) /\ o \notin Empty /\ o \notin DOMAIN store[s].pending
      BY <2>2, Zenon DEF Sought, Pending
    <3>2. ASSUME NEW delta PROVE HopedAt(s, o, delta)
      BY <2>1, <3>1, DueHoped, Zenon
    <3> QED
      BY <2>2, <3>2, Zenon
  <2>4. OverlayNames(s)
    BY <2>1, Zenon DEF Offers
  <2> QED
    BY <2>2, <2>3, <2>4, ReadFromGood, Zenon
<1>3. ASSUME NEW n, Read(s, n), store[s].err = "none" => GoesOn(s, n) /\ n.stage \in {"pending", "lookup", "ok"}
      PROVE  \E m : Read(s, m) /\ (store[s].err = "none" => StepGood(s, reading[s], m))
  <2>1. store[s].err = "none" => n.stage # "missing" /\ n.stage # "bad"
    BY <1>3
  <2> QED
    BY <1>3, <2>1, Zenon DEF StepGood
<1>4. CASE EncodedObject(s, o)
  <2> DEFINE n == ReadFrom(s, Wanted(s, o, "object"), o)
  <2>1. Read(s, n)
    BY <1>4, Zenon DEF EncodedObject
  <2>2. store[s].err = "none" => GoesOn(s, n) /\ n.stage \in {"pending", "lookup", "ok"}
    BY <1>2, Zenon
  <2> HIDE DEF n
  <2> QED
    BY <1>3, <2>1, <2>2, Zenon
<1>5. CASE HeadInfo(s, o)
  <2> DEFINE n == ReadFrom(s, Wanted(s, o, "size"), o)
             m == [Wanted(s, o, "size") EXCEPT !.stage = "ok"]
  <2>1. Read(s, m) \/ Read(s, n)
    BY <1>5, Zenon DEF HeadInfo
  <2>2. store[s].err = "none" => GoesOn(s, n) /\ n.stage \in {"pending", "lookup", "ok"}
    BY <1>2, Zenon
  <2>3. m.stage = "ok"
    BY DEF Wanted, NoRead
  <2> HIDE DEF n, m
  <2>4. GoesOn(s, m) /\ m.stage \in {"pending", "lookup", "ok"}
    BY <2>3, Zenon DEF GoesOn, Ended
  <2> QED
    BY <1>3, <2>1, <2>2, <2>4, Zenon
<1>6. CASE DeltaObject(s, o)
  <2> DEFINE w == Wanted(s, o, "delta")
             n == [w EXCEPT !.at = o, !.stage = "lookup"]
  <2>1. Read(s, n)
    BY <1>6, Zenon DEF DeltaObject
  <2>2. DOMAIN w = DOMAIN NoRead /\ w.links = 0 /\ w.goal = o /\ w.kind = "delta" /\ w.due = (o \in Due(s))
    BY WantedIs, Zenon
  <2> HIDE DEF w
  <2>3. /\ DOMAIN n = DOMAIN NoRead /\ n.links = 0 /\ n.at = o /\ n.goal = o /\ n.stage = "lookup"
        /\ n.kind = "delta" /\ n.due = (o \in Due(s))
    BY <2>2 DEF NoRead
  <2> HIDE DEF n
  <2>4. n.stage \notin {"pending", "staged", "fetch", "loose"} \cup InHand /\ n.links \in Nat /\ ~(n.links > 0)
    BY <2>3 DEF InHand
  <2>5. ASSUME store[s].err = "none", Sought(n) PROVE HopedAt(s, n.at, n.kind = "delta")
    BY <2>3, <2>5, DueHoped, Zenon DEF Sought, OffersInv
  <2>6. ReadShape(n)
    BY <2>3, <2>4, Zenon DEF ReadShape
  <2>7. store[s].err = "none" => ReadAt(s, n)
    BY <2>4, <2>5, Zenon DEF ReadAt
  <2>8. store[s].err = "none" => GoesOn(s, n) /\ n.stage \in {"pending", "lookup", "ok"}
    BY <2>3, <2>6, <2>7, Zenon DEF GoesOn
  <2> QED
    BY <1>3, <2>1, <2>8, Zenon
<1> QED
  BY <1>1, <1>4, <1>5, <1>6, Zenon

(* decodePending: a staged file that is gone is in the bucket. *)
LEMMA OpenPendingGood ==
    ASSUME AckInv, NEW s \in Storer, store[s].err = "none", ReadGood(s), NEW n,
           reading[s].stage = "pending",
           n = [reading[s] EXCEPT !.path = 0,
                  !.stage = IF OnDisk(s, reading[s].path) THEN "ok"
                            ELSE IF reading[s].links = 0 THEN "lookup" ELSE "loose"]
    PROVE  StepGood(s, reading[s], n)
<1> DEFINE r == reading[s]
<1>1. ReadShape(r) /\ ReadAt(s, r)
  BY Zenon DEF ReadGood
<1>2. DOMAIN r = DOMAIN NoRead /\ r.links = 0 /\ r.at = r.goal
  BY <1>1 DEF ReadShape, InHand
<1>3. r.path \in DOMAIN jobs[s] /\ jobs[s][r.path].kind = "loose" /\ jobs[s][r.path].obj = r.at
  BY <1>1, Zenon DEF ReadAt
<1>4. ~OnDisk(s, r.path) => r.at \in loose
  <2>1. JobLands(jobs[s][r.path], store[s].err, DOMAIN cues, loose) /\ "loose" # "pack"
    BY <1>3 DEF AckInv, JobsLand
  <2> QED
    BY <1>3, <2>1, Zenon DEF OnDisk, JobLands, Landed
<1>5. /\ DOMAIN n = DOMAIN NoRead /\ n.links = 0 /\ n.at = r.at /\ n.goal = r.goal
      /\ n.stage = IF OnDisk(s, r.path) THEN "ok" ELSE "lookup"
  BY <1>2 DEF NoRead
<1>6. CASE OnDisk(s, r.path)
  <2>1. n.stage = "ok" /\ "ok" # "missing" /\ "ok" # "bad"
    BY <1>5, <1>6
  <2> QED
    BY <2>1, Zenon DEF StepGood, GoesOn, Ended
<1>7. CASE ~OnDisk(s, r.path)
  <2>1. /\ n.stage = "lookup" /\ n.stage \notin {"pending", "staged", "fetch", "loose", "missing", "bad"} \cup InHand
        /\ n.links \in Nat /\ ~(n.links > 0)
    BY <1>5, <1>7 DEF InHand
  <2>2. HopedAt(s, n.at, n.kind = "delta")
    BY <1>4, <1>5, <1>7, Zenon DEF HopedAt
  <2>3. ReadShape(n)
    BY <1>2, <1>5, <2>1, Zenon DEF ReadShape
  <2>4. ReadAt(s, n)
    BY <2>1, <2>2, Zenon DEF ReadAt
  <2> QED
    BY <2>1, <2>3, <2>4, Zenon DEF StepGood, GoesOn
<1> QED
  BY <1>6, <1>7, Zenon

(* A pack in the bucket, or of the Storer's own and staged still. *)
LEMMA OpenStagedGood ==
    ASSUME HeldInv, NEW s \in Storer, store[s].err = "none", ReadGood(s), NEW n, NEW stage, n = [reading[s] EXCEPT !.stage = stage],
           \/ reading[s].stage = "staged" /\ stage = IF BinOnDisk(s, reading[s].pack) THEN "framed" ELSE "fetch"
           \/ reading[s].stage = "fetch" /\ stage = IF reading[s].pack \in bins THEN "framed" ELSE Absence(reading[s])
    PROVE  StepGood(s, reading[s], n)
<1> DEFINE r == reading[s]
<1>1. ReadShape(r) /\ ReadAt(s, r)
  BY Zenon DEF ReadGood
<1>2. stage \in {"framed", "fetch"} /\ (stage = "fetch" => r.pack \in bins)
  <2>1. r.stage = "staged" => r.pack \in bins \/ BinOnDisk(s, r.pack)
    BY <1>1, KeptReadable, Zenon DEF ReadAt
  <2>2. r.stage = "fetch" => r.pack \in bins
    BY <1>1, Zenon DEF ReadAt
  <2>3. "framed" # "fetch" /\ "staged" # "fetch"
    OBVIOUS
  <2> HIDE DEF r
  <2> QED
    BY <2>1, <2>2, <2>3, Zenon DEF r
<1>3. r.stage \in InHand /\ DOMAIN r = DOMAIN NoRead
  BY <1>1 DEF InHand, ReadShape
<1>4. /\ DOMAIN n = DOMAIN NoRead /\ n.stage = stage /\ n.links = r.links /\ n.at = r.at /\ n.goal = r.goal
      /\ n.base = r.base /\ n.pack = r.pack /\ n.kind = r.kind
  BY <1>3 DEF NoRead
<1>5. n.stage \in InHand /\ n.stage \notin {"pending", "staged", "loose", "lookup", "missing", "bad"}
  BY <1>2, <1>4 DEF InHand
<1>6. ReadShape(n)
  BY <1>1, <1>3, <1>4, <1>5, Zenon DEF ReadShape
<1>7. ReadAt(s, n)
  BY <1>1, <1>2, <1>3, <1>4, <1>5, Zenon DEF ReadAt
<1> QED
  BY <1>5, <1>6, <1>7, Zenon DEF StepGood, GoesOn

(* framePacked and deltaBase: on to a base that the index has. *)
LEMMA FrameGood ==
    ASSUME NEW s \in Storer, ReadGood(s), NEW n, reading[s].stage = "framed",
           n = IF reading[s].base = Whole \/ reading[s].kind = "delta" THEN [reading[s] EXCEPT !.stage = "ok"]
               ELSE IF reading[s].links >= MaxLinks \/ reading[s].base = reading[s].at THEN [reading[s] EXCEPT !.stage = "bad"]
               ELSE [reading[s] EXCEPT !.at = reading[s].base, !.links = @ + 1, !.stage = "lookup"]
    PROVE  StepGood(s, reading[s], n)
<1> DEFINE r == reading[s]
<1>1. ReadShape(r) /\ ReadAt(s, r)
  BY Zenon DEF ReadGood
<1>2. DOMAIN r = DOMAIN NoRead /\ r.links \in Nat /\ r.base \in Find(s) \cup {Whole} /\ (r.base = r.at => SelfBased(r.at))
  BY <1>1 DEF ReadShape, ReadAt, InHand
<1>3. CASE r.base = Whole \/ r.kind = "delta"
  <2>1. n = [r EXCEPT !.stage = "ok"]
    BY <1>3, Zenon
  <2>2. n.stage = "ok" /\ "ok" # "missing" /\ "ok" # "bad"
    BY <1>2, <2>1 DEF NoRead
  <2> QED
    BY <2>2, Zenon DEF StepGood, GoesOn, Ended
<1>4. CASE ~(r.base = Whole \/ r.kind = "delta") /\ (r.links >= MaxLinks \/ r.base = r.at)
  <2>1. n = [r EXCEPT !.stage = "bad"]
    BY <1>4, Zenon
  <2>2. n.stage = "bad" /\ "bad" # "missing"
    BY <1>2, <2>1 DEF NoRead
  <2> QED
    BY <1>2, <1>4, <2>2, Zenon DEF StepGood, GoesOn, Ended
<1>5. CASE ~(r.base = Whole \/ r.kind = "delta") /\ ~(r.links >= MaxLinks \/ r.base = r.at)
  <2>1. n = [r EXCEPT !.at = r.base, !.links = @ + 1, !.stage = "lookup"]
    BY <1>2, <1>5, Zenon
  <2>2. /\ DOMAIN n = DOMAIN NoRead /\ n.links = r.links + 1 /\ n.at = r.base /\ n.stage = "lookup" /\ n.kind = r.kind
    BY <1>2, <2>1 DEF NoRead
  <2>3. /\ n.links \in Nat /\ n.links # 0 /\ n.kind # "delta" /\ n.at \in Find(s)
        /\ n.stage \notin {"pending", "staged", "fetch", "loose", "missing", "bad"} \cup InHand
    BY <1>2, <1>5, <2>2 DEF InHand
  <2>4. ReadShape(n)
    BY <2>2, <2>3, Zenon DEF ReadShape
  <2>5. ReadAt(s, n)
    BY <2>3, Zenon DEF ReadAt
  <2> QED
    BY <2>3, <2>4, <2>5, Zenon DEF StepGood, GoesOn
<1> QED
  BY <1>3, <1>4, <1>5, Zenon

LEMMA GetLooseGood ==
    ASSUME NEW s \in Storer, ReadGood(s), NEW n, reading[s].stage = "loose",
           n = [reading[s] EXCEPT !.stage = IF reading[s].at \in loose THEN "ok" ELSE Absence(reading[s])]
    PROVE  StepGood(s, reading[s], n)
<1> DEFINE r == reading[s]
<1>1. ReadShape(r) /\ ReadAt(s, r)
  BY Zenon DEF ReadGood
<1>2. DOMAIN r = DOMAIN NoRead /\ r.links = 0 /\ Absence(r) = "missing"
  BY <1>1 DEF ReadShape, InHand, Absence
<1>3. Sought(r) => r.at \in loose
  BY <1>1, Zenon DEF ReadAt
<1>4. n.stage = IF r.at \in loose THEN "ok" ELSE "missing"
  BY <1>2 DEF NoRead
<1>5. n.stage \in {"ok", "missing"} /\ (Sought(r) => n.stage # "missing") /\ n.stage # "bad"
  BY <1>3, <1>4
<1> QED
  BY <1>5, Zenon DEF StepGood, GoesOn, Ended

(* packLookup: a record leads to a .bin and to a base the index has; what has
   none is loose, or in the overlay. *)
LEMMA LookUpFinds ==
    ASSUME IndexInv, HeldInv, NEW s \in Storer, store[s].err = "none", Offers(s), NEW o,
           Found(store[s].tables, store[s].dead, o), NEW e, e = lookup(store[s].tables, store[s].dead, o)
    PROVE  /\ o \in Find(s) /\ e.base \in Find(s) \cup {Whole} /\ (e.base = o => SelfBased(o))
           /\ e.pack \in Kept(s) /\ e.pack \in store[s].local \cup bins
<1> DEFINE tables == store[s].tables
<1>1. store[s].dead = {} /\ tables \in Seq(Table) /\ Within(tables, Kept(s))
  BY Zenon DEF IndexInv, Sound, HeldInv, TablesHeld
<1>2. Found(tables, {}, o) /\ e = lookup(tables, {}, o)
  BY <1>1, Zenon
<1> HIDE DEF tables
<1>3. PICK i \in DOMAIN tables : o \in DOMAIN tables[i] /\ lookup(tables, {}, o) = tables[i][o]
  BY <1>1, <1>2, Newest, Zenon
<1>4. o \in Findable(tables)
  BY <1>1, <1>3, HolderFinds, Zenon
<1>5. e.base \in Findable(tables) \cup {Whole}
  BY <1>1, <1>2, <1>4, BasesFound, Zenon
<1>6. ASSUME e.base = o PROVE SelfBased(o)
  <2> DEFINE S == {o}
  <2>1. S \in SUBSET Findable(tables) /\ S # {} /\ \A p \in S : lookup(tables, {}, p).base \in S
    BY <1>2, <1>4, <1>6, Zenon
  <2>2. \A T \in SUBSET S : T # {} => T = S
    BY Zenon
  <2> HIDE DEF S
  <2>3. PICK T \in SUBSET S, m \in DOMAIN tables, c \in AllSealed : CircleOf(tables[m], T, c)
    BY <1>1, <2>1, LookupsEnd, Zenon
  <2>4. T # {} /\ T \subseteq DOMAIN c /\ \A p \in T : c[p] \in T
    BY <2>3, Zenon DEF CircleOf
  <2>5. T = S
    BY <2>2, <2>4, Zenon
  <2>6. o \in DOMAIN c /\ c[o] = o
    BY <2>4, <2>5 DEF S
  <2> QED
    BY <2>6, Zenon DEF SelfBased
<1>7. e.pack \in Kept(s)
  BY <1>1, <1>2, <1>3, Zenon DEF Within
<1>8. e.pack \in store[s].local \cup bins
  <2>1. ASSUME e.pack \in Sealed(s) PROVE e.pack \in store[s].local \cup bins
    <3>1. PICK k \in DOMAIN jobs[s] : jobs[s][k].kind = "pack" /\ jobs[s][k].id = e.pack
      BY <2>1, Zenon DEF Sealed, JobsOf
    <3> QED
      BY <3>1, Zenon DEF Offers, OffersJob
  <2> QED
    BY <1>7, <2>1, Zenon DEF Kept
<1> QED
  BY <1>4, <1>5, <1>6, <1>7, <1>8, Zenon DEF Find, tables

LEMMA LookUpGood ==
    ASSUME IndexInv, HeldInv, NEW s \in Storer, store[s].err = "none", Offers(s), ReadGood(s), LookUp(s)
    PROVE  \E n : Read(s, n) /\ StepGood(s, reading[s], n)
<1> DEFINE r == reading[s]
<1>1. ReadShape(r) /\ ReadAt(s, r) /\ r.stage = "lookup" /\ store[s].built
  BY Zenon DEF ReadGood, LookUp
<1>2. DOMAIN r = DOMAIN NoRead /\ r.links \in Nat /\ (r.links > 0 \/ (r.links = 0 /\ r.at = r.goal))
  BY <1>1 DEF ReadShape
<1>3. ASSUME r.kind = "delta", Found(store[s].tables, store[s].dead, r.at) => r.at \in Find(s),
             ~Found(store[s].tables, store[s].dead, r.at) => r.at \notin Find(s)
      PROVE  StepGood(s, r, ReadFrom(s, [r EXCEPT !.kind = "object"], r.at))
  <2> DEFINE w == [r EXCEPT !.kind = "object"]
             n == ReadFrom(s, w, r.at)
  <2>1. r.links = 0 /\ r.at = r.goal
    BY <1>1, <1>2, <1>3, Zenon DEF ReadShape
  <2>2. DOMAIN w = DOMAIN NoRead /\ w.links = 0 /\ w.goal = r.at /\ w.due = r.due /\ w.kind = "object" /\ "object" # "delta"
    BY <1>2, <2>1 DEF NoRead
  <2> HIDE DEF w
  <2>3. Sought(w) /\ ~Pending(s, w.goal) => HopedAt(s, w.goal, w.kind = "delta")
    <3>1. Sought(w) => Sought(r)
      BY <2>1, <2>2, Zenon DEF Sought
    <3>2. Sought(r) => HopedAt(s, r.at, TRUE)
      BY <1>1, <1>3, <2>1, Zenon DEF ReadAt
    <3>3. HopedAt(s, r.at, TRUE) /\ ~Pending(s, r.at) => r.at \in loose \cup Find(s)
      BY <1>1, Zenon DEF HopedAt, Pending
    <3> QED
      BY <2>2, <3>1, <3>2, <3>3, Zenon DEF HopedAt
  <2>4. OverlayNames(s)
    BY Zenon DEF Offers
  <2>5. GoesOn(s, n) /\ n.stage \in {"pending", "lookup"}
    BY <2>2, <2>3, <2>4, ReadFromGood, Zenon
  <2> HIDE DEF n
  <2>6. n.stage # "missing" /\ n.stage # "bad"
    BY <2>5
  <2> QED
    BY <2>5, <2>6, Zenon DEF StepGood, n, w
<1>4. CASE Found(store[s].tables, store[s].dead, r.at)
  <2> DEFINE e == lookup(store[s].tables, store[s].dead, r.at)
             stage == IF r.kind = "size" THEN "ok"
                      ELSE IF r.at \in Empty /\ e.base = Whole THEN "framed"
                      ELSE IF e.pack \in store[s].local THEN "staged" ELSE "fetch"
             n == [r EXCEPT !.pack = e.pack, !.base = e.base, !.stage = stage]
  <2>1. /\ r.at \in Find(s) /\ e.base \in Find(s) \cup {Whole} /\ (e.base = r.at => SelfBased(r.at))
        /\ e.pack \in Kept(s) /\ e.pack \in store[s].local \cup bins
    BY <1>4, LookUpFinds, Zenon
  <2>2. CASE r.kind = "delta" /\ e.base = Whole
    <3>1. Read(s, ReadFrom(s, [r EXCEPT !.kind = "object"], r.at))
      BY <1>4, <2>2, Zenon DEF LookUp
    <3> QED
      BY <1>3, <1>4, <2>1, <2>2, <3>1, Zenon
  <2>3. CASE ~(r.kind = "delta" /\ e.base = Whole)
    <3>1. Read(s, n)
      BY <1>4, <2>3, Zenon DEF LookUp
    <3> HIDE DEF e
    <3>2. stage \in {"ok"} \cup InHand /\ (stage = "fetch" => e.pack \in bins)
      BY <2>1 DEF InHand
    <3> HIDE DEF stage
    <3>3. /\ DOMAIN n = DOMAIN NoRead /\ n.pack = e.pack /\ n.base = e.base /\ n.stage = stage
          /\ n.links = r.links /\ n.at = r.at /\ n.goal = r.goal /\ n.kind = r.kind
      BY <1>2 DEF NoRead
    <3> HIDE DEF n
    <3>4. n.stage \notin {"pending", "lookup", "loose", "missing", "bad"}
      BY <3>2, <3>3 DEF InHand
    <3>5. CASE stage = "ok"
      BY <3>1, <3>3, <3>4, <3>5, Zenon DEF StepGood, GoesOn, Ended
    <3>6. CASE stage \in InHand
      <4>1. (r.links > 0 => r.kind # "delta") /\ (r.links = 0 => r.at = r.goal)
        BY <1>1, <1>2 DEF ReadShape
      <4>2. ReadShape(n)
        BY <1>2, <3>3, <3>4, <3>6, <4>1, Zenon DEF ReadShape
      <4>3. ReadAt(s, n)
        BY <2>1, <3>2, <3>3, <3>4, <3>6, Zenon DEF ReadAt
      <4> QED
        BY <3>1, <3>4, <4>2, <4>3, Zenon DEF StepGood, GoesOn
    <3> QED
      BY <3>2, <3>5, <3>6, Zenon
  <2> QED
    BY <2>2, <2>3, Zenon
<1>5. CASE ~Found(store[s].tables, store[s].dead, r.at)
  <2> DEFINE n == [r EXCEPT !.stage = "loose"]
  <2>1. r.at \notin Find(s)
    <3>1. store[s].dead = {}
      BY Zenon DEF IndexInv, Sound
    <3> QED
      BY <1>5, <3>1, Zenon DEF Find, Findable
  <2>2. ~(r.links > 0) /\ r.links = 0 /\ r.at = r.goal
    BY <1>1, <1>2, <2>1, Zenon DEF ReadAt
  <2>3. CASE r.kind = "delta"
    <3>1. Read(s, ReadFrom(s, [r EXCEPT !.kind = "object"], r.at))
      BY <1>5, <2>3, Zenon DEF LookUp
    <3> QED
      BY <1>3, <1>5, <2>1, <2>3, <3>1, Zenon
  <2>4. CASE r.kind # "delta"
    <3>1. Read(s, n)
      BY <1>5, <2>2, <2>4, Zenon DEF LookUp
    <3>2. /\ DOMAIN n = DOMAIN NoRead /\ n.stage = "loose"
          /\ n.links = 0 /\ n.at = r.at /\ n.goal = r.goal /\ n.kind = r.kind /\ n.due = r.due
      BY <1>2, <2>2 DEF NoRead
    <3> HIDE DEF n
    <3>3. n.stage \notin {"pending", "staged", "fetch", "lookup", "missing", "bad"} \cup InHand /\ n.links \in Nat /\ ~(n.links > 0)
      BY <3>2 DEF InHand
    <3>4. Sought(n) => n.at \in loose
      <4>1. Sought(n) => HopedAt(s, r.at, r.kind = "delta")
        BY <1>1, <2>2, <3>2, Zenon DEF ReadAt, Sought
      <4>2. HopedAt(s, r.at, r.kind = "delta") => r.at \in loose
        BY <1>1, <2>1, <2>4, Zenon DEF HopedAt
      <4> QED
        BY <3>2, <4>1, <4>2, Zenon
    <3>5. ReadShape(n)
      BY <2>2, <3>2, <3>3, Zenon DEF ReadShape
    <3>6. ReadAt(s, n)
      BY <3>2, <3>3, <3>4, Zenon DEF ReadAt
    <3> QED
      BY <3>1, <3>3, <3>5, <3>6, Zenon DEF StepGood, GoesOn
  <2> QED
    BY <2>3, <2>4, Zenon
<1> QED
  BY <1>4, <1>5, Zenon

LEMMA ReadStepGood ==
    ASSUME IndexInv, HeldInv, AckInv, OffersInv, ReadInv, NEW s \in Storer, ReadStep(s)
    PROVE  \E n : Read(s, n) /\ (store[s].err = "none" => StepGood(s, reading[s], n))
<1>1. store[s].err = "none" => Offers(s) /\ ReadGood(s)
  BY Zenon DEF OffersInv, ReadInv
<1>2. CASE StartRead(s)
  BY <1>2, StartGood, Zenon
<1>3. CASE OpenPending(s)
  <2> DEFINE n == [reading[s] EXCEPT !.path = 0,
                     !.stage = IF OnDisk(s, reading[s].path) THEN "ok"
                               ELSE IF reading[s].links = 0 THEN "lookup" ELSE "loose"]
  <2>1. reading[s].stage = "pending" /\ Read(s, n)
    BY <1>3, Zenon DEF OpenPending
  <2>2. store[s].err = "none" => StepGood(s, reading[s], n)
    BY <1>1, <2>1, OpenPendingGood
  <2> QED
    BY <2>1, <2>2, Zenon
<1>4. CASE LookUp(s)
  <2>1. CASE store[s].err = "none"
    BY <1>1, <1>4, <2>1, LookUpGood, Zenon
  <2>2. CASE store[s].err # "none"
    <3>1. \E n : Read(s, n)
      BY <1>4, Zenon DEF LookUp
    <3> QED
      BY <2>2, <3>1, Zenon
  <2> QED
    BY <2>1, <2>2, Zenon
<1>5. CASE OpenStaged(s)
  <2> DEFINE stage == IF BinOnDisk(s, reading[s].pack) THEN "framed" ELSE "fetch"
             n == [reading[s] EXCEPT !.stage = stage]
  <2>1. reading[s].stage = "staged" /\ Read(s, n)
    BY <1>5, Zenon DEF OpenStaged
  <2>2. store[s].err = "none" => StepGood(s, reading[s], n)
    BY <1>1, <2>1, OpenStagedGood
  <2> QED
    BY <2>1, <2>2, Zenon
<1>6. CASE FetchPayload(s)
  <2> DEFINE stage == IF reading[s].pack \in bins THEN "framed" ELSE Absence(reading[s])
             n == [reading[s] EXCEPT !.stage = stage]
  <2>1. reading[s].stage = "fetch" /\ Read(s, n)
    BY <1>6, Zenon DEF FetchPayload
  <2>2. store[s].err = "none" => StepGood(s, reading[s], n)
    BY <1>1, <2>1, OpenStagedGood
  <2> QED
    BY <2>1, <2>2, Zenon
<1>7. CASE FramePacked(s)
  <2> DEFINE r == reading[s]
             n == IF r.base = Whole \/ r.kind = "delta" THEN [r EXCEPT !.stage = "ok"]
                  ELSE IF r.links >= MaxLinks \/ r.base = r.at THEN [r EXCEPT !.stage = "bad"]
                  ELSE [r EXCEPT !.at = r.base, !.links = @ + 1, !.stage = "lookup"]
  <2>1. r.stage = "framed" /\ Read(s, n)
    BY <1>7, Zenon DEF FramePacked
  <2>2. store[s].err = "none" => StepGood(s, r, n)
    BY <1>1, <2>1, FrameGood
  <2> QED
    BY <2>1, <2>2, Zenon
<1>8. CASE GetLoose(s)
  <2> DEFINE n == [reading[s] EXCEPT !.stage = IF reading[s].at \in loose THEN "ok" ELSE Absence(reading[s])]
  <2>1. reading[s].stage = "loose" /\ Read(s, n)
    BY <1>8, Zenon DEF GetLoose
  <2>2. store[s].err = "none" => StepGood(s, reading[s], n)
    BY <1>1, <2>1, GetLooseGood
  <2> QED
    BY <2>1, <2>2, Zenon
<1> QED
  BY <1>2, <1>3, <1>4, <1>5, <1>6, <1>7, <1>8, Zenon DEF ReadStep

(* A read of a Storer none of whose uploads failed, whatever its uploads and its
   cold builds do meanwhile, never misses an object that the Storer wrote itself
   or that was flushed before the packs were listed (the empty objects aside,
   which no name tells apart), and takes nothing for damaged but a chain of
   more links than framePacked walks, and a delta that a container holds against
   the very object it makes. *)
ReadsSucceed ==
    \A s \in Storer :
        store[s].err = "none" /\ ~Ended(reading[s]) =>
            /\ Sought(reading[s]) => reading'[s].stage # "missing"
            /\ reading'[s].stage = "bad" => reading[s].links >= MaxLinks \/ SelfBased(reading[s].at)

LEMMA ReadsStep ==
    ASSUME IndexInv, HeldInv, AckInv, OffersInv, ReadInv, [ObjectStoreNext]_osVars
    PROVE  OffersInv' /\ ReadInv' /\ ReadsSucceed
<1>1. ASSUME UNCHANGED reading PROVE ReadsSucceed
  BY <1>1, Zenon DEF ReadsSucceed, Ended
<1>2. ASSUME UNCHANGED <<bins, loose, store, jobs, cold, reading, acked>> PROVE OffersInv' /\ ReadInv' /\ ReadsSucceed
  <2>1. Growing /\ \A t \in Storer : Calm(t)
    BY <1>2, SameIsCalm, Zenon DEF Growing
  <2>2. \A t \in Storer : store'[t].err = "none" => store[t].err = "none"
    BY <1>2, Zenon
  <2> QED
    BY <1>1, <1>2, <2>1, <2>2, CalmStep, Zenon
<1>3. CASE UNCHANGED osVars
  BY <1>2, <1>3, Zenon DEF osVars
<1>4. CASE \E p \in Plans : Arrive(p)
  BY <1>2, <1>4, Zenon DEF Arrive
<1>5. ASSUME NEW s \in Storer, NEW b \in plan[s].builders,
             \/ ListPacks(s, b) \/ FetchFails(s, b) \/ PublishBuild(s, b)
             \/ \E id \in cold[s][b].todo : FetchCue(s, b, id)
      PROVE  OffersInv' /\ ReadInv' /\ ReadsSucceed
  <2>1. b \in Builder
    BY DEF IndexInv
  <2>2. UNCHANGED reading
    BY <1>5, ZenonT(30) DEF ListPacks, FetchFails, FetchCue, PublishBuild
  <2> QED
    BY <1>1, <1>5, <2>1, <2>2, ListFetchReads, PublishReads, Zenon
<1>6. ASSUME NEW s \in Storer, NEW queued \in BOOLEAN, Seal(s, queued) \/ WriteLoose(s, queued)
      PROVE  OffersInv' /\ ReadInv' /\ ReadsSucceed
  <2>1. UNCHANGED reading
    BY <1>6, Zenon DEF Seal, WriteLoose
  <2> QED
    BY <1>1, <1>6, <2>1, SealReads, WriteLooseReads, Zenon
<1>7. ASSUME NEW s \in Storer, NEW i \in DOMAIN jobs[s], NEW landed \in BOOLEAN, NEW ok \in BOOLEAN,
             PutBin(s, i, landed, ok) \/ PutCue(s, i, landed, ok) \/ PutLoose(s, i, landed, ok)
      PROVE  OffersInv' /\ ReadInv' /\ ReadsSucceed
  <2>1. UNCHANGED reading
    BY <1>7, Zenon DEF PutBin, PutCue, PutLoose, Answered
  <2> QED
    BY <1>1, <1>7, <2>1, PutReads, Zenon
<1>8. ASSUME NEW s \in Storer, NEW i \in DOMAIN jobs[s], Unlist(s, i) \/ RemoveStaged(s, i)
      PROVE  OffersInv' /\ ReadInv' /\ ReadsSucceed
  <2>1. UNCHANGED reading
    BY <1>8, Zenon DEF Unlist, RemoveStaged
  <2> QED
    BY <1>1, <1>8, <2>1, UnlistReads, RemoveStagedReads, Zenon
<1>9. ASSUME NEW s \in Storer, FlushUploads(s) PROVE OffersInv' /\ ReadInv' /\ ReadsSucceed
  <2>1. UNCHANGED reading
    BY <1>9, Zenon DEF FlushUploads
  <2> QED
    BY <1>1, <1>9, <2>1, FlushReads, Zenon
<1>10. ASSUME NEW s \in Storer, ReadStep(s) PROVE OffersInv' /\ ReadInv' /\ ReadsSucceed
  <2>1. PICK n : Read(s, n) /\ (store[s].err = "none" => StepGood(s, reading[s], n))
    BY <1>10, ReadStepGood, Zenon
  <2>2. UNCHANGED <<bins, loose, store, jobs, cold, acked>>
    BY <1>10, Zenon DEF ReadStep
  <2>3. store[s].err = "none" => GoesOn(s, n)
    BY <2>1, Zenon DEF StepGood
  <2>4. OffersInv' /\ ReadInv' /\ reading'[s].stage = n.stage /\ \A t \in Storer \ {s} : reading'[t] = reading[t]
    BY <2>1, <2>2, <2>3, ReadGoes, Zenon
  <2>5. ReadsSucceed
    <3>1. ASSUME NEW t \in Storer, t # s, ~Ended(reading[t]) PROVE reading'[t].stage # "missing" /\ reading'[t].stage # "bad"
      BY <2>4, <3>1, Zenon DEF Ended
    <3>2. store[s].err = "none" => /\ Sought(reading[s]) => reading'[s].stage # "missing"
                                   /\ reading'[s].stage = "bad" => reading[s].links >= MaxLinks \/ SelfBased(reading[s].at)
      BY <2>1, <2>4, Zenon DEF StepGood
    <3> QED
      BY <3>1, <3>2, Zenon DEF ReadsSucceed
  <2> QED
    BY <2>4, <2>5, Zenon
<1>11. ASSUME NEW s \in Storer, IterStep(s) PROVE OffersInv' /\ ReadInv' /\ ReadsSucceed
  BY <1>2, <1>11, Zenon DEF IterStep
<1> QED
  BY <1>3, <1>4, <1>5, <1>6, <1>7, <1>8, <1>9, <1>10, <1>11, Zenon DEF ObjectStoreNext

LEMMA ReadsInit == ObjectStoreInit => OffersInv /\ ReadInv
<1> SUFFICES ASSUME ObjectStoreInit PROVE OffersInv /\ ReadInv
  OBVIOUS
<1>1. ASSUME NEW s \in Storer PROVE Offers(s)
  <2>1. jobs[s] = <<>> /\ store[s].pending = <<>> /\ store[s].seen = {}
    BY DEF ObjectStoreInit
  <2>2. DOMAIN jobs[s] = {} /\ DOMAIN store[s].pending = {}
    BY <2>1
  <2> QED
    BY <2>1, <2>2, Zenon DEF Offers, OverlayNames
<1>2. ASSUME NEW s \in Storer, NEW b \in Builder PROVE BuildCovers(s, b)
  <2>1. cold[s][b] = NoCold
    BY Zenon DEF ObjectStoreInit
  <2>2. cold[s][b].before = {}
    BY <2>1 DEF NoCold
  <2> QED
    BY <2>2, Zenon DEF BuildCovers
<1>3. DOMAIN reading = Storer /\ \A s \in Storer : reading[s] = NoRead
  BY Zenon DEF ObjectStoreInit
<1>4. NoRead.links = 0 /\ NoRead.links \in Nat /\ ~(NoRead.links > 0)
      /\ NoRead.stage \notin {"pending", "staged", "fetch", "loose", "lookup"} \cup InHand
  BY DEF NoRead, InHand
<1>5. ASSUME NEW s \in Storer PROVE ReadGood(s)
  <2>1. ReadShape(NoRead)
    BY <1>4, Zenon DEF ReadShape
  <2>2. ReadAt(s, NoRead)
    BY <1>4, Zenon DEF ReadAt
  <2> QED
    BY <1>3, <2>1, <2>2, Zenon DEF ReadGood
<1> QED
  BY <1>1, <1>2, <1>3, <1>5, Zenon DEF OffersInv, ReadInv

(* ReadsSucceed for every number of Storers, uploads, builds and reads: what
   ReadsFind says, but for the length of chains, which is a matter of what other
   pushes store between two lookups of one read. *)
THEOREM ReadsNeverMiss == ObjectStoreSpec => [][ReadsSucceed]_osVars
<1> DEFINE I == IndexInv /\ HeldInv /\ WalkInv /\ AckInv /\ OffersInv /\ ReadInv
<1>1. ObjectStoreInit => I
  BY IndexInvInit, HeldInit, AckInit, ReadsInit, Zenon
<1>2. I /\ [ObjectStoreNext]_osVars => I'
  BY IndexInvStep, HeldStep, AckStep, ReadsStep, Zenon
<1>3. I /\ [ObjectStoreNext]_osVars => [ReadsSucceed]_osVars
  BY ReadsStep, Zenon
<1> HIDE DEF I
<1> QED
  BY <1>1, <1>2, <1>3, PTL DEF ObjectStoreSpec
=============================================================================
