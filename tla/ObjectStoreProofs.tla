-------------------------- MODULE ObjectStoreProofs --------------------------
(***************************************************************************)
(* Proofs about ObjectStore, for every set of objects, containers, Storers *)
(* and requests.  The pack index first: what lookup returns in a sequence  *)
(* of tables, that a merge and a registration keep tables whose chains     *)
(* end, the invariant of a Storer's index, its jobs and its cold builds,   *)
(* and that every record leads to a .bin that can be opened.  Then the     *)
(* delta chains of an index end, although each base is looked up anew and  *)
(* the newest record of it wins.  An iteration yields what was there when  *)
(* it began, although packs are uploaded and leave the disk meanwhile.     *)
(* What a flush covered stays in the bucket.                               *)
(***************************************************************************)
EXTENDS ObjectStore, TLAPS, FiniteSetTheorems, WellFoundedInduction

Entry == [pack : Records, base : Obj \cup {Whole}]

(* A table whose bases are in it, and lead to whole objects or into the circle
   of one container. *)
Table ==
    {t \in UNION {[D -> Entry] : D \in SUBSET Obj} :
       (\A o \in DOMAIN t : t[o].base \in DOMAIN t \cup {Whole}) /\ CirclesAreSealed(t)}

(* What an upload job has for records: a container, or none. *)
Made == AllSealed \cup {NoRecords}

LEMMA MadeContainer == Made \subseteq Container /\ NoRecords \in Made /\ Stored \subseteq Made
<1>1. DOMAIN NoRecords = {} /\ NoRecords \in [{} -> Obj \cup {Whole}]
  BY Zenon DEF NoRecords
<1>2. NoRecords \in Records
  BY <1>1, Zenon DEF Records
<1>3. NoRecords \in Container
  BY <1>1, <1>2, Zenon DEF Container
<1>4. ASSUME NEW p \in Plans, NEW s \in Storer, NEW c \in Range(p[s].seals) PROVE c \in Container
  <2>1. p[s].seals \in Seq(Container)
    BY ObjectStoreAssumption
  <2>2. PICK i \in DOMAIN p[s].seals : c = p[s].seals[i]
    BY Zenon DEF Range
  <2> QED
    BY <2>1, <2>2
<1>5. ASSUME NEW c \in AllSealed PROVE c \in Container
  <2>1. \/ c \in Stored
        \/ \E p \in Plans : \E s \in Storer : c \in Range(p[s].seals)
    BY DEF AllSealed
  <2> QED
    BY <1>4, <2>1, ObjectStoreAssumption, Zenon
<1> QED
  BY <1>3, <1>5, Zenon DEF Made, AllSealed

(* What the requests seal is made. *)
LEMMA PlansMade ==
    Plans \subseteq [Storer -> [seals : Seq(Made), writes : Seq(Obj), reads : SUBSET ReadKind,
                               iterates : BOOLEAN, builders : SUBSET Builder]]
<1> SUFFICES ASSUME NEW p \in Plans
             PROVE  p \in [Storer -> [seals : Seq(Made), writes : Seq(Obj), reads : SUBSET ReadKind,
                                      iterates : BOOLEAN, builders : SUBSET Builder]]
  OBVIOUS
<1>1. p \in [Storer -> [seals : Seq(Container), writes : Seq(Obj), reads : SUBSET ReadKind,
                        iterates : BOOLEAN, builders : SUBSET Builder]]
  BY ObjectStoreAssumption, Zenon
<1>2. ASSUME NEW s \in Storer PROVE p[s].seals \in Seq(Made)
  <2>1. p[s].seals \in Seq(Container)
    BY <1>1
  <2>2. ASSUME NEW i \in DOMAIN p[s].seals PROVE p[s].seals[i] \in Made
    <3>1. p[s].seals[i] \in Range(p[s].seals)
      BY Zenon DEF Range
    <3>2. p[s].seals[i] \in AllSealed
      BY <3>1 DEF AllSealed
    <3> QED
      BY <3>2, Zenon DEF Made
  <2> QED
    BY <2>1, <2>2
<1> QED
  BY <1>1, <1>2

(* A set of numbers up to a bound has a greatest one. *)
LEMMA Greatest ==
    ASSUME NEW n \in Nat, NEW T \in SUBSET (1 .. n), T # {}
    PROVE  \E m \in T : \A k \in T : k <= m
<1> DEFINE U == {n - k : k \in T}
<1>1. U \subseteq Nat /\ U # {}
  <2>1. \A k \in T : n - k \in Nat
    OBVIOUS
  <2> QED
    BY <2>1, ZenonT(30)
<1>2. PICK u \in U : \A v \in U : ~(<<v, u>> \in OpToRel(<, Nat))
  BY <1>1, WFMin, NatLessThanWellFounded
<1>3. \A v \in U : ~(v < u)
  BY <1>1, <1>2, ZenonT(30) DEF OpToRel
<1>4. PICK m \in T : u = n - m
  BY <1>2
<1>5. \A k \in T : k <= m
  <2> TAKE k \in T
  <2>1. n - k \in U
    OBVIOUS
  <2>2. ~(n - k < n - m)
    BY <1>3, <1>4, <2>1, Zenon
  <2> QED
    BY <2>2
<1> QED
  BY <1>5

(* A table is a function of objects. *)
LEMMA TableType ==
    ASSUME NEW t \in Table
    PROVE  /\ DOMAIN t \in SUBSET Obj
           /\ t \in [DOMAIN t -> Entry]
           /\ \A o \in DOMAIN t : t[o] \in Entry /\ t[o].base \in DOMAIN t \cup {Whole}
           /\ CirclesAreSealed(t)
  BY DEF Table

(* The newest table is one that has a record, and no later one has. *)
LEMMA NewestHolds ==
    ASSUME NEW tables \in Seq(Table), NEW o, Found(tables, {}, o)
    PROVE  /\ newest(tables, {}, o) \in Holders(tables, {}, o)
           /\ \A j \in Holders(tables, {}, o) : j <= newest(tables, {}, o)
<1> DEFINE H == Holders(tables, {}, o)
<1>1. H \in SUBSET DOMAIN tables
  BY Zenon DEF Holders
<1>2. H \in SUBSET (1 .. Len(tables)) /\ H # {} /\ Len(tables) \in Nat
  BY <1>1 DEF Found
<1>3. \E m \in H : \A k \in H : k <= m
  BY <1>2, Greatest, ZenonT(30)
<1> QED
  BY <1>3, Zenon DEF newest

(* What lookup returns is the record of the last table that has one. *)
LEMMA Newest ==
    ASSUME NEW tables \in Seq(Table), NEW o, Found(tables, {}, o)
    PROVE  \E i \in DOMAIN tables :
              /\ o \in DOMAIN tables[i] /\ lookup(tables, {}, o) = tables[i][o]
              /\ \A j \in DOMAIN tables : o \in DOMAIN tables[j] => j <= i
<1>1. Holders(tables, {}, o) = {i \in DOMAIN tables : o \in DOMAIN tables[i]}
  BY Zenon DEF Holders
<1> QED
  BY <1>1, NewestHolds, Zenon DEF lookup

(* The objects an index finds. *)
Findable(tables) == {o \in Obj : Found(tables, {}, o)}

LEMMA HolderFinds ==
    ASSUME NEW tables \in Seq(Table), NEW i \in DOMAIN tables, NEW o \in DOMAIN tables[i]
    PROVE  o \in Findable(tables)
<1>1. tables[i] \in Table
  OBVIOUS
<1>2. o \in Obj
  BY <1>1, TableType, Zenon
<1> QED
  BY <1>2, Zenon DEF Findable, Found, Holders

(* The base of what lookup returns can be looked up again. *)
LEMMA BasesFound ==
    ASSUME NEW tables \in Seq(Table), NEW o \in Findable(tables)
    PROVE  lookup(tables, {}, o) \in Entry /\ lookup(tables, {}, o).base \in Findable(tables) \cup {Whole}
<1>1. PICK i \in DOMAIN tables : o \in DOMAIN tables[i] /\ lookup(tables, {}, o) = tables[i][o]
  BY Newest, Zenon DEF Findable
<1>2. tables[i] \in Table
  OBVIOUS
<1>3. tables[i][o] \in Entry /\ tables[i][o].base \in DOMAIN tables[i] \cup {Whole}
  BY <1>1, <1>2, TableType, Zenon
<1> QED
  BY <1>1, <1>3, HolderFinds, Zenon

(* A set of objects closed under taking the base that lookup finds has a circle
   of one container: among the records of such a set, those of the newest table
   are closed in it. *)
LEMMA LookupsEnd ==
    ASSUME NEW tables \in Seq(Table), NEW S \in SUBSET Findable(tables), S # {},
           \A o \in S : lookup(tables, {}, o).base \in S
    PROVE  \E T \in SUBSET S, m \in DOMAIN tables, c \in AllSealed :
              /\ CircleOf(tables[m], T, c)
              /\ \A o \in T : lookup(tables, {}, o) = tables[m][o]
<1> DEFINE Wins(o, i) == /\ o \in DOMAIN tables[i] /\ lookup(tables, {}, o) = tables[i][o]
                         /\ \A j \in DOMAIN tables : o \in DOMAIN tables[j] => j <= i
           T == {i \in DOMAIN tables : \E o \in S : Wins(o, i)}
<1>1. \A o \in S : \E i \in DOMAIN tables : Wins(o, i)
  <2> TAKE o \in S
  <2>1. Found(tables, {}, o)
    BY DEF Findable
  <2> QED
    BY <2>1, Newest
<1>2. T \in SUBSET (1 .. Len(tables)) /\ T # {} /\ Len(tables) \in Nat
  BY <1>1
<1> HIDE DEF T
<1>3. PICK m \in T : \A k \in T : k <= m
  BY <1>2, Greatest, ZenonT(30)
<1>4. tables[m] \in Table /\ m \in DOMAIN tables
  BY <1>2 DEF T
<1> DEFINE R == {o \in S : o \in DOMAIN tables[m]}
<1>5. R # {} /\ R \in SUBSET DOMAIN tables[m]
  BY <1>3, Zenon DEF T
<1>6. ASSUME NEW o \in R PROVE tables[m][o].base \in R /\ lookup(tables, {}, o) = tables[m][o]
  <2>1. PICK i \in DOMAIN tables : Wins(o, i)
    BY <1>1, Zenon
  <2>2. i \in T
    BY <2>1, Zenon DEF T
  <2>3. m <= i /\ i <= m /\ i \in Nat /\ m \in Nat
    BY <1>2, <1>3, <1>4, <2>1, <2>2, SMTT(30)
  <2>4. lookup(tables, {}, o) = tables[m][o]
    BY <2>1, <2>3
  <2>5. tables[m][o].base \in S
    BY <2>4, Zenon
  <2>6. tables[m][o].base \in DOMAIN tables[m] \cup {Whole}
    BY <1>4, TableType, Zenon
  <2>7. Whole \notin S
    BY ObjectStoreAssumption DEF Findable
  <2> QED
    BY <2>4, <2>5, <2>6, <2>7, Zenon
<1>7. R \in SUBSET S
  BY Zenon
<1> HIDE DEF R
<1>8. CirclesAreSealed(tables[m])
  BY <1>4, TableType, Zenon
<1>9. PICK Q \in SUBSET R, c \in AllSealed : CircleOf(tables[m], Q, c)
  BY <1>5, <1>6, <1>8, Zenon DEF CirclesAreSealed
<1> QED
  BY <1>4, <1>6, <1>7, <1>9, Zenon

(* Hence mergeTables makes a table of tables. *)
LEMMA MergeTable ==
    ASSUME NEW tables \in Seq(Table)
    PROVE  mergeTables(tables, {}) \in Table
<1> DEFINE t == [o \in Findable(tables) |-> lookup(tables, {}, o)]
<1>1. mergeTables(tables, {}) = t
  BY Zenon DEF mergeTables, Findable
<1>2. /\ Findable(tables) \in SUBSET Obj /\ DOMAIN t = Findable(tables)
      /\ \A o \in Findable(tables) : t[o] = lookup(tables, {}, o)
  BY Zenon DEF Findable
<1>3. \A o \in Findable(tables) : lookup(tables, {}, o) \in Entry
  BY BasesFound, Zenon
<1>4. t \in [Findable(tables) -> Entry]
  BY <1>3, Zenon
<1>5. \A o \in DOMAIN t : t[o].base \in DOMAIN t \cup {Whole}
  BY <1>2, BasesFound, Zenon
<1> HIDE DEF t
<1>6. ASSUME NEW S \in SUBSET DOMAIN t, S # {}, \A o \in S : t[o].base \in S
      PROVE  \E T \in SUBSET S, c \in AllSealed : CircleOf(t, T, c)
  <2>1. S \in SUBSET Findable(tables) /\ S # {} /\ \A o \in S : lookup(tables, {}, o).base \in S
    BY <1>2, <1>6, Zenon
  <2>2. PICK T \in SUBSET S, m \in DOMAIN tables, c \in AllSealed :
                /\ CircleOf(tables[m], T, c)
                /\ \A o \in T : lookup(tables, {}, o) = tables[m][o]
    BY <2>1, LookupsEnd, Zenon
  <2>3. \A o \in T : t[o] = tables[m][o]
    BY <1>2, <2>1, <2>2, Zenon
  <2>4. CircleOf(t, T, c)
    BY <2>2, <2>3, Zenon DEF CircleOf
  <2> QED
    BY <2>4, Zenon
<1>7. CirclesAreSealed(t)
  BY <1>6, Zenon DEF CirclesAreSealed
<1> QED
  BY <1>1, <1>2, <1>4, <1>5, <1>7, SMTT(30) DEF Table

(* newPackTable makes a table of a container. *)
LEMMA PackTable ==
    ASSUME NEW id \in Records, NEW recs \in Made
    PROVE  newPackTable(id, recs) \in Table
<1> DEFINE t == [o \in DOMAIN recs |-> [pack |-> id, base |-> recs[o]]]
<1>1. newPackTable(id, recs) = t
  BY Zenon DEF newPackTable
<1>2. /\ DOMAIN recs \in SUBSET Obj /\ recs \in [DOMAIN recs -> Obj \cup {Whole}]
      /\ \A o \in DOMAIN recs : recs[o] \in DOMAIN recs \cup {Whole}
  BY MadeContainer DEF Container, Records
<1>3. t \in [DOMAIN recs -> Entry]
  BY <1>2, Zenon DEF Entry
<1>4. DOMAIN t = DOMAIN recs /\ \A o \in DOMAIN t : t[o].base = recs[o] /\ t[o].pack = id
  BY Zenon
<1> HIDE DEF t
<1>5. \A o \in DOMAIN t : t[o].base \in DOMAIN t \cup {Whole}
  BY <1>2, <1>4, Zenon
<1>6. ASSUME NEW S \in SUBSET DOMAIN t, S # {}, \A o \in S : t[o].base \in S
      PROVE  \E T \in SUBSET S, c \in AllSealed : CircleOf(t, T, c)
  <2>1. recs # NoRecords
    BY <1>4, <1>6, Zenon DEF NoRecords
  <2>2. recs \in AllSealed
    BY <2>1, Zenon DEF Made
  <2>3. CircleOf(t, S, recs)
    BY <1>4, <1>6, Zenon DEF CircleOf
  <2> QED
    BY <2>2, <2>3, Zenon
<1>7. CirclesAreSealed(t)
  BY <1>6, Zenon DEF CirclesAreSealed
<1> QED
  BY <1>1, <1>2, <1>3, <1>4, <1>5, <1>7, SMTT(30) DEF Table

(* seal names a container by records. *)
LEMMA NameRecords ==
    ASSUME NEW c \in Made
    PROVE  Name(c) \in Records
<1>1. DOMAIN c \in SUBSET Obj /\ c \in [DOMAIN c -> Obj \cup {Whole}]
  BY MadeContainer DEF Container, Records
<1>2. Name(c) \in [DOMAIN c \ Empty -> Obj \cup {Whole}]
  BY <1>1, Zenon DEF Name, Restrict
<1> QED
  BY <1>1, <1>2, Zenon DEF Records
-----------------------------------------------------------------------------
IndexField == {"built", "tables", "dead", "local", "pending", "err", "flushed", "seen"}

(* An index no upload of which failed: nothing is dead, and its tables are
   tables in the sense above.  A failed upload may break both: deregister
   hides a record that a merge has put in the place of another. *)
Sound(ix) ==
    /\ DOMAIN ix = IndexField
    /\ ix.err = "none" => ix.dead = {} /\ ix.tables \in Seq(Table)

UploadJob == [kind : {"pack", "loose"}, id : Records, recs : Made, obj : Obj \cup {Whole},
              stage : {"queued", "bin", "good", "bad", "unlisted", "gone"}]

IndexInv ==
    /\ plan \in [Storer -> [seals : Seq(Made), writes : Seq(Obj), reads : SUBSET ReadKind,
                           iterates : BOOLEAN, builders : SUBSET Builder]]
    /\ \A id \in DOMAIN cues : id \in Records /\ cues[id] \in Made
    /\ DOMAIN store = Storer /\ \A s \in Storer : Sound(store[s])
    /\ jobs \in [Storer -> Seq(UploadJob)]
    /\ \A s \in Storer : \A i \in DOMAIN jobs[s] : jobs[s][i].stage = "bad" => store[s].err # "none"
    /\ DOMAIN cold = Storer
    /\ \A s \in Storer :
         /\ DOMAIN cold[s] = Builder
         /\ \A b \in Builder : /\ DOMAIN cold[s][b] = {"on", "todo", "got", "before"}
                               /\ cold[s][b].todo \subseteq DOMAIN cues
                               /\ cold[s][b].got \in Seq(Table)

(* addTable keeps an index sound. *)
LEMMA BoundedSound ==
    ASSUME NEW ix, Sound(ix)
    PROVE  Sound(Bounded(ix)) /\ Bounded(ix).err = ix.err
<1>1. CASE Len(ix.tables) > MaxTables
  <2> DEFINE new == [ix EXCEPT !.tables = <<mergeTables(ix.tables, ix.dead)>>, !.dead = {}]
  <2>1. Bounded(ix) = new
    BY <1>1, Zenon DEF Bounded
  <2>2. DOMAIN new = IndexField /\ new.err = ix.err /\ new.dead = {}
        /\ new.tables = <<mergeTables(ix.tables, ix.dead)>>
    BY Zenon DEF Sound, IndexField
  <2>3. ASSUME ix.err = "none" PROVE new.tables \in Seq(Table)
    <3>1. ix.dead = {} /\ ix.tables \in Seq(Table)
      BY <2>3, Zenon DEF Sound
    <3>2. mergeTables(ix.tables, {}) \in Table
      BY <3>1, MergeTable
    <3> QED
      BY <2>2, <3>1, <3>2
  <2> HIDE DEF new
  <2> QED
    BY <2>1, <2>2, <2>3, Zenon DEF Sound
<1>2. CASE ~(Len(ix.tables) > MaxTables)
  BY <1>2, Zenon DEF Bounded
<1> QED
  BY <1>1, <1>2, Zenon

LEMMA RegisterSound ==
    ASSUME NEW ix, Sound(ix), NEW id \in Records, NEW recs \in Made
    PROVE  Sound(register(ix, id, recs)) /\ register(ix, id, recs).err = ix.err
<1> DEFINE new == [ix EXCEPT !.dead = @ \ {id}, !.tables = Append(@, newPackTable(id, recs)),
                             !.local = @ \cup {id}]
<1>1. DOMAIN new = IndexField /\ new.err = ix.err /\ new.dead = ix.dead \ {id}
      /\ new.tables = Append(ix.tables, newPackTable(id, recs))
  BY Zenon DEF Sound, IndexField
<1>2. newPackTable(id, recs) \in Table
  BY PackTable, Zenon
<1>3. register(ix, id, recs) = Bounded(new)
  BY Zenon DEF register
<1> HIDE DEF new
<1>4. ix.err = "none" => new.dead = {} /\ new.tables \in Seq(Table)
  BY <1>1, <1>2 DEF Sound
<1>5. Sound(new)
  BY <1>1, <1>4 DEF Sound
<1> QED
  BY <1>1, <1>3, <1>5, BoundedSound, Zenon

(* So does the build that ensurePacksBuilt publishes below the tables there are. *)
LEMMA PublishSound ==
    ASSUME NEW ix, Sound(ix), NEW got \in Seq(Table), NEW before
    PROVE  Sound(Published(ix, got, before)) /\ Published(ix, got, before).err = ix.err
<1> DEFINE one == IF Len(got) > 1 THEN <<mergeTables(got, {})>> ELSE got
           new == [ix EXCEPT !.tables = one \o @, !.built = TRUE, !.seen = before]
<1>1. Published(ix, got, before) = Bounded(new)
  BY Zenon DEF Published
<1>2. one \in Seq(Table)
  BY MergeTable
<1> HIDE DEF one
<1>3. DOMAIN new = IndexField /\ new.err = ix.err /\ new.dead = ix.dead /\ new.tables = one \o ix.tables
  BY Zenon DEF Sound, IndexField
<1> HIDE DEF new
<1>4. ix.err = "none" => new.dead = {} /\ new.tables \in Seq(Table)
  BY <1>2, <1>3 DEF Sound
<1>5. Sound(new)
  BY <1>3, <1>4, Zenon DEF Sound
<1> QED
  BY <1>1, <1>3, <1>5, BoundedSound, Zenon

(* A failed Storer is sound whatever its tables hold. *)
LEMMA DeregisterSound ==
    ASSUME NEW ix, Sound(ix), ix.err # "none", NEW id
    PROVE  Sound(deregister(ix, id)) /\ deregister(ix, id).err = ix.err
  BY Zenon DEF Sound, deregister, IndexField

(* The steps of the uploads that leave the tables alone. *)
LEMMA OverlaySound ==
    ASSUME NEW ix, Sound(ix), NEW o, NEW name
    PROVE  /\ Sound(registerPending(ix, o, name)) /\ registerPending(ix, o, name).err = ix.err
           /\ Sound(evict(ix, o)) /\ evict(ix, o).err = ix.err
           /\ Sound(markUploaded(ix, name)) /\ markUploaded(ix, name).err = ix.err
<1>1. Sound(registerPending(ix, o, name)) /\ registerPending(ix, o, name).err = ix.err
  BY Zenon DEF Sound, registerPending, IndexField
<1>2. Sound(evict(ix, o)) /\ evict(ix, o).err = ix.err
  BY Zenon DEF Sound, evict, IndexField
<1>3. Sound(markUploaded(ix, name)) /\ markUploaded(ix, name).err = ix.err
  BY Zenon DEF Sound, markUploaded, IndexField
<1> QED
  BY <1>1, <1>2, <1>3, Zenon

LEMMA RecordErrSound ==
    ASSUME NEW ix, Sound(ix), NEW ok \in BOOLEAN
    PROVE  /\ Sound(recordErr(ix, ok)) /\ (ix.err # "none" => recordErr(ix, ok).err # "none")
           /\ ~ok => recordErr(ix, ok).err # "none"
<1>1. /\ DOMAIN recordErr(ix, ok) = IndexField
      /\ recordErr(ix, ok).tables = ix.tables /\ recordErr(ix, ok).dead = ix.dead
      /\ recordErr(ix, ok).err = IF ok THEN ix.err ELSE "some"
  BY DEF Sound, recordErr, IndexField
<1> QED
  BY <1>1 DEF Sound
-----------------------------------------------------------------------------
LEMMA IndexInvInit == ObjectStoreInit => IndexInv
<1> SUFFICES ASSUME ObjectStoreInit PROVE IndexInv
  OBVIOUS
<1>1. ASSUME NEW id \in DOMAIN cues PROVE id \in Records /\ cues[id] \in Made
  <2>1. DOMAIN cues = bins /\ bins = {Name(c) : c \in Stored}
    BY DEF ObjectStoreInit
  <2>2. PICK c \in Stored : id = Name(c)
    BY <2>1
  <2>3. cues[id] = CHOOSE d \in Stored : Name(d) = id
    BY <2>1, Zenon DEF ObjectStoreInit
  <2>4. cues[id] \in Stored
    BY <2>2, <2>3
  <2> QED
    BY <2>2, <2>4, NameRecords, MadeContainer, Zenon
<1>2. plan \in [Storer -> [seals : Seq(Made), writes : Seq(Obj), reads : SUBSET ReadKind,
                          iterates : BOOLEAN, builders : SUBSET Builder]]
  BY DEF ObjectStoreInit, NoPlan
<1>3. DOMAIN store = Storer /\ \A s \in Storer : Sound(store[s])
  <2>1. ASSUME NEW s \in Storer PROVE Sound(store[s])
    <3>1. store[s] = [built |-> FALSE, tables |-> <<>>, dead |-> {}, local |-> {}, pending |-> <<>>,
                      err |-> "none", flushed |-> FALSE, seen |-> {}]
      BY Zenon DEF ObjectStoreInit
    <3>2. DOMAIN store[s] = IndexField /\ store[s].dead = {} /\ store[s].tables = <<>>
      BY <3>1 DEF IndexField
    <3> QED
      BY <3>2 DEF Sound
  <2> QED
    BY <2>1, Zenon DEF ObjectStoreInit
<1>4. /\ jobs \in [Storer -> Seq(UploadJob)]
      /\ \A s \in Storer : jobs[s] = <<>>
  BY DEF ObjectStoreInit
<1>5. /\ DOMAIN cold = Storer
      /\ \A s \in Storer :
           /\ DOMAIN cold[s] = Builder
           /\ \A b \in Builder : cold[s][b] = NoCold
  BY Zenon DEF ObjectStoreInit
<1>6. /\ DOMAIN NoCold = {"on", "todo", "got", "before"}
      /\ NoCold.todo \subseteq DOMAIN cues /\ NoCold.got \in Seq(Table)
  BY DEF NoCold
<1> QED
  BY <1>1, <1>2, <1>3, <1>4, <1>5, <1>6, SMTT(30) DEF IndexInv

(* Steps that leave the index and the jobs alone, or change one index to a
   sound one that has failed no more and no less. *)
LEMMA StoreStep ==
    ASSUME IndexInv, NEW s \in Storer, NEW ix, Sound(ix), store[s].err # "none" => ix.err # "none",
           store' = [store EXCEPT ![s] = ix]
    PROVE  /\ DOMAIN store' = Storer /\ \A t \in Storer : Sound(store'[t])
           /\ \A t \in Storer : store[t].err # "none" => store'[t].err # "none"
           /\ store'[s] = ix
<1>1. DOMAIN store = Storer /\ \A t \in Storer : Sound(store[t])
  BY Zenon DEF IndexInv
<1>2. DOMAIN store' = Storer /\ store'[s] = ix
  BY <1>1
<1>3. \A t \in Storer : t # s => store'[t] = store[t]
  BY <1>1, Zenon
<1> QED
  BY <1>1, <1>2, <1>3, ZenonT(30)

(* A job is added, or goes to another stage. *)
LEMMA AppendJob ==
    ASSUME IndexInv, NEW s \in Storer, NEW j \in UploadJob, jobs' = [jobs EXCEPT ![s] = Append(@, j)],
           \A t \in Storer : store[t].err # "none" => store'[t].err # "none",
           j.stage = "bad" => store'[s].err # "none"
    PROVE  /\ jobs' \in [Storer -> Seq(UploadJob)]
           /\ \A t \in Storer : \A i \in DOMAIN jobs'[t] : jobs'[t][i].stage = "bad" => store'[t].err # "none"
<1>1. jobs \in [Storer -> Seq(UploadJob)]
  BY Zenon DEF IndexInv
<1>2. jobs' \in [Storer -> Seq(UploadJob)] /\ jobs'[s] = Append(jobs[s], j)
      /\ \A t \in Storer \ {s} : jobs'[t] = jobs[t]
  BY <1>1
<1>3. \A i \in DOMAIN jobs'[s] : jobs'[s][i] = j \/ (i \in DOMAIN jobs[s] /\ jobs'[s][i] = jobs[s][i])
  BY <1>1, <1>2
<1>4. \A t \in Storer : \A i \in DOMAIN jobs[t] : jobs[t][i].stage = "bad" => store[t].err # "none"
  BY Zenon DEF IndexInv
<1>5. \A i \in DOMAIN jobs'[s] : jobs'[s][i].stage = "bad" => store'[s].err # "none"
  BY <1>3, <1>4, Zenon
<1>6. \A t \in Storer \ {s} : \A i \in DOMAIN jobs'[t] : jobs'[t][i].stage = "bad" => store'[t].err # "none"
  BY <1>2, <1>4
<1> QED
  BY <1>2, <1>5, <1>6, Zenon

LEMMA MoveJob ==
    ASSUME IndexInv, NEW s \in Storer, NEW i \in DOMAIN jobs[s],
           NEW stage \in {"queued", "bin", "good", "bad", "unlisted", "gone"}, Stage(s, i, stage),
           \A t \in Storer : store[t].err # "none" => store'[t].err # "none",
           stage = "bad" => store'[s].err # "none"
    PROVE  /\ jobs' \in [Storer -> Seq(UploadJob)]
           /\ \A t \in Storer : \A k \in DOMAIN jobs'[t] : jobs'[t][k].stage = "bad" => store'[t].err # "none"
<1> DEFINE moved == [jobs[s][i] EXCEPT !.stage = stage]
<1>1. jobs \in [Storer -> Seq(UploadJob)] /\ jobs[s] \in Seq(UploadJob) /\ jobs[s][i] \in UploadJob
  BY DEF IndexInv
<1>2. moved \in UploadJob /\ moved.stage = stage
  BY <1>1, ZenonT(30) DEF UploadJob
<1>3. jobs' = [jobs EXCEPT ![s] = [jobs[s] EXCEPT ![i] = moved]]
  BY Zenon DEF Stage
<1> HIDE DEF moved
<1>4. [jobs[s] EXCEPT ![i] = moved] \in Seq(UploadJob)
  BY <1>1, <1>2
<1>5. /\ jobs' \in [Storer -> Seq(UploadJob)]
      /\ jobs'[s] = [jobs[s] EXCEPT ![i] = moved]
      /\ \A t \in Storer \ {s} : jobs'[t] = jobs[t]
  BY <1>1, <1>3, <1>4, Zenon
<1>6. \A t \in Storer : \A k \in DOMAIN jobs[t] : jobs[t][k].stage = "bad" => store[t].err # "none"
  BY Zenon DEF IndexInv
<1>7. \A k \in DOMAIN jobs'[s] : jobs'[s][k].stage = "bad" => store'[s].err # "none"
  BY <1>1, <1>2, <1>5, <1>6, Zenon
<1>8. \A t \in Storer \ {s} : \A k \in DOMAIN jobs'[t] : jobs'[t][k].stage = "bad" => store'[t].err # "none"
  BY <1>5, <1>6, Zenon
<1> QED
  BY <1>5, <1>7, <1>8, Zenon

(* The packs of a sequence of tables are among P. *)
Within(tables, P) == \A i \in DOMAIN tables : \A o \in DOMAIN tables[i] : tables[i][o].pack \in P

(* A merge, and with it addTable, brings in no pack. *)
LEMMA MergeWithin ==
    ASSUME NEW tables \in Seq(Table), NEW P, Within(tables, P)
    PROVE  Within(<<mergeTables(tables, {})>>, P)
<1> DEFINE t == mergeTables(tables, {})
<1>1. \A o \in DOMAIN t : t[o].pack \in P
  <2> SUFFICES ASSUME NEW o \in DOMAIN t PROVE t[o].pack \in P
    OBVIOUS
  <2>1. Found(tables, {}, o) /\ t[o] = lookup(tables, {}, o)
    BY Zenon DEF mergeTables
  <2>2. PICK i \in DOMAIN tables : o \in DOMAIN tables[i] /\ lookup(tables, {}, o) = tables[i][o]
    BY <2>1, Newest, Zenon
  <2> HIDE DEF t
  <2> QED
    BY <2>1, <2>2, Zenon DEF Within
<1> HIDE DEF t
<1> QED
  BY <1>1 DEF Within, t

LEMMA BoundedWithin ==
    ASSUME NEW ix, Sound(ix), ix.err = "none", NEW P, Within(ix.tables, P)
    PROVE  Within(Bounded(ix).tables, P)
<1>1. ix.dead = {} /\ ix.tables \in Seq(Table) /\ DOMAIN ix = IndexField
  BY Zenon DEF Sound
<1>2. Within(<<mergeTables(ix.tables, ix.dead)>>, P)
  BY <1>1, MergeWithin, Zenon
<1>3. CASE Len(ix.tables) > MaxTables
  <2>1. Bounded(ix) = [ix EXCEPT !.tables = <<mergeTables(ix.tables, ix.dead)>>, !.dead = {}]
    BY <1>3, Zenon DEF Bounded
  <2>2. Bounded(ix).tables = <<mergeTables(ix.tables, ix.dead)>>
    BY <1>1, <2>1, Zenon DEF IndexField
  <2> QED
    BY <1>2, <2>2, Zenon
<1>4. CASE ~(Len(ix.tables) > MaxTables)
  BY <1>4, Zenon DEF Bounded
<1> QED
  BY <1>3, <1>4, Zenon

LEMMA RegisterWithin ==
    ASSUME NEW ix, Sound(ix), ix.err = "none", NEW id \in Records, NEW recs \in Made,
           NEW P, id \in P, Within(ix.tables, P)
    PROVE  Within(register(ix, id, recs).tables, P)
<1> DEFINE t == newPackTable(id, recs)
           new == [ix EXCEPT !.dead = @ \ {id}, !.tables = Append(@, t), !.local = @ \cup {id}]
<1>1. register(ix, id, recs) = Bounded(new)
  BY Zenon DEF register
<1>2. DOMAIN new = IndexField /\ new.err = ix.err /\ new.dead = ix.dead \ {id}
      /\ new.tables = Append(ix.tables, t)
  BY Zenon DEF Sound, IndexField
<1>3. t \in Table /\ \A o \in DOMAIN t : t[o].pack \in P
  BY PackTable DEF newPackTable
<1> HIDE DEF t, new
<1>4. ix.dead = {} /\ ix.tables \in Seq(Table)
  BY Zenon DEF Sound
<1>5. Within(new.tables, P)
  BY <1>2, <1>3, <1>4 DEF Within
<1>6. new.dead = {} /\ new.tables \in Seq(Table)
  BY <1>2, <1>3, <1>4
<1>7. Sound(new)
  BY <1>2, <1>6, Zenon DEF Sound
<1> QED
  BY <1>1, <1>2, <1>5, <1>7, BoundedWithin, Zenon

LEMMA PublishWithin ==
    ASSUME NEW ix, Sound(ix), ix.err = "none", NEW got \in Seq(Table), NEW before,
           NEW P, Within(ix.tables, P), Within(got, P)
    PROVE  Within(Published(ix, got, before).tables, P)
<1> DEFINE one == IF Len(got) > 1 THEN <<mergeTables(got, {})>> ELSE got
           new == [ix EXCEPT !.tables = one \o @, !.built = TRUE, !.seen = before]
<1>1. Published(ix, got, before) = Bounded(new)
  BY Zenon DEF Published
<1>2. one \in Seq(Table)
  BY MergeTable
<1>3. Within(one, P)
  BY MergeWithin, Zenon
<1> HIDE DEF one
<1>4. DOMAIN new = IndexField /\ new.err = ix.err /\ new.dead = ix.dead /\ new.tables = one \o ix.tables
  BY Zenon DEF Sound, IndexField
<1> HIDE DEF new
<1>5. ix.dead = {} /\ ix.tables \in Seq(Table)
  BY Zenon DEF Sound
<1>6. Within(new.tables, P)
  BY <1>2, <1>3, <1>4, <1>5 DEF Within
<1>7. new.dead = {} /\ new.tables \in Seq(Table)
  BY <1>2, <1>4, <1>5
<1>8. Sound(new)
  BY <1>4, <1>7, Zenon DEF Sound
<1> QED
  BY <1>1, <1>4, <1>6, <1>8, BoundedWithin, Zenon
-----------------------------------------------------------------------------
(* The packs a Storer has sealed, and the packs whose .bin it can read: in the
   bucket, or of a container of its own. *)
Sealed(s) == {jobs[s][i].id : i \in JobsOf(s, "pack")}
Kept(s) == bins \cup Sealed(s)

JobKept(s, j) ==
    /\ j.stage = "bin" => j.id \in bins
    /\ j.kind = "pack" /\ store[s].err = "none" => j.stage = "queued" \/ j.id \in bins

JobsHeld == \A s \in Storer : \A i \in DOMAIN jobs[s] : JobKept(s, jobs[s][i])
ColdHeld == \A s \in Storer : \A b \in Builder : Within(cold[s][b].got, bins)
TablesHeld == \A s \in Storer : store[s].err = "none" => Within(store[s].tables, Kept(s))

(* Every record leads to a .bin: a .cue is written after its .bin, a build holds
   what was listed, and a Storer that has not failed what it sealed besides. *)
HeldInv ==
    /\ DOMAIN cues \subseteq bins /\ loose \subseteq Obj \cup {Whole}
    /\ JobsHeld /\ ColdHeld /\ TablesHeld

(* What every step but the ones of an iteration does to what one relies on. *)
Grows ==
    /\ bins \subseteq bins' /\ loose \subseteq loose' /\ UNCHANGED iter
    /\ \A t \in Storer : Sealed(t) \subseteq Sealed(t)' /\ (store'[t].err = "none" => store[t].err = "none")

LEMMA JobsMoved ==
    ASSUME IndexInv, NEW s \in Storer, NEW i \in DOMAIN jobs[s], NEW stage, Stage(s, i, stage)
    PROVE  /\ \A t \in Storer : Sealed(t)' = Sealed(t)
           /\ \A t \in Storer : \A k \in DOMAIN jobs'[t] :
                /\ k \in DOMAIN jobs[t]
                /\ \/ jobs'[t][k] = jobs[t][k]
                   \/ /\ t = s /\ k = i /\ jobs'[t][k].stage = stage
                      /\ jobs'[t][k].id = jobs[s][i].id /\ jobs'[t][k].kind = jobs[s][i].kind
                      /\ jobs'[t][k].recs = jobs[s][i].recs /\ jobs'[t][k].obj = jobs[s][i].obj
<1> DEFINE moved == [jobs[s][i] EXCEPT !.stage = stage]
           new == [jobs[s] EXCEPT ![i] = moved]
<1>1. jobs \in [Storer -> Seq(UploadJob)] /\ jobs[s] \in Seq(UploadJob) /\ jobs[s][i] \in UploadJob
  BY DEF IndexInv
<1>2. DOMAIN jobs[s][i] = {"kind", "id", "recs", "obj", "stage"}
  BY <1>1, Zenon DEF UploadJob
<1>3. /\ moved.stage = stage /\ moved.id = jobs[s][i].id /\ moved.kind = jobs[s][i].kind
      /\ moved.recs = jobs[s][i].recs /\ moved.obj = jobs[s][i].obj
  BY <1>2
<1>4. jobs' = [jobs EXCEPT ![s] = new]
  BY Zenon DEF Stage
<1> HIDE DEF moved
<1>5. DOMAIN new = DOMAIN jobs[s] /\ new[i] = moved /\ \A k \in DOMAIN jobs[s] \ {i} : new[k] = jobs[s][k]
  BY Zenon
<1> HIDE DEF new
<1>6. jobs'[s] = new /\ \A t \in Storer \ {s} : jobs'[t] = jobs[t]
  BY <1>1, <1>4, Zenon
<1>7. \A t \in Storer : DOMAIN jobs'[t] = DOMAIN jobs[t]
  BY <1>5, <1>6, Zenon
<1>8. \A t \in Storer : \A k \in DOMAIN jobs[t] : jobs'[t][k] = jobs[t][k] \/ (t = s /\ k = i /\ jobs'[t][k] = moved)
  BY <1>5, <1>6, Zenon
<1>9. \A t \in Storer : \A k \in DOMAIN jobs[t] : jobs'[t][k].id = jobs[t][k].id /\ jobs'[t][k].kind = jobs[t][k].kind
  BY <1>3, <1>8, Zenon
<1>10. \A t \in Storer : Sealed(t)' = Sealed(t)
  <2> SUFFICES ASSUME NEW t \in Storer PROVE {jobs'[t][k].id : k \in {k \in DOMAIN jobs'[t] : jobs'[t][k].kind = "pack"}}
                                             = {jobs[t][k].id : k \in {k \in DOMAIN jobs[t] : jobs[t][k].kind = "pack"}}
    BY Zenon DEF Sealed, JobsOf
  <2>1. {k \in DOMAIN jobs'[t] : jobs'[t][k].kind = "pack"} = {k \in DOMAIN jobs[t] : jobs[t][k].kind = "pack"}
    BY <1>7, <1>9, Zenon
  <2>2. \A k \in {k \in DOMAIN jobs[t] : jobs[t][k].kind = "pack"} : jobs'[t][k].id = jobs[t][k].id
    BY <1>9, Zenon
  <2> QED
    BY <2>1, <2>2, Zenon
<1> QED
  BY <1>3, <1>7, <1>8, <1>10, Zenon

LEMMA JobsAppended ==
    ASSUME IndexInv, NEW s \in Storer, NEW j \in UploadJob, jobs' = [jobs EXCEPT ![s] = Append(@, j)]
    PROVE  /\ \A t \in Storer : Sealed(t) \subseteq Sealed(t)'
           /\ j.kind = "pack" => j.id \in Sealed(s)'
           /\ \A t \in Storer : \A k \in DOMAIN jobs'[t] :
                \/ k \in DOMAIN jobs[t] /\ jobs'[t][k] = jobs[t][k]
                \/ t = s /\ jobs'[t][k] = j
<1> DEFINE new == Append(jobs[s], j)
           n == Len(jobs[s]) + 1
<1>1. jobs \in [Storer -> Seq(UploadJob)] /\ jobs[s] \in Seq(UploadJob)
  BY Zenon DEF IndexInv
<1>2. /\ \A k \in DOMAIN jobs[s] : k \in DOMAIN new /\ new[k] = jobs[s][k]
      /\ n \in DOMAIN new /\ new[n] = j
      /\ \A k \in DOMAIN new : k = n \/ k \in DOMAIN jobs[s]
  BY <1>1
<1> HIDE DEF new, n
<1>3. jobs'[s] = new /\ \A t \in Storer \ {s} : jobs'[t] = jobs[t]
  BY <1>1, Zenon DEF new
<1>4. \A t \in Storer : \A k \in DOMAIN jobs[t] : k \in DOMAIN jobs'[t] /\ jobs'[t][k] = jobs[t][k]
  BY <1>2, <1>3, Zenon
<1>5. \A t \in Storer : Sealed(t) \subseteq Sealed(t)'
  <2> SUFFICES ASSUME NEW t \in Storer, NEW k \in DOMAIN jobs[t], jobs[t][k].kind = "pack"
               PROVE  jobs[t][k].id \in {jobs'[t][m].id : m \in {m \in DOMAIN jobs'[t] : jobs'[t][m].kind = "pack"}}
    BY Zenon DEF Sealed, JobsOf
  <2> QED
    BY <1>4, Zenon
<1>6. ASSUME j.kind = "pack" PROVE j.id \in Sealed(s)'
  <2>1. j.id \in {jobs'[s][m].id : m \in {m \in DOMAIN jobs'[s] : jobs'[s][m].kind = "pack"}}
    BY <1>2, <1>3, <1>6, Zenon
  <2> QED
    BY <2>1, Zenon DEF Sealed, JobsOf
<1>7. \A t \in Storer : \A k \in DOMAIN jobs'[t] :
        (k \in DOMAIN jobs[t] /\ jobs'[t][k] = jobs[t][k]) \/ (t = s /\ jobs'[t][k] = j)
  BY <1>2, <1>3, Zenon
<1> QED
  BY <1>5, <1>6, <1>7, Zenon

(* The jobs stay held when one is added or moves. *)
LEMMA MovedHeld ==
    ASSUME IndexInv, HeldInv, Grows, NEW s \in Storer, NEW i \in DOMAIN jobs[s], NEW stage, Stage(s, i, stage),
           stage = "bin" => jobs[s][i].id \in bins',
           jobs[s][i].kind = "pack" /\ store'[s].err = "none" => jobs[s][i].id \in bins'
    PROVE  JobsHeld'
<1> SUFFICES ASSUME NEW t \in Storer, NEW k \in DOMAIN jobs'[t]
             PROVE  /\ jobs'[t][k].stage = "bin" => jobs'[t][k].id \in bins'
                    /\ jobs'[t][k].kind = "pack" /\ store'[t].err = "none"
                         => jobs'[t][k].stage = "queued" \/ jobs'[t][k].id \in bins'
  BY Zenon DEF JobsHeld, JobKept
<1> DEFINE Moves(u, m) == /\ m \in DOMAIN jobs[u]
                          /\ \/ jobs'[u][m] = jobs[u][m]
                             \/ /\ u = s /\ m = i /\ jobs'[u][m].stage = stage
                                /\ jobs'[u][m].id = jobs[s][i].id /\ jobs'[u][m].kind = jobs[s][i].kind
<1>0. \A u \in Storer : \A m \in DOMAIN jobs'[u] : Moves(u, m)
  BY JobsMoved
<1>1. Moves(t, k)
  BY <1>0, Zenon
<1>2. JobKept(t, jobs[t][k]) /\ bins \subseteq bins' /\ (store'[t].err = "none" => store[t].err = "none")
  BY <1>1, Zenon DEF HeldInv, JobsHeld, Grows
<1>3. CASE jobs'[t][k] = jobs[t][k]
  BY <1>2, <1>3, Zenon DEF JobKept
<1>4. CASE jobs'[t][k] # jobs[t][k]
  BY <1>1, <1>4, Zenon
<1> QED
  BY <1>3, <1>4, Zenon

LEMMA AddedHeld ==
    ASSUME IndexInv, HeldInv, Grows, NEW s \in Storer, NEW j \in UploadJob, jobs' = [jobs EXCEPT ![s] = Append(@, j)],
           j.stage # "bin", store'[s].err = "none" => j.stage = "queued"
    PROVE  JobsHeld'
<1> SUFFICES ASSUME NEW t \in Storer, NEW k \in DOMAIN jobs'[t]
             PROVE  /\ jobs'[t][k].stage = "bin" => jobs'[t][k].id \in bins'
                    /\ jobs'[t][k].kind = "pack" /\ store'[t].err = "none"
                         => jobs'[t][k].stage = "queued" \/ jobs'[t][k].id \in bins'
  BY Zenon DEF JobsHeld, JobKept
<1>1. \/ k \in DOMAIN jobs[t] /\ jobs'[t][k] = jobs[t][k]
      \/ t = s /\ jobs'[t][k] = j
  BY JobsAppended
<1>2. CASE t = s /\ jobs'[t][k] = j
  BY <1>2, Zenon
<1>3. CASE k \in DOMAIN jobs[t] /\ jobs'[t][k] = jobs[t][k]
  <2>1. JobKept(t, jobs[t][k]) /\ bins \subseteq bins' /\ (store'[t].err = "none" => store[t].err = "none")
    BY <1>3, Zenon DEF HeldInv, JobsHeld, Grows
  <2> QED
    BY <1>3, <2>1, Zenon DEF JobKept
<1> QED
  BY <1>1, <1>2, <1>3, Zenon

(* So do the tables of a Storer that keeps them, and the builds. *)
LEMMA SameTablesHeld ==
    ASSUME HeldInv, Grows, \A t \in Storer : store'[t].err = "none" => store'[t].tables = store[t].tables
    PROVE  TablesHeld'
<1> SUFFICES ASSUME NEW t \in Storer, store'[t].err = "none" PROVE Within(store'[t].tables, Kept(t)')
  BY Zenon DEF TablesHeld, Within
<1>1. Within(store[t].tables, Kept(t)) /\ store'[t].tables = store[t].tables
  BY Zenon DEF HeldInv, TablesHeld, Grows
<1>2. Kept(t) \subseteq Kept(t)'
  BY Zenon DEF Kept, Grows
<1> QED
  BY <1>1, <1>2, Zenon DEF Within

LEMMA SameBuildsHeld == ASSUME HeldInv, bins \subseteq bins', UNCHANGED cold PROVE ColdHeld'
  BY Zenon DEF HeldInv, ColdHeld, Within
-----------------------------------------------------------------------------
(* The iterations and the requests. *)
(* What the invariant says of the cold builds and of the .cue files. *)
CuesInv == \A id \in DOMAIN cues : id \in Records /\ cues[id] \in Made
ColdInv ==
    /\ DOMAIN cold = Storer
    /\ \A s \in Storer :
         /\ DOMAIN cold[s] = Builder
         /\ \A b \in Builder : /\ DOMAIN cold[s][b] = {"on", "todo", "got", "before"}
                               /\ cold[s][b].todo \subseteq DOMAIN cues
                               /\ cold[s][b].got \in Seq(Table)

LEMMA ArriveKeeps == ASSUME IndexInv, NEW p \in Plans, Arrive(p) PROVE IndexInv'
<1>1. plan' \in [Storer -> [seals : Seq(Made), writes : Seq(Obj), reads : SUBSET ReadKind,
                           iterates : BOOLEAN, builders : SUBSET Builder]]
  BY PlansMade, Zenon DEF Arrive
<1>2. UNCHANGED <<cues, store, jobs, cold>>
  BY Zenon DEF Arrive
<1> QED
  BY <1>1, <1>2 DEF IndexInv

LEMMA JobCount == ASSUME IndexInv, NEW s \in Storer, NEW kind PROVE Cardinality(JobsOf(s, kind)) \in Nat
<1>1. jobs[s] \in Seq(UploadJob)
  BY Zenon DEF IndexInv
<1>2. JobsOf(s, kind) \in SUBSET (1 .. Len(jobs[s])) /\ Len(jobs[s]) \in Nat
  BY <1>1 DEF JobsOf
<1>3. IsFiniteSet(1 .. Len(jobs[s]))
  BY <1>2, FS_Interval
<1>4. IsFiniteSet(JobsOf(s, kind))
  BY <1>2, <1>3, FS_Subset
<1> QED
  BY <1>4, FS_CardinalityType, Zenon

(* What the next Seal and the next WriteLoose of a plan take. *)
LEMMA SealedContainer ==
    ASSUME IndexInv, NEW s \in Storer, NEW queued, Seal(s, queued)
    PROVE  plan[s].seals[Cardinality(JobsOf(s, "pack")) + 1] \in Made
<1> DEFINE n == Cardinality(JobsOf(s, "pack"))
<1>1. n \in Nat /\ plan[s].seals \in Seq(Made)
  BY JobCount, Zenon DEF IndexInv
<1>2. n < Len(plan[s].seals)
  BY Zenon DEF Seal
<1> HIDE DEF n
<1>3. plan[s].seals[n + 1] \in Made
  BY <1>1, <1>2
<1> QED
  BY <1>3, Zenon DEF n

LEMMA WrittenObject ==
    ASSUME IndexInv, NEW s \in Storer, NEW queued, WriteLoose(s, queued)
    PROVE  plan[s].writes[Cardinality(JobsOf(s, "loose")) + 1] \in Obj
<1> DEFINE n == Cardinality(JobsOf(s, "loose"))
<1>1. n \in Nat /\ plan[s].writes \in Seq(Obj)
  BY JobCount, Zenon DEF IndexInv
<1>2. n < Len(plan[s].writes)
  BY Zenon DEF WriteLoose
<1> HIDE DEF n
<1>3. plan[s].writes[n + 1] \in Obj
  BY <1>1, <1>2
<1> QED
  BY <1>3, Zenon DEF n

LEMMA NoRecordsContainer == NoRecords \in Made /\ NoRecords \in Records
  BY MadeContainer, Zenon DEF Container

LEMMA SealKeeps == ASSUME IndexInv, NEW s \in Storer, NEW queued \in BOOLEAN, Seal(s, queued) PROVE IndexInv'
<1> DEFINE n == Cardinality(JobsOf(s, "pack")) + 1
           c == plan[s].seals[n]
           stage == IF queued THEN "queued" ELSE "bad"
           r == register(store[s], Name(c), c)
           ix == recordErr(r, queued)
           j == [kind |-> "pack", id |-> Name(c), recs |-> c, obj |-> Whole, stage |-> stage]
<1>1. c \in Made
  BY SealedContainer, Zenon
<1> HIDE DEF n
<1>2. /\ store' = [store EXCEPT ![s] = ix]
      /\ jobs' = [jobs EXCEPT ![s] = Append(@, j)]
      /\ UNCHANGED <<plan, cues, cold>>
  <2> USE DEF n
  <2>1. store' = [store EXCEPT ![s] = ix]
    BY Zenon DEF Seal
  <2>2. jobs' = [jobs EXCEPT ![s] = Append(@, j)]
    BY Zenon DEF Seal
  <2>3. UNCHANGED <<plan, cues, cold>>
    BY Zenon DEF Seal
  <2> QED
    BY <2>1, <2>2, <2>3, Zenon
<1>3. Name(c) \in Records
  BY <1>1, NameRecords
<1> HIDE DEF c
<1>4. j \in UploadJob /\ j.stage = stage
  BY <1>1, <1>3, Zenon DEF UploadJob
<1>5. Sound(store[s])
  BY DEF IndexInv
<1>6. Sound(r) /\ r.err = store[s].err
  BY <1>1, <1>3, <1>5, RegisterSound
<1> HIDE DEF r
<1>7. Sound(ix) /\ (r.err # "none" => ix.err # "none") /\ (~queued => ix.err # "none")
  BY <1>6, RecordErrSound, Zenon
<1> HIDE DEF ix
<1>9. Sound(ix) /\ (store[s].err # "none" => ix.err # "none") /\ (stage = "bad" => ix.err # "none")
  BY <1>6, <1>7
<1>10. /\ DOMAIN store' = Storer /\ \A t \in Storer : Sound(store'[t])
       /\ \A t \in Storer : store[t].err # "none" => store'[t].err # "none"
       /\ store'[s] = ix
  BY <1>2, <1>9, StoreStep
<1> HIDE DEF j, stage
<1>11. /\ jobs' \in [Storer -> Seq(UploadJob)]
       /\ \A t \in Storer : \A i \in DOMAIN jobs'[t] : jobs'[t][i].stage = "bad" => store'[t].err # "none"
  BY <1>2, <1>4, <1>9, <1>10, AppendJob, Zenon
<1> QED
  BY <1>2, <1>10, <1>11 DEF IndexInv

LEMMA WriteLooseKeeps ==
    ASSUME IndexInv, NEW s \in Storer, NEW queued \in BOOLEAN, WriteLoose(s, queued) PROVE IndexInv'
<1> DEFINE n == Cardinality(JobsOf(s, "loose")) + 1
           o == plan[s].writes[n]
           r == registerPending(store[s], o, Len(jobs[s]) + 1)
           ix == recordErr(r, queued)
           stage == IF queued THEN "queued" ELSE "bad"
           j == [kind |-> "loose", id |-> NoRecords, recs |-> NoRecords, obj |-> o, stage |-> stage]
<1>1. o \in Obj
  BY WrittenObject, Zenon
<1> HIDE DEF n
<1>2. /\ store' = [store EXCEPT ![s] = ix]
      /\ jobs' = [jobs EXCEPT ![s] = Append(@, j)]
      /\ UNCHANGED <<plan, cues, cold>>
  <2> USE DEF n
  <2>1. store' = [store EXCEPT ![s] = ix]
    BY Zenon DEF WriteLoose
  <2>2. jobs' = [jobs EXCEPT ![s] = Append(@, j)]
    BY Zenon DEF WriteLoose
  <2>3. UNCHANGED <<plan, cues, cold>>
    BY Zenon DEF WriteLoose
  <2> QED
    BY <2>1, <2>2, <2>3, Zenon
<1> HIDE DEF o
<1>4. NoRecords \in Made /\ NoRecords \in Records
  BY NoRecordsContainer, Zenon
<1>5. j \in UploadJob /\ j.stage = stage
  BY <1>1, <1>4 DEF UploadJob
<1>6. Sound(store[s])
  BY Zenon DEF IndexInv
<1>7. Sound(r) /\ r.err = store[s].err
  BY <1>6, OverlaySound
<1> HIDE DEF r
<1>8. Sound(ix) /\ (r.err # "none" => ix.err # "none") /\ (~queued => ix.err # "none")
  BY <1>7, RecordErrSound, Zenon
<1> HIDE DEF ix
<1>9. Sound(ix) /\ (store[s].err # "none" => ix.err # "none") /\ (stage = "bad" => ix.err # "none")
  BY <1>7, <1>8, Zenon
<1>10. /\ DOMAIN store' = Storer /\ \A t \in Storer : Sound(store'[t])
       /\ \A t \in Storer : store[t].err # "none" => store'[t].err # "none"
       /\ store'[s] = ix
  BY <1>2, <1>9, StoreStep
<1> HIDE DEF j, stage
<1>11. /\ jobs' \in [Storer -> Seq(UploadJob)]
       /\ \A t \in Storer : \A i \in DOMAIN jobs'[t] : jobs'[t][i].stage = "bad" => store'[t].err # "none"
  BY <1>2, <1>5, <1>9, <1>10, AppendJob
<1> QED
  BY <1>2, <1>10, <1>11, Zenon DEF IndexInv

(* The answer to a PutObject, the .cue files being as good as they were. *)
LEMMA AnsweredKeeps ==
    ASSUME IndexInv, NEW s \in Storer, NEW i \in DOMAIN jobs[s], NEW ok \in BOOLEAN, NEW next \in {"bin", "good"},
           Answered(s, i, ok, next), CuesInv', DOMAIN cues \subseteq DOMAIN cues'
    PROVE  IndexInv'
<1> DEFINE ix == recordErr(store[s], ok)
           stage == IF ok THEN next ELSE "bad"
<1>1. store' = [store EXCEPT ![s] = ix] /\ Stage(s, i, stage) /\ UNCHANGED <<plan, cold>>
  BY Zenon DEF Answered
<1>2. Sound(store[s])
  BY Zenon DEF IndexInv
<1>3. /\ Sound(ix) /\ (store[s].err # "none" => ix.err # "none")
      /\ ~ok => ix.err # "none"
  BY <1>2, RecordErrSound
<1> HIDE DEF ix
<1>4. /\ DOMAIN store' = Storer /\ \A t \in Storer : Sound(store'[t])
      /\ \A t \in Storer : store[t].err # "none" => store'[t].err # "none"
      /\ store'[s] = ix
  BY <1>1, <1>3, StoreStep
<1>5. stage \in {"queued", "bin", "good", "bad", "unlisted", "gone"} /\ (stage = "bad" => ~ok)
  BY Zenon
<1> HIDE DEF stage
<1>6. /\ jobs' \in [Storer -> Seq(UploadJob)]
      /\ \A t \in Storer : \A k \in DOMAIN jobs'[t] : jobs'[t][k].stage = "bad" => store'[t].err # "none"
  BY <1>1, <1>3, <1>4, <1>5, MoveJob
<1>7. ColdInv'
  <2>1. ColdInv
    BY DEF IndexInv, ColdInv
  <2> QED
    BY <1>1, <2>1, Zenon DEF ColdInv
<1> QED
  BY <1>1, <1>4, <1>6, <1>7 DEF IndexInv, CuesInv, ColdInv

LEMMA PutKeeps ==
    ASSUME IndexInv, NEW s \in Storer, NEW i \in DOMAIN jobs[s], NEW landed \in BOOLEAN, NEW ok \in BOOLEAN,
           PutBin(s, i, landed, ok) \/ PutCue(s, i, landed, ok) \/ PutLoose(s, i, landed, ok)
    PROVE  IndexInv'
<1>1. CuesInv
  BY Zenon DEF IndexInv, CuesInv
<1>2. CASE PutBin(s, i, landed, ok)
  <2>1. Answered(s, i, ok, "bin") /\ UNCHANGED cues
    BY <1>2 DEF PutBin
  <2>2. CuesInv'
    BY <1>1, <2>1, Zenon DEF CuesInv
  <2> QED
    BY <2>1, <2>2, AnsweredKeeps
<1>3. CASE PutCue(s, i, landed, ok)
  <2> DEFINE j == jobs[s][i]
             put == [id \in DOMAIN cues \cup {j.id} |-> IF id = j.id THEN j.recs ELSE cues[id]]
  <2>1. Answered(s, i, ok, "good")
    BY <1>3, Zenon DEF PutCue
  <2>2. cues' = IF landed THEN put ELSE cues
    BY <1>3, Zenon DEF PutCue
  <2>3. j \in UploadJob
    BY DEF IndexInv
  <2>4. j.id \in Records /\ j.recs \in Made
    BY <2>3 DEF UploadJob
  <2> HIDE DEF j
  <2>5. CuesInv'
    BY <1>1, <2>2, <2>4 DEF CuesInv
  <2>6. DOMAIN cues \subseteq DOMAIN cues'
    BY <2>2
  <2> QED
    BY <2>1, <2>5, <2>6, AnsweredKeeps
<1>4. CASE PutLoose(s, i, landed, ok)
  <2>1. Answered(s, i, ok, "good") /\ UNCHANGED cues
    BY <1>4 DEF PutLoose
  <2>2. CuesInv'
    BY <1>1, <2>1 DEF CuesInv
  <2> QED
    BY <2>1, <2>2, AnsweredKeeps
<1> QED
  BY <1>2, <1>3, <1>4

(* done: a pack that failed is deregistered, in a Storer that has failed. *)
LEMMA UnlistKeeps ==
    ASSUME IndexInv, NEW s \in Storer, NEW i \in DOMAIN jobs[s], Unlist(s, i) PROVE IndexInv'
<1> DEFINE j == jobs[s][i]
           ix == IF j.kind = "loose" THEN evict(store[s], j.obj)
                 ELSE IF j.stage = "good" THEN markUploaded(store[s], j.id) ELSE deregister(store[s], j.id)
<1>1. store' = [store EXCEPT ![s] = ix] /\ Stage(s, i, "unlisted")
  BY Zenon DEF Unlist
<1>2. UNCHANGED <<plan, cues, cold>>
  BY Zenon DEF Unlist
<1>3. j.stage = "good" \/ j.stage = "bad"
  BY Zenon DEF Unlist, Job
<1>4. Sound(store[s]) /\ (j.stage = "bad" => store[s].err # "none")
  BY DEF IndexInv
<1> HIDE DEF j
<1>5. Sound(ix) /\ ix.err = store[s].err
  <2>1. CASE j.kind = "loose"
    BY <1>4, <2>1, OverlaySound
  <2>2. CASE j.kind # "loose" /\ j.stage = "good"
    BY <1>4, <2>2, OverlaySound, Zenon
  <2>3. CASE j.kind # "loose" /\ j.stage = "bad"
    BY <1>4, <2>3, DeregisterSound, Zenon
  <2> QED
    BY <1>3, <2>1, <2>2, <2>3, Zenon
<1> HIDE DEF ix
<1>6. /\ DOMAIN store' = Storer /\ \A t \in Storer : Sound(store'[t])
      /\ \A t \in Storer : store[t].err # "none" => store'[t].err # "none"
  BY <1>1, <1>5, StoreStep, ZenonT(30)
<1>7. /\ jobs' \in [Storer -> Seq(UploadJob)]
      /\ \A t \in Storer : \A k \in DOMAIN jobs'[t] : jobs'[t][k].stage = "bad" => store'[t].err # "none"
  BY <1>1, <1>6, MoveJob, Zenon
<1> QED
  BY <1>2, <1>6, <1>7, Zenon DEF IndexInv

LEMMA RemoveStagedKeeps ==
    ASSUME IndexInv, NEW s \in Storer, NEW i \in DOMAIN jobs[s], RemoveStaged(s, i) PROVE IndexInv'
<1>1. Stage(s, i, "gone")
  BY DEF RemoveStaged
<1>2. UNCHANGED <<plan, cues, store, cold>>
  BY DEF RemoveStaged
<1>3. \A t \in Storer : store[t].err # "none" => store'[t].err # "none"
  BY <1>2
<1>4. /\ jobs' \in [Storer -> Seq(UploadJob)]
      /\ \A t \in Storer : \A k \in DOMAIN jobs'[t] : jobs'[t][k].stage = "bad" => store'[t].err # "none"
  BY <1>1, <1>3, MoveJob, Zenon
<1> QED
  BY <1>2, <1>4, Zenon DEF IndexInv

LEMMA FlushKeeps == ASSUME IndexInv, NEW s \in Storer, FlushUploads(s) PROVE IndexInv'
<1> DEFINE ix == [store[s] EXCEPT !.flushed = TRUE]
<1>1. store' = [store EXCEPT ![s] = ix]
  BY DEF FlushUploads
<1>2. UNCHANGED <<plan, cues, jobs, cold>>
  BY Zenon DEF FlushUploads
<1>3. Sound(store[s])
  BY Zenon DEF IndexInv
<1>4. Sound(ix) /\ ix.err = store[s].err
  BY <1>3 DEF Sound, IndexField
<1> HIDE DEF ix
<1>5. /\ DOMAIN store' = Storer /\ \A t \in Storer : Sound(store'[t])
      /\ \A t \in Storer : store[t].err # "none" => store'[t].err # "none"
  BY <1>1, <1>4, StoreStep, ZenonT(30)
<1>6. \A t \in Storer : \A k \in DOMAIN jobs[t] : jobs[t][k].stage = "bad" => store[t].err # "none"
  BY DEF IndexInv
<1>7. \A t \in Storer : \A k \in DOMAIN jobs'[t] : jobs'[t][k].stage = "bad" => store'[t].err # "none"
  BY <1>2, <1>5, <1>6, Zenon
<1> QED
  BY <1>2, <1>5, <1>7, Zenon DEF IndexInv
-----------------------------------------------------------------------------
Building(c) == /\ DOMAIN c = {"on", "todo", "got", "before"}
               /\ c.todo \subseteq DOMAIN cues
               /\ c.got \in Seq(Table)

(* A step that changes one cold build. *)
LEMMA ColdStep ==
    ASSUME ColdInv, NEW s \in Storer, NEW b \in Builder, NEW c, Building(c),
           cold' = [cold EXCEPT ![s] = [@ EXCEPT ![b] = c]], UNCHANGED cues
    PROVE  ColdInv'
<1>1. DOMAIN cold' = Storer /\ cold'[s] = [cold[s] EXCEPT ![b] = c]
      /\ \A t \in Storer \ {s} : cold'[t] = cold[t]
  BY Zenon DEF ColdInv
<1>2. DOMAIN cold'[s] = Builder /\ cold'[s][b] = c /\ \A d \in Builder \ {b} : cold'[s][d] = cold[s][d]
  BY <1>1 DEF ColdInv
<1>3. \A t \in Storer : \A d \in Builder : cold'[t][d] = c \/ cold'[t][d] = cold[t][d]
  BY <1>1, <1>2
<1>4. \A t \in Storer : DOMAIN cold'[t] = Builder
  BY <1>1, <1>2, Zenon DEF ColdInv
<1>5. \A t \in Storer : \A d \in Builder : Building(cold'[t][d])
  BY <1>3 DEF ColdInv, Building
<1> QED
  BY <1>1, <1>4, <1>5 DEF ColdInv, Building

LEMMA ListFetchKeep ==
    ASSUME IndexInv, NEW s \in Storer, NEW b \in Builder,
           ListPacks(s, b) \/ FetchFails(s, b) \/ \E id \in cold[s][b].todo : FetchCue(s, b, id)
    PROVE  IndexInv'
<1>1. ColdInv /\ CuesInv
  BY Zenon DEF IndexInv, ColdInv, CuesInv
<1>2. UNCHANGED <<plan, cues, store, jobs>>
  BY ZenonT(30) DEF ListPacks, FetchFails, FetchCue
<1>3. CASE ListPacks(s, b)
  <2> DEFINE c == [NoCold EXCEPT !.on = TRUE, !.todo = DOMAIN cues, !.before = acked]
  <2>1. cold' = [cold EXCEPT ![s] = [@ EXCEPT ![b] = c]]
    BY <1>3 DEF ListPacks
  <2>2. Building(c)
    BY DEF Building, NoCold
  <2> HIDE DEF c
  <2>3. ColdInv'
    BY <1>1, <1>2, <2>1, <2>2, ColdStep, ZenonT(30)
  <2> QED
    BY <1>2, <2>3, Zenon DEF IndexInv, ColdInv
<1>4. CASE FetchFails(s, b)
  <2>1. cold' = [cold EXCEPT ![s] = [@ EXCEPT ![b] = NoCold]]
    BY <1>4, Zenon DEF FetchFails
  <2>2. Building(NoCold)
    BY DEF Building, NoCold
  <2>3. ColdInv'
    BY <1>1, <1>2, <2>1, <2>2, ColdStep, ZenonT(30)
  <2> QED
    BY <1>2, <2>3, Zenon DEF IndexInv, ColdInv
<1>5. ASSUME NEW id \in cold[s][b].todo, FetchCue(s, b, id) PROVE IndexInv'
  <2> DEFINE t == newPackTable(id, cues[id])
             c == [cold[s][b] EXCEPT !.todo = @ \ {id}, !.got = Append(@, t)]
  <2>1. cold' = [cold EXCEPT ![s] = [@ EXCEPT ![b] = c]]
    BY <1>5, ZenonT(30) DEF FetchCue
  <2>2. Building(cold[s][b])
    BY <1>1 DEF ColdInv, Building
  <2>3. id \in Records /\ cues[id] \in Made
    BY <1>1, <2>2 DEF Building, CuesInv
  <2>4. t \in Table
    BY <2>3, PackTable
  <2> HIDE DEF t
  <2>5. Building(c)
    BY <2>2, <2>4 DEF Building
  <2> HIDE DEF c
  <2>6. ColdInv'
    BY <1>1, <1>2, <2>1, <2>5, ColdStep, ZenonT(30)
  <2> QED
    BY <1>2, <2>6, Zenon DEF IndexInv, ColdInv
<1> QED
  BY <1>3, <1>4, <1>5, Zenon

LEMMA PublishKeeps ==
    ASSUME IndexInv, NEW s \in Storer, NEW b \in Builder, PublishBuild(s, b) PROVE IndexInv'
<1> DEFINE got == cold[s][b].got
           before == cold[s][b].before
           ix == IF store[s].built THEN store[s] ELSE Published(store[s], got, before)
<1>1. store' = [store EXCEPT ![s] = ix]
  BY Zenon DEF PublishBuild
<1>2. cold' = [cold EXCEPT ![s] = [@ EXCEPT ![b] = NoCold]]
  BY Zenon DEF PublishBuild
<1>3. UNCHANGED <<plan, cues, jobs>>
  BY DEF PublishBuild
<1>4. Sound(store[s]) /\ got \in Seq(Table)
  BY DEF IndexInv
<1> HIDE DEF got, before
<1>5. Sound(ix) /\ ix.err = store[s].err
  BY <1>4, PublishSound
<1> HIDE DEF ix
<1>6. /\ DOMAIN store' = Storer /\ \A t \in Storer : Sound(store'[t])
      /\ \A t \in Storer : store[t].err # "none" => store'[t].err # "none"
  BY <1>1, <1>5, StoreStep, ZenonT(30)
<1>7. ColdInv /\ Building(NoCold)
  BY DEF IndexInv, ColdInv, Building, NoCold
<1>8. ColdInv'
  BY <1>2, <1>3, <1>7, ColdStep, ZenonT(30)
<1>9. \A t \in Storer : \A k \in DOMAIN jobs[t] : jobs[t][k].stage = "bad" => store[t].err # "none"
  BY DEF IndexInv
<1>10. \A t \in Storer : \A k \in DOMAIN jobs'[t] : jobs'[t][k].stage = "bad" => store'[t].err # "none"
  BY <1>3, <1>6, <1>9, Zenon
<1> QED
  BY <1>3, <1>6, <1>8, <1>10, Zenon DEF IndexInv, ColdInv

LEMMA IndexInvStep == IndexInv /\ [ObjectStoreNext]_osVars => IndexInv'
<1> SUFFICES ASSUME IndexInv, [ObjectStoreNext]_osVars PROVE IndexInv'
  OBVIOUS
<1>1. ASSUME UNCHANGED <<plan, cues, store, jobs, cold>> PROVE IndexInv'
  BY <1>1 DEF IndexInv
<1>2. CASE UNCHANGED osVars
  BY <1>1, <1>2 DEF osVars
<1>3. CASE \E p \in Plans : Arrive(p)
  BY <1>3, ArriveKeeps, Zenon
<1>4. ASSUME NEW s \in Storer, NEW b \in plan[s].builders,
             \/ ListPacks(s, b) \/ FetchFails(s, b) \/ PublishBuild(s, b)
             \/ \E id \in cold[s][b].todo : FetchCue(s, b, id)
      PROVE  IndexInv'
  <2>1. b \in Builder
    BY DEF IndexInv
  <2> QED
    BY <1>4, <2>1, ListFetchKeep, PublishKeeps, Zenon
<1>5. ASSUME NEW s \in Storer, NEW queued \in BOOLEAN, Seal(s, queued) \/ WriteLoose(s, queued) PROVE IndexInv'
  BY <1>5, SealKeeps, WriteLooseKeeps, Zenon
<1>6. ASSUME NEW s \in Storer, NEW i \in DOMAIN jobs[s], NEW landed \in BOOLEAN, NEW ok \in BOOLEAN,
             PutBin(s, i, landed, ok) \/ PutCue(s, i, landed, ok) \/ PutLoose(s, i, landed, ok)
      PROVE  IndexInv'
  BY <1>6, PutKeeps
<1>7. ASSUME NEW s \in Storer, NEW i \in DOMAIN jobs[s], Unlist(s, i) \/ RemoveStaged(s, i) PROVE IndexInv'
  BY <1>7, UnlistKeeps, RemoveStagedKeeps, Zenon
<1>8. ASSUME NEW s \in Storer, FlushUploads(s) PROVE IndexInv'
  BY <1>8, FlushKeeps, Zenon
<1>9. ASSUME NEW s \in Storer, ReadStep(s) PROVE IndexInv'
  BY <1>1, <1>9, Zenon DEF ReadStep
<1>10. ASSUME NEW s \in Storer, IterStep(s) PROVE IndexInv'
  BY <1>1, <1>10, Zenon DEF IterStep
<1> QED
  BY <1>2, <1>3, <1>4, <1>5, <1>6, <1>7, <1>8, <1>9, <1>10, Zenon DEF ObjectStoreNext

LEMMA IndexInvChainsEnd == IndexInv => ChainsEnd
<1> SUFFICES ASSUME IndexInv, NEW s \in Storer, store[s].err = "none"
             PROVE  CirclesAreSealed(mergeTables(store[s].tables, store[s].dead))
  BY DEF ChainsEnd
<1>1. store[s].dead = {} /\ store[s].tables \in Seq(Table)
  BY DEF IndexInv, Sound
<1>2. mergeTables(store[s].tables, {}) \in Table
  BY <1>1, MergeTable
<1> QED
  BY <1>1, <1>2, TableType, Zenon

(* ChainsEnd for every set of Storers, objects, containers and plans, and every
   bound on the tables: whatever containers are sealed, uploaded, listed, merged
   and registered, in whatever order, following bases through the index of a
   Storer that has not failed ends, or enters a circle that a container was
   sealed with.  When no container has one, it ends. *)
THEOREM ChainsAlwaysEnd == ObjectStoreSpec => []ChainsEnd
<1>1. ObjectStoreInit => IndexInv
  BY IndexInvInit
<1>2. IndexInv /\ [ObjectStoreNext]_osVars => IndexInv'
  BY IndexInvStep, Zenon
<1>3. IndexInv => ChainsEnd
  BY IndexInvChainsEnd, Zenon
<1> QED
  BY <1>1, <1>2, <1>3, PTL DEF ObjectStoreSpec

-----------------------------------------------------------------------------
LEMMA SealHeld ==
    ASSUME IndexInv, HeldInv, NEW s \in Storer, NEW queued \in BOOLEAN, Seal(s, queued) PROVE HeldInv' /\ Grows
<1> DEFINE n == Cardinality(JobsOf(s, "pack")) + 1
           c == plan[s].seals[n]
           r == register(store[s], Name(c), c)
           ix == recordErr(r, queued)
           j == [kind |-> "pack", id |-> Name(c), recs |-> c, obj |-> Whole, stage |-> IF queued THEN "queued" ELSE "bad"]
<1>1. c \in Made
  BY SealedContainer, Zenon
<1>2. store' = [store EXCEPT ![s] = ix] /\ jobs' = [jobs EXCEPT ![s] = Append(@, j)]
  BY Zenon DEF Seal
<1>3. UNCHANGED <<bins, cues, loose, cold, iter>>
  BY Zenon DEF Seal
<1>4. Name(c) \in Records
  BY <1>1, NameRecords
<1> HIDE DEF c
<1>5. j \in UploadJob /\ j.kind = "pack" /\ j.id = Name(c) /\ j.stage # "bin" /\ (queued => j.stage = "queued")
  BY <1>1, <1>4 DEF UploadJob
<1> HIDE DEF j
<1>6. Sound(store[s]) /\ DOMAIN store = Storer
  BY Zenon DEF IndexInv
<1>7. Sound(r) /\ r.err = store[s].err
  BY <1>1, <1>4, <1>6, RegisterSound
<1>8. Sound(ix) /\ (r.err # "none" => ix.err # "none") /\ (~queued => ix.err # "none")
  BY <1>7, RecordErrSound, Zenon
<1>9. ix.tables = r.tables
  BY <1>7, Zenon DEF recordErr, Sound, IndexField
<1> HIDE DEF ix
<1>10. store'[s] = ix /\ \A t \in Storer \ {s} : store'[t] = store[t]
  BY <1>2, <1>6, Zenon
<1>11. \A t \in Storer : Sealed(t) \subseteq Sealed(t)'
  BY <1>2, <1>5, JobsAppended
<1>18. Name(c) \in Sealed(s)'
  <2>1. j.kind = "pack" => j.id \in Sealed(s)'
    BY <1>2, <1>5, JobsAppended
  <2> QED
    BY <1>5, <2>1, Zenon
<1>12. \A t \in Storer : store'[t].err = "none" => store[t].err = "none"
  BY <1>7, <1>8, <1>10, Zenon
<1>13. Grows
  BY <1>3, <1>11, <1>12, Zenon DEF Grows
<1>14. JobsHeld'
  BY <1>2, <1>5, <1>8, <1>10, <1>13, AddedHeld, Zenon
<1>15. TablesHeld'
  <2>1. \A t \in Storer : Kept(t) \subseteq Kept(t)'
    BY <1>13, Zenon DEF Kept, Grows
  <2>2. ASSUME NEW t \in Storer, t # s, store'[t].err = "none" PROVE Within(store'[t].tables, Kept(t)')
    <3>1. Within(store[t].tables, Kept(t)) /\ store'[t].tables = store[t].tables
      BY <1>10, <2>2, Zenon DEF HeldInv, TablesHeld
    <3> QED
      BY <2>1, <3>1, Zenon DEF Within
  <2>3. ASSUME store'[s].err = "none" PROVE Within(store'[s].tables, Kept(s)')
    <3>1. Within(store[s].tables, Kept(s)) /\ store[s].err = "none"
      BY <1>12, <2>3, Zenon DEF HeldInv, TablesHeld
    <3>2. Within(store[s].tables, Kept(s)') /\ Name(c) \in Kept(s)'
      BY <1>18, <2>1, <3>1, Zenon DEF Within, Kept
    <3>3. Within(r.tables, Kept(s)')
      BY <1>1, <1>4, <1>6, <3>1, <3>2, RegisterWithin, Zenon
    <3> QED
      BY <1>9, <1>10, <3>3, Zenon
  <2> QED
    BY <2>2, <2>3, Zenon DEF TablesHeld, Within
<1>16. ColdHeld'
  BY <1>3, SameBuildsHeld, Zenon
<1>17. DOMAIN cues' \subseteq bins' /\ loose' \subseteq Obj \cup {Whole}
  BY <1>3, Zenon DEF HeldInv
<1> QED
  BY <1>13, <1>14, <1>15, <1>16, <1>17, Zenon DEF HeldInv

(* A step that changes one index, its tables aside. *)
LEMMA OneIndex ==
    ASSUME IndexInv, NEW s \in Storer, NEW ix, store' = [store EXCEPT ![s] = ix],
           ix.err = "none" => store[s].err = "none" /\ ix.tables = store[s].tables
    PROVE  /\ \A t \in Storer : store'[t].err = "none" => store[t].err = "none"
           /\ \A t \in Storer : store'[t].err = "none" => store'[t].tables = store[t].tables
           /\ store'[s] = ix
<1>1. DOMAIN store = Storer
  BY Zenon DEF IndexInv
<1>2. store'[s] = ix /\ \A t \in Storer \ {s} : store'[t] = store[t]
  BY <1>1, Zenon
<1>3. ASSUME NEW t \in Storer, store'[t].err = "none"
      PROVE  store[t].err = "none" /\ store'[t].tables = store[t].tables
  BY <1>2, <1>3, Zenon
<1> QED
  BY <1>2, <1>3, Zenon

(* What recordErr does to an index. *)
LEMMA RecordErr ==
    ASSUME NEW ix, Sound(ix), NEW ok \in BOOLEAN
    PROVE  recordErr(ix, ok).err = "none" => ok /\ ix.err = "none" /\ recordErr(ix, ok).tables = ix.tables
<1>1. /\ recordErr(ix, ok).tables = ix.tables
      /\ recordErr(ix, ok).err = IF ok THEN ix.err ELSE "some"
  BY Zenon DEF Sound, recordErr, IndexField
<1> QED
  BY <1>1

LEMMA WriteLooseHeld ==
    ASSUME IndexInv, HeldInv, NEW s \in Storer, NEW queued \in BOOLEAN, WriteLoose(s, queued) PROVE HeldInv' /\ Grows
<1> DEFINE n == Cardinality(JobsOf(s, "loose")) + 1
           o == plan[s].writes[n]
           r == registerPending(store[s], o, Len(jobs[s]) + 1)
           ix == recordErr(r, queued)
           j == [kind |-> "loose", id |-> NoRecords, recs |-> NoRecords, obj |-> o,
                 stage |-> IF queued THEN "queued" ELSE "bad"]
<1>1. o \in Obj
  BY WrittenObject, Zenon
<1>2. store' = [store EXCEPT ![s] = ix] /\ jobs' = [jobs EXCEPT ![s] = Append(@, j)]
  BY Zenon DEF WriteLoose
<1>3. UNCHANGED <<bins, cues, loose, cold, iter>>
  BY Zenon DEF WriteLoose
<1> HIDE DEF o
<1>4. j \in UploadJob /\ j.stage # "bin" /\ (queued => j.stage = "queued")
  BY <1>1, NoRecordsContainer DEF UploadJob
<1> HIDE DEF j
<1>5. Sound(store[s])
  BY Zenon DEF IndexInv
<1>6. Sound(r) /\ r.err = store[s].err
  BY <1>5, OverlaySound
<1>7. r.tables = store[s].tables
  BY <1>5, Zenon DEF registerPending, Sound, IndexField
<1> HIDE DEF r
<1>8. ix.err = "none" => queued /\ store[s].err = "none" /\ ix.tables = store[s].tables
  BY <1>6, <1>7, RecordErr, Zenon
<1> HIDE DEF ix
<1>9. /\ \A t \in Storer : store'[t].err = "none" => store[t].err = "none"
      /\ \A t \in Storer : store'[t].err = "none" => store'[t].tables = store[t].tables
      /\ store'[s] = ix
  BY <1>2, <1>8, OneIndex
<1>10. \A t \in Storer : Sealed(t) \subseteq Sealed(t)'
  BY <1>2, <1>4, JobsAppended
<1>11. Grows
  BY <1>3, <1>9, <1>10, Zenon DEF Grows
<1>12. JobsHeld'
  BY <1>2, <1>4, <1>8, <1>9, <1>11, AddedHeld, Zenon
<1>13. TablesHeld' /\ ColdHeld'
  BY <1>3, <1>9, <1>11, SameTablesHeld, SameBuildsHeld, Zenon
<1>14. DOMAIN cues' \subseteq bins' /\ loose' \subseteq Obj \cup {Whole}
  BY <1>3, Zenon DEF HeldInv
<1> QED
  BY <1>11, <1>12, <1>13, <1>14, Zenon DEF HeldInv

(* The answer to a PutObject: the Storer that goes on without an error has the
   object in the bucket. *)
LEMMA AnsweredHeld ==
    ASSUME IndexInv, HeldInv, NEW s \in Storer, NEW i \in DOMAIN jobs[s], NEW ok \in BOOLEAN, NEW next \in {"bin", "good"},
           Answered(s, i, ok, next), bins \subseteq bins', loose \subseteq loose',
           DOMAIN cues' \subseteq bins', loose' \subseteq Obj \cup {Whole},
           ok /\ jobs[s][i].kind = "pack" => jobs[s][i].id \in bins',
           next = "bin" => jobs[s][i].kind = "pack"
    PROVE  HeldInv' /\ Grows
<1> DEFINE ix == recordErr(store[s], ok)
           stage == IF ok THEN next ELSE "bad"
<1>1. store' = [store EXCEPT ![s] = ix] /\ Stage(s, i, stage) /\ UNCHANGED <<cold, iter>>
  BY Zenon DEF Answered
<1>2. Sound(store[s])
  BY Zenon DEF IndexInv
<1>3. ix.err = "none" => ok /\ store[s].err = "none" /\ ix.tables = store[s].tables
  BY <1>2, RecordErr, Zenon
<1>4. stage = "bin" => ok /\ next = "bin"
  OBVIOUS
<1> HIDE DEF ix, stage
<1>5. /\ \A t \in Storer : store'[t].err = "none" => store[t].err = "none"
      /\ \A t \in Storer : store'[t].err = "none" => store'[t].tables = store[t].tables
      /\ store'[s] = ix
  BY <1>1, <1>3, OneIndex
<1>6. \A t \in Storer : Sealed(t)' = Sealed(t)
  BY <1>1, JobsMoved
<1>7. Grows
  BY <1>1, <1>5, <1>6, Zenon DEF Grows
<1>8. JobsHeld'
  BY <1>1, <1>3, <1>4, <1>5, <1>7, MovedHeld, Zenon
<1>9. TablesHeld' /\ ColdHeld'
  BY <1>1, <1>5, <1>7, SameTablesHeld, SameBuildsHeld, Zenon
<1> QED
  BY <1>7, <1>8, <1>9, Zenon DEF HeldInv

LEMMA PutHeld ==
    ASSUME IndexInv, HeldInv, NEW s \in Storer, NEW i \in DOMAIN jobs[s], NEW landed \in BOOLEAN, NEW ok \in BOOLEAN,
           PutBin(s, i, landed, ok) \/ PutCue(s, i, landed, ok) \/ PutLoose(s, i, landed, ok)
    PROVE  HeldInv' /\ Grows
<1> DEFINE j == jobs[s][i]
<1>1. DOMAIN cues \subseteq bins /\ loose \subseteq Obj \cup {Whole} /\ JobKept(s, j)
  BY Zenon DEF HeldInv, JobsHeld
<1>2. j.obj \in Obj \cup {Whole}
  <2>1. j \in UploadJob
    BY DEF IndexInv
  <2> QED
    BY <2>1, Zenon DEF UploadJob
<1> HIDE DEF j
<1>3. CASE PutBin(s, i, landed, ok)
  <2>1. Answered(s, i, ok, "bin") /\ UNCHANGED <<cues, loose>> /\ j.kind = "pack" /\ (ok => landed)
        /\ bins' = IF landed THEN bins \cup {j.id} ELSE bins
    BY <1>3, Zenon DEF PutBin, j
  <2>2. bins \subseteq bins' /\ (ok => j.id \in bins')
    BY <2>1, Zenon
  <2> QED
    BY <1>1, <2>1, <2>2, AnsweredHeld, Zenon DEF j
<1>4. CASE PutCue(s, i, landed, ok)
  <2> DEFINE put == [id \in DOMAIN cues \cup {j.id} |-> IF id = j.id THEN j.recs ELSE cues[id]]
  <2>1. Answered(s, i, ok, "good") /\ UNCHANGED <<bins, loose>> /\ j.stage = "bin"
        /\ cues' = IF landed THEN put ELSE cues
    BY <1>4, Zenon DEF PutCue, Job, j
  <2>2. j.id \in bins
    BY <1>1, <2>1, Zenon DEF JobKept
  <2>3. DOMAIN cues' \subseteq bins'
    BY <1>1, <2>1, <2>2, Zenon
  <2>4. "good" # "bin"
    OBVIOUS
  <2> QED
    BY <1>1, <2>1, <2>2, <2>3, <2>4, AnsweredHeld, Zenon DEF j
<1>5. CASE PutLoose(s, i, landed, ok)
  <2>1. Answered(s, i, ok, "good") /\ UNCHANGED <<bins, cues>> /\ j.kind = "loose"
        /\ loose' = IF landed THEN loose \cup {j.obj} ELSE loose
    BY <1>5, Zenon DEF PutLoose, j
  <2>2. loose \subseteq loose' /\ loose' \subseteq Obj \cup {Whole}
    BY <1>1, <1>2, <2>1, Zenon
  <2>3. "good" # "bin" /\ j.kind # "pack"
    BY <2>1
  <2> QED
    BY <1>1, <2>1, <2>2, <2>3, AnsweredHeld, Zenon DEF j
<1> QED
  BY <1>3, <1>4, <1>5, Zenon

(* done: in a Storer that has not failed only jobs whose upload ended well get here. *)
LEMMA DoneHeld ==
    ASSUME IndexInv, HeldInv, NEW s \in Storer, NEW i \in DOMAIN jobs[s], Unlist(s, i) \/ RemoveStaged(s, i)
    PROVE  HeldInv' /\ Grows
<1> DEFINE j == jobs[s][i]
           ix == IF j.kind = "loose" THEN evict(store[s], j.obj)
                 ELSE IF j.stage = "good" THEN markUploaded(store[s], j.id) ELSE deregister(store[s], j.id)
           stage == IF Unlist(s, i) THEN "unlisted" ELSE "gone"
<1>1. UNCHANGED <<bins, cues, loose, cold, iter>>
  BY Zenon DEF Unlist, RemoveStaged
<1>2. j.stage \in {"good", "bad", "unlisted"} /\ (Unlist(s, i) => j.stage \in {"good", "bad"})
  BY Zenon DEF Unlist, RemoveStaged, Job
<1>3. Stage(s, i, stage)
  BY Zenon DEF Unlist, RemoveStaged
<1>5. Sound(store[s]) /\ (j.stage = "bad" => store[s].err # "none") /\ JobKept(s, j)
  BY DEF IndexInv, HeldInv, JobsHeld
<1>6. stage # "bin" /\ j.stage # "queued"
  BY <1>2
<1>7. Unlist(s, i) => (ix.err = "none" => store[s].err = "none" /\ ix.tables = store[s].tables)
  <2>1. evict(store[s], j.obj).err = store[s].err /\ evict(store[s], j.obj).tables = store[s].tables
    BY <1>5, Zenon DEF Sound, evict, IndexField
  <2>2. markUploaded(store[s], j.id).err = store[s].err /\ markUploaded(store[s], j.id).tables = store[s].tables
    BY <1>5, Zenon DEF Sound, markUploaded, IndexField
  <2>3. deregister(store[s], j.id).err = store[s].err
    BY <1>5, Zenon DEF Sound, deregister, IndexField
  <2>4. Unlist(s, i) /\ j.stage # "good" => store[s].err # "none"
    BY <1>2, <1>5
  <2> HIDE DEF j
  <2> QED
    BY <2>1, <2>2, <2>3, <2>4, Zenon
<1>4. Unlist(s, i) => store' = [store EXCEPT ![s] = ix]
  BY Zenon DEF Unlist
<1> HIDE DEF stage, ix
<1>8. /\ \A t \in Storer : store'[t].err = "none" => store[t].err = "none"
      /\ \A t \in Storer : store'[t].err = "none" => store'[t].tables = store[t].tables
  <2>1. CASE Unlist(s, i)
    BY <1>4, <1>7, <2>1, OneIndex
  <2>2. CASE RemoveStaged(s, i)
    BY <2>2, Zenon DEF RemoveStaged
  <2> QED
    BY <2>1, <2>2, Zenon
<1>9. \A t \in Storer : Sealed(t)' = Sealed(t)
  BY <1>3, JobsMoved
<1>10. Grows
  BY <1>1, <1>8, <1>9, Zenon DEF Grows
<1>11. j.kind = "pack" /\ store'[s].err = "none" => j.id \in bins'
  BY <1>1, <1>5, <1>6, <1>8, Zenon DEF JobKept
<1>12. JobsHeld'
  BY <1>3, <1>6, <1>10, <1>11, MovedHeld, Zenon
<1>13. TablesHeld' /\ ColdHeld'
  BY <1>1, <1>8, <1>10, SameTablesHeld, SameBuildsHeld, Zenon
<1> QED
  BY <1>1, <1>10, <1>12, <1>13, Zenon DEF HeldInv

LEMMA FlushHeld == ASSUME IndexInv, HeldInv, NEW s \in Storer, FlushUploads(s) PROVE HeldInv' /\ Grows
<1> DEFINE ix == [store[s] EXCEPT !.flushed = TRUE]
<1>1. store' = [store EXCEPT ![s] = ix] /\ UNCHANGED <<bins, cues, loose, jobs, cold, iter>>
  BY Zenon DEF FlushUploads
<1>2. ix.err = store[s].err /\ ix.tables = store[s].tables
  BY Zenon DEF IndexInv, Sound, IndexField
<1> HIDE DEF ix
<1>3. /\ \A t \in Storer : store'[t].err = "none" => store[t].err = "none"
      /\ \A t \in Storer : store'[t].err = "none" => store'[t].tables = store[t].tables
  BY <1>1, <1>2, OneIndex
<1>4. \A t \in Storer : Sealed(t)' = Sealed(t)
  BY <1>1, Zenon DEF Sealed, JobsOf
<1>5. Grows
  BY <1>1, <1>3, <1>4, Zenon DEF Grows
<1>6. JobsHeld'
  BY <1>1, <1>3, Zenon DEF HeldInv, JobsHeld, JobKept
<1>7. TablesHeld' /\ ColdHeld'
  BY <1>1, <1>3, <1>5, SameTablesHeld, SameBuildsHeld, Zenon
<1> QED
  BY <1>1, <1>5, <1>6, <1>7, Zenon DEF HeldInv

(* The cold build: what is listed has its .bin. *)
LEMMA BuildHeld ==
    ASSUME IndexInv, HeldInv, NEW s \in Storer, NEW b \in Builder, NEW c, Within(c.got, bins),
           cold' = [cold EXCEPT ![s] = [@ EXCEPT ![b] = c]], UNCHANGED bins
    PROVE  ColdHeld'
<1>1. DOMAIN cold = Storer /\ DOMAIN cold[s] = Builder
  BY Zenon DEF IndexInv
<1>2. cold'[s] = [cold[s] EXCEPT ![b] = c] /\ \A t \in Storer \ {s} : cold'[t] = cold[t]
  BY <1>1, Zenon
<1>3. cold'[s][b] = c /\ \A d \in Builder \ {b} : cold'[s][d] = cold[s][d]
  BY <1>1, <1>2, Zenon
<1>4. \A t \in Storer : \A d \in Builder : cold'[t][d] = c \/ cold'[t][d] = cold[t][d]
  BY <1>2, <1>3, Zenon
<1>5. \A t \in Storer : \A d \in Builder : Within(cold'[t][d].got, bins)
  BY <1>4, Zenon DEF HeldInv, ColdHeld
<1> QED
  BY <1>5, Zenon DEF ColdHeld, Within

LEMMA NoBuildHeld == Within(NoCold.got, bins)
  BY DEF Within, NoCold

LEMMA ListFetchHeld ==
    ASSUME IndexInv, HeldInv, NEW s \in Storer, NEW b \in Builder,
           ListPacks(s, b) \/ FetchFails(s, b) \/ \E id \in cold[s][b].todo : FetchCue(s, b, id)
    PROVE  HeldInv' /\ Grows
<1>1. UNCHANGED <<bins, cues, loose, store, jobs, iter>>
  BY ZenonT(30) DEF ListPacks, FetchFails, FetchCue
<1>2. ColdHeld'
  <2>1. CASE ListPacks(s, b)
    <3> DEFINE c == [NoCold EXCEPT !.on = TRUE, !.todo = DOMAIN cues, !.before = acked]
    <3>1. cold' = [cold EXCEPT ![s] = [@ EXCEPT ![b] = c]]
      BY <2>1, Zenon DEF ListPacks
    <3>2. c.got = <<>>
      BY DEF NoCold
    <3>3. Within(c.got, bins)
      BY <3>2 DEF Within
    <3> HIDE DEF c
    <3> QED
      BY <1>1, <3>1, <3>3, BuildHeld
  <2>2. CASE FetchFails(s, b)
    <3>1. cold' = [cold EXCEPT ![s] = [@ EXCEPT ![b] = NoCold]]
      BY <2>2, Zenon DEF FetchFails
    <3> QED
      BY <1>1, <3>1, NoBuildHeld, BuildHeld
  <2>3. ASSUME NEW id \in cold[s][b].todo, FetchCue(s, b, id) PROVE ColdHeld'
    <3> DEFINE t == newPackTable(id, cues[id])
               c == [cold[s][b] EXCEPT !.todo = @ \ {id}, !.got = Append(@, t)]
    <3>1. cold' = [cold EXCEPT ![s] = [@ EXCEPT ![b] = c]]
      BY <2>3, ZenonT(30) DEF FetchCue
    <3>2. DOMAIN cold[s][b] = {"on", "todo", "got", "before"} /\ cold[s][b].got \in Seq(Table) /\ id \in bins
      BY DEF IndexInv, HeldInv
    <3>3. t \in Table /\ \A o \in DOMAIN t : t[o].pack = id
      <4>1. id \in Records /\ cues[id] \in Made
        BY DEF IndexInv
      <4> QED
        BY <4>1, PackTable DEF newPackTable
    <3> HIDE DEF t
    <3>4. c.got = Append(cold[s][b].got, t)
      BY <3>2
    <3>5. Within(cold[s][b].got, bins)
      BY Zenon DEF HeldInv, ColdHeld
    <3>6. Within(c.got, bins)
      BY <3>2, <3>3, <3>4, <3>5 DEF Within
    <3> HIDE DEF c
    <3> QED
      BY <1>1, <3>1, <3>6, BuildHeld
  <2> QED
    BY <2>1, <2>2, <2>3, Zenon
<1>3. \A t \in Storer : Sealed(t)' = Sealed(t)
  BY <1>1, Zenon DEF Sealed, JobsOf
<1>4. Grows
  BY <1>1, <1>3, Zenon DEF Grows
<1>5. JobsHeld'
  BY <1>1, Zenon DEF HeldInv, JobsHeld, JobKept
<1>6. TablesHeld'
  BY <1>1, <1>4, SameTablesHeld, Zenon
<1> QED
  BY <1>1, <1>2, <1>4, <1>5, <1>6, Zenon DEF HeldInv

LEMMA PublishHeld ==
    ASSUME IndexInv, HeldInv, NEW s \in Storer, NEW b \in Builder, PublishBuild(s, b) PROVE HeldInv' /\ Grows
<1> DEFINE got == cold[s][b].got
           before == cold[s][b].before
           pub == Published(store[s], got, before)
           ix == IF store[s].built THEN store[s] ELSE pub
<1>1. store' = [store EXCEPT ![s] = ix] /\ cold' = [cold EXCEPT ![s] = [@ EXCEPT ![b] = NoCold]]
  BY Zenon DEF PublishBuild
<1>2. UNCHANGED <<bins, cues, loose, jobs, iter>>
  BY Zenon DEF PublishBuild
<1>3. Sound(store[s]) /\ got \in Seq(Table) /\ DOMAIN store = Storer /\ Within(got, bins)
  BY Zenon DEF IndexInv, HeldInv, ColdHeld
<1> HIDE DEF got, before
<1>4. pub.err = store[s].err
  BY <1>3, PublishSound
<1>5. ASSUME store[s].err = "none" PROVE Within(pub.tables, Kept(s))
  <2>1. Within(store[s].tables, Kept(s)) /\ Within(got, Kept(s))
    BY <1>3, <1>5, Zenon DEF HeldInv, TablesHeld, Kept, Within
  <2> QED
    BY <1>3, <1>5, <2>1, PublishWithin, Zenon
<1> HIDE DEF pub
<1>6. ix.err = store[s].err /\ (store[s].err = "none" => Within(ix.tables, Kept(s)))
  BY <1>4, <1>5, Zenon DEF HeldInv, TablesHeld
<1> HIDE DEF ix
<1>7. store'[s] = ix /\ \A t \in Storer \ {s} : store'[t] = store[t]
  BY <1>1, <1>3, Zenon
<1>8. \A t \in Storer : Sealed(t)' = Sealed(t) /\ Kept(t)' = Kept(t)
  BY <1>2, Zenon DEF Sealed, JobsOf, Kept
<1>9. \A t \in Storer : store'[t].err = store[t].err
  BY <1>6, <1>7, Zenon
<1>10. Grows
  BY <1>2, <1>8, <1>9, Zenon DEF Grows
<1>11. JobsHeld'
  BY <1>2, <1>9, Zenon DEF HeldInv, JobsHeld, JobKept
<1>12. ColdHeld'
  BY <1>1, <1>2, NoBuildHeld, BuildHeld
<1>13. \A t \in Storer : store'[t].err = "none" => Within(store'[t].tables, Kept(t))
  BY <1>6, <1>7, Zenon DEF HeldInv, TablesHeld
<1>14. TablesHeld'
  BY <1>8, <1>13, Zenon DEF TablesHeld, Within
<1> QED
  BY <1>2, <1>10, <1>11, <1>12, <1>14, Zenon DEF HeldInv
-----------------------------------------------------------------------------
(* An iteration: no object that is still to be yielded has been, and, in a
   Storer that has not failed, what is due was yielded or is still to be. *)
WalkGood(it) ==
    /\ DOMAIN it = {"stage", "tables", "dead", "left", "keys", "out", "due"}
    /\ it.left \subseteq order(it.tables, it.dead) /\ it.keys \subseteq Obj \cup {Whole}
    /\ it.out \in Seq(Obj \cup {Whole}) /\ IsInjective(it.out)
    /\ it.stage \in {"none", "list"} => it.out = <<>> /\ it.keys = {}
    /\ \A r \in it.left : r[1] = newest(it.tables, it.dead, r[2]) => r[2] \notin Range(it.out)
    /\ \A o \in it.keys : ~Found(it.tables, it.dead, o) => o \notin Range(it.out)
    /\ it.stage = "end" => it.left = {} /\ it.keys = {}

Awaited(it, objs, o) ==
    \/ o \in Range(it.out)
    \/ Found(it.tables, it.dead, o) /\ <<newest(it.tables, it.dead, o), o>> \in it.left
    \/ ~Found(it.tables, it.dead, o) /\ (o \in it.keys \/ (it.stage = "list" /\ o \in objs))

WalkDue(it, objs) == \A o \in it.due : Awaited(it, objs, o)

WalkInv ==
    /\ DOMAIN iter = Storer
    /\ \A s \in Storer :
         /\ WalkGood(iter[s])
         /\ store[s].err = "none" => WalkDue(iter[s], loose) /\ Within(iter[s].tables, Kept(s))

LEMMA WalkKeeps == ASSUME WalkInv, Grows PROVE WalkInv'
<1>1. iter' = iter /\ loose \subseteq loose'
  BY Zenon DEF Grows
<1>2. \A it : WalkDue(it, loose) => WalkDue(it, loose')
  BY <1>1, Zenon DEF WalkDue, Awaited
<1>3. ASSUME NEW s \in Storer, store'[s].err = "none"
      PROVE  WalkDue(iter[s], loose') /\ Within(iter[s].tables, Kept(s)')
  <2>1. WalkDue(iter[s], loose) /\ Within(iter[s].tables, Kept(s)) /\ Kept(s) \subseteq Kept(s)'
    BY <1>3, Zenon DEF WalkInv, Grows, Kept
  <2> QED
    BY <1>2, <2>1, Zenon DEF Within
<1> QED
  BY <1>1, <1>3, Zenon DEF WalkInv

(* A step of one iteration. *)
LEMMA WalkStep ==
    ASSUME WalkInv, NEW s \in Storer, NEW it, iter' = [iter EXCEPT ![s] = it],
           UNCHANGED <<bins, loose, store, jobs>>, WalkGood(it),
           store[s].err = "none" => WalkDue(it, loose) /\ Within(it.tables, Kept(s))
    PROVE  WalkInv'
<1>1. DOMAIN iter = Storer
  BY Zenon DEF WalkInv
<1>2. DOMAIN iter' = Storer /\ iter'[s] = it /\ \A t \in Storer \ {s} : iter'[t] = iter[t]
  BY <1>1, Zenon
<1>3. \A t \in Storer : Kept(t)' = Kept(t)
  BY Zenon DEF Kept, Sealed, JobsOf
<1>4. \A t \in Storer : WalkGood(iter'[t])
  BY <1>2, Zenon DEF WalkInv
<1>5. \A t \in Storer : store[t].err = "none" => WalkDue(iter'[t], loose) /\ Within(iter'[t].tables, Kept(t))
  BY <1>2, Zenon DEF WalkInv
<1>6. \A t \in Storer : store'[t].err = "none" => WalkDue(iter'[t], loose') /\ Within(iter'[t].tables, Kept(t)')
  BY <1>3, <1>5, Zenon
<1> QED
  BY <1>2, <1>4, <1>6, Zenon DEF WalkInv

LEMMA Yields ==
    ASSUME NEW S, NEW q \in Seq(S), NEW x \in S, IsInjective(q), x \notin Range(q)
    PROVE  /\ Append(q, x) \in Seq(S) /\ IsInjective(Append(q, x))
           /\ Range(Append(q, x)) = Range(q) \cup {x}
<1> DEFINE new == Append(q, x)
           n == Len(q) + 1
<1>1. /\ new \in Seq(S) /\ DOMAIN new = DOMAIN q \cup {n} /\ n \notin DOMAIN q
      /\ new[n] = x /\ \A i \in DOMAIN q : new[i] = q[i]
  OBVIOUS
<1> HIDE DEF new, n
<1>2. \A i \in DOMAIN q : q[i] # x
  BY Zenon DEF Range
<1>3. IsInjective(new)
  BY <1>1, <1>2, Zenon DEF IsInjective
<1>4. Range(new) = Range(q) \cup {x}
  BY <1>1 DEF Range
<1> QED
  BY <1>1, <1>3, <1>4, Zenon DEF new

LEMMA SnapshotKeeps ==
    ASSUME IndexInv, HeldInv, WalkInv, NEW s \in Storer, IterSnapshot(s), UNCHANGED <<bins, loose, store, jobs>>
    PROVE  WalkInv'
<1> DEFINE ix == store[s]
           due == {o \in Due(s) : o \in loose \/ Found(ix.tables, ix.dead, o)}
           it == [NoIter EXCEPT !.stage = "list", !.tables = ix.tables, !.dead = ix.dead,
                                !.left = order(ix.tables, ix.dead), !.due = due]
<1>1. iter' = [iter EXCEPT ![s] = it]
  BY Zenon DEF IterSnapshot
<1> HIDE DEF due
<1>2. /\ DOMAIN it = {"stage", "tables", "dead", "left", "keys", "out", "due"}
      /\ it.stage = "list" /\ it.tables = ix.tables /\ it.dead = ix.dead
      /\ it.left = order(ix.tables, ix.dead) /\ it.keys = {} /\ it.out = <<>> /\ it.due = due
  BY DEF NoIter
<1> HIDE DEF it
<1>3. <<>> \in Seq(Obj \cup {Whole}) /\ IsInjective(<<>>) /\ Range(<<>>) = {}
  BY DEF IsInjective, Range
<1>4. it.stage # "end"
  BY <1>2
<1>5. WalkGood(it)
  BY <1>2, <1>3, <1>4, Zenon DEF WalkGood
<1>6. ASSUME ix.err = "none" PROVE WalkDue(it, loose) /\ Within(it.tables, Kept(s))
  <2>1. Within(it.tables, Kept(s))
    BY <1>2, <1>6, Zenon DEF HeldInv, TablesHeld
  <2>2. ix.dead = {} /\ ix.tables \in Seq(Table)
    BY <1>6, Zenon DEF IndexInv, Sound
  <2>3. ASSUME NEW o \in due PROVE Awaited(it, loose, o)
    <3>1. CASE Found(ix.tables, ix.dead, o)
      <4>1. newest(ix.tables, ix.dead, o) \in Holders(ix.tables, ix.dead, o)
        BY <2>2, <3>1, NewestHolds, Zenon
      <4>2. newest(ix.tables, ix.dead, o) \in DOMAIN ix.tables /\ o \in DOMAIN ix.tables[newest(ix.tables, ix.dead, o)]
        BY <4>1, Zenon DEF Holders
      <4>3. o \in Obj
        BY <2>2, <4>2, TableType
      <4>4. <<newest(ix.tables, ix.dead, o), o>> \in order(ix.tables, ix.dead)
        BY <4>1, <4>2, <4>3 DEF order
      <4> QED
        BY <1>2, <3>1, <4>4, Zenon DEF Awaited
    <3>2. CASE ~Found(ix.tables, ix.dead, o)
      <4>1. o \in loose
        BY <3>2, Zenon DEF due
      <4> QED
        BY <1>2, <3>2, <4>1, Zenon DEF Awaited
    <3> QED
      BY <3>1, <3>2, Zenon
  <2>4. WalkDue(it, loose)
    BY <1>2, <2>3, Zenon DEF WalkDue
  <2> QED
    BY <2>1, <2>4, Zenon
<1> HIDE DEF ix
<1> QED
  BY <1>1, <1>5, <1>6, WalkStep, Zenon DEF ix

(* The steps of a walk change one iteration. *)
LEMMA ListKeeps ==
    ASSUME HeldInv, WalkInv, NEW s \in Storer, IterList(s), UNCHANGED <<bins, loose, store, jobs>> PROVE WalkInv'
<1> DEFINE old == iter[s]
           it == [old EXCEPT !.stage = "walk", !.keys = loose]
<1>1. old.stage = "list" /\ WalkGood(old)
  BY Zenon DEF IterList, WalkInv
<1>2. iter' = [iter EXCEPT ![s] = it]
  BY DEF IterList, WalkInv
<1>3. /\ DOMAIN it = DOMAIN old /\ it.stage = "walk" /\ it.keys = loose
      /\ it.tables = old.tables /\ it.dead = old.dead /\ it.left = old.left /\ it.out = old.out /\ it.due = old.due
  BY <1>1 DEF WalkGood
<1> HIDE DEF it
<1>4. old.out = <<>> /\ old.keys = {} /\ Range(<<>>) = {} /\ "walk" # "end" /\ "walk" \notin {"none", "list"}
  BY <1>1 DEF WalkGood, Range
<1>5. loose \subseteq Obj \cup {Whole}
  BY Zenon DEF HeldInv
<1> HIDE DEF old
<1>6. WalkGood(it)
  BY <1>1, <1>3, <1>4, <1>5, Zenon DEF WalkGood
<1>7. ASSUME store[s].err = "none" PROVE WalkDue(it, loose) /\ Within(it.tables, Kept(s))
  <2>1. WalkDue(old, loose) /\ Within(old.tables, Kept(s))
    BY <1>7, Zenon DEF WalkInv, old
  <2>2. WalkDue(it, loose)
    <3> SUFFICES ASSUME NEW o \in old.due PROVE Awaited(it, loose, o)
      BY <1>3, Zenon DEF WalkDue
    <3>1. Awaited(old, loose, o)
      BY <2>1, Zenon DEF WalkDue
    <3>2. o \notin Range(old.out)
      BY <1>4, Zenon
    <3>3. CASE Found(old.tables, old.dead, o)
      BY <1>3, <3>1, <3>2, <3>3, Zenon DEF Awaited
    <3>4. CASE ~Found(old.tables, old.dead, o)
      <4>1. o \in loose
        BY <1>4, <3>1, <3>2, <3>4, Zenon DEF Awaited
      <4> QED
        BY <1>3, <3>4, <4>1, Zenon DEF Awaited
    <3> QED
      BY <3>3, <3>4, Zenon
  <2> QED
    BY <1>3, <2>1, <2>2, Zenon
<1> QED
  BY <1>2, <1>6, <1>7, WalkStep, Zenon

(* What a Storer that has not failed has sealed can be read, from the bucket or from its disk. *)
LEMMA KeptReadable ==
    ASSUME HeldInv, NEW s \in Storer, store[s].err = "none", NEW id \in Kept(s) PROVE id \in bins \/ BinOnDisk(s, id)
<1>1. CASE id \in Sealed(s)
  <2>1. PICK i \in DOMAIN jobs[s] : jobs[s][i].kind = "pack" /\ jobs[s][i].id = id
    BY <1>1, Zenon DEF Sealed, JobsOf
  <2>2. JobKept(s, jobs[s][i])
    BY Zenon DEF HeldInv, JobsHeld
  <2>3. "queued" # "gone"
    OBVIOUS
  <2>4. jobs[s][i].stage = "queued" => BinOnDisk(s, id)
    BY <2>1, <2>3, Zenon DEF BinOnDisk, OnDisk
  <2> QED
    BY <2>1, <2>2, <2>4, Zenon DEF JobKept
<1> QED
  BY <1>1, Zenon DEF Kept

LEMMA PackedKeeps ==
    ASSUME HeldInv, WalkInv, NEW s \in Storer, IterPacked(s), UNCHANGED <<bins, loose, store, jobs>> PROVE WalkInv'
<1> DEFINE old == iter[s]
           r == CHOOSE r \in old.left : TRUE
           e == old.tables[r[1]][r[2]]
           yields == r[1] = newest(old.tables, old.dead, r[2]) /\ (e.pack \in bins \/ BinOnDisk(s, e.pack))
           it == [old EXCEPT !.left = @ \ {r}, !.out = IF yields THEN Append(@, r[2]) ELSE @]
<1>1. old.stage = "walk" /\ old.left # {} /\ WalkGood(old)
  BY Zenon DEF IterPacked, WalkInv
<1>2. iter' = [iter EXCEPT ![s] = it]
  BY DEF IterPacked, WalkInv
<1>3. r \in old.left
  BY <1>1, Zenon
<1> HIDE DEF r, yields
<1>4. /\ DOMAIN it = DOMAIN old /\ it.left = old.left \ {r} /\ it.out = IF yields THEN Append(old.out, r[2]) ELSE old.out
      /\ it.stage = old.stage /\ it.tables = old.tables /\ it.dead = old.dead /\ it.keys = old.keys /\ it.due = old.due
  BY <1>1 DEF WalkGood
<1> HIDE DEF it
<1>5. \A q \in old.left : q = <<q[1], q[2]>> /\ q[1] \in Holders(old.tables, old.dead, q[2]) /\ q[2] \in Obj
  BY <1>1 DEF WalkGood, order
<1>6. Found(old.tables, old.dead, r[2])
  BY <1>3, <1>5, Zenon DEF Found
<1>7. "walk" # "end" /\ "walk" \notin {"none", "list"}
  OBVIOUS
<1> HIDE DEF old
<1>8. /\ it.out \in Seq(Obj \cup {Whole}) /\ IsInjective(it.out)
      /\ Range(it.out) = IF yields THEN Range(old.out) \cup {r[2]} ELSE Range(old.out)
  <2>1. old.out \in Seq(Obj \cup {Whole}) /\ IsInjective(old.out)
    BY <1>1, Zenon DEF WalkGood
  <2>2. CASE yields
    <3>1. r[2] \notin Range(old.out) /\ r[2] \in Obj \cup {Whole}
      BY <1>1, <1>3, <1>5, <2>2, Zenon DEF WalkGood, yields
    <3> DEFINE S == Obj \cup {Whole}
               q == old.out
               y == r[2]
    <3>2. q \in Seq(S) /\ y \in S /\ IsInjective(q) /\ y \notin Range(q)
      BY <2>1, <3>1, Zenon
    <3> HIDE DEF S, q, y
    <3>3. Append(q, y) \in Seq(S) /\ IsInjective(Append(q, y)) /\ Range(Append(q, y)) = Range(q) \cup {y}
      BY <3>2, Yields
    <3> QED
      BY <1>4, <2>2, <3>3, Zenon DEF S, q, y
  <2>3. CASE ~yields
    BY <1>4, <2>1, <2>3, Zenon
  <2> QED
    BY <2>2, <2>3, Zenon
<1>9. ASSUME NEW q \in it.left, q[1] = newest(it.tables, it.dead, q[2]) PROVE q[2] \notin Range(it.out)
  <2>1. q \in old.left /\ q # r /\ q[2] \notin Range(old.out)
    BY <1>1, <1>4, <1>9, Zenon DEF WalkGood
  <2>2. ASSUME yields PROVE q[2] # r[2]
    <3>1. ASSUME q[2] = r[2] PROVE q[1] = r[1]
      BY <1>4, <1>9, <2>2, <3>1, Zenon DEF yields
    <3> QED
      BY <1>3, <1>5, <2>1, <3>1, Zenon
  <2> QED
    BY <1>8, <2>1, <2>2, Zenon
<1>10. ASSUME NEW o \in it.keys, ~Found(it.tables, it.dead, o) PROVE o \notin Range(it.out)
  <2>1. o \notin Range(old.out)
    BY <1>1, <1>4, <1>10, Zenon DEF WalkGood
  <2>2. o # r[2]
    BY <1>4, <1>6, <1>10, Zenon
  <2> QED
    BY <1>8, <2>1, <2>2, Zenon
<1>11. WalkGood(it)
  BY <1>1, <1>4, <1>7, <1>8, <1>9, <1>10, Zenon DEF WalkGood
<1>12. ASSUME store[s].err = "none" PROVE WalkDue(it, loose) /\ Within(it.tables, Kept(s))
  <2>1. WalkDue(old, loose) /\ Within(old.tables, Kept(s))
    BY <1>12, Zenon DEF WalkInv, old
  <2>2. e.pack \in bins \/ BinOnDisk(s, e.pack)
    <3>1. r[1] \in DOMAIN old.tables /\ r[2] \in DOMAIN old.tables[r[1]]
      BY <1>3, <1>5, Zenon DEF Holders
    <3>2. e.pack \in Kept(s)
      BY <2>1, <3>1, Zenon DEF Within
    <3> QED
      BY <1>12, <3>2, KeptReadable, Zenon
  <2>3. ASSUME NEW o \in old.due PROVE Awaited(it, loose, o)
    <3>1. Awaited(old, loose, o)
      BY <2>1, Zenon DEF WalkDue
    <3>2. CASE o \in Range(old.out)
      BY <1>8, <3>2, Zenon DEF Awaited
    <3>3. CASE Found(old.tables, old.dead, o) /\ <<newest(old.tables, old.dead, o), o>> \in old.left
      <4>1. CASE r = <<newest(old.tables, old.dead, o), o>>
        <5>1. r[1] = newest(old.tables, old.dead, o) /\ r[2] = o
          BY <4>1
        <5>2. yields
          BY <2>2, <5>1, Zenon DEF yields
        <5> QED
          BY <1>8, <5>1, <5>2, Zenon DEF Awaited
      <4>2. CASE r # <<newest(old.tables, old.dead, o), o>>
        BY <1>4, <3>3, <4>2, Zenon DEF Awaited
      <4> QED
        BY <4>1, <4>2, Zenon
    <3>4. CASE ~Found(old.tables, old.dead, o) /\ o \notin Range(old.out)
      BY <1>4, <3>1, <3>4, Zenon DEF Awaited
    <3> QED
      BY <3>1, <3>2, <3>3, <3>4, Zenon DEF Awaited
  <2> QED
    BY <1>4, <2>1, <2>3, Zenon DEF WalkDue
<1> QED
  BY <1>2, <1>11, <1>12, WalkStep, Zenon

LEMMA LooseKeeps ==
    ASSUME HeldInv, WalkInv, NEW s \in Storer, IterLoose(s), UNCHANGED <<bins, loose, store, jobs>> PROVE WalkInv'
<1> DEFINE old == iter[s]
           x == CHOOSE x \in old.keys : TRUE
           packed == Found(old.tables, old.dead, x)
           it == [old EXCEPT !.keys = @ \ {x}, !.out = IF packed THEN @ ELSE Append(@, x)]
<1>1. old.stage = "walk" /\ old.left = {} /\ old.keys # {} /\ WalkGood(old)
  BY Zenon DEF IterLoose, WalkInv
<1>2. iter' = [iter EXCEPT ![s] = it]
  BY DEF IterLoose, WalkInv
<1>3. x \in old.keys
  BY <1>1, Zenon
<1> HIDE DEF x, packed
<1>4. /\ DOMAIN it = DOMAIN old /\ it.keys = old.keys \ {x} /\ it.out = IF packed THEN old.out ELSE Append(old.out, x)
      /\ it.stage = old.stage /\ it.tables = old.tables /\ it.dead = old.dead /\ it.left = old.left /\ it.due = old.due
  BY <1>1 DEF WalkGood
<1> HIDE DEF it, old
<1>5. "walk" # "end" /\ "walk" \notin {"none", "list"}
  OBVIOUS
<1>6. /\ it.out \in Seq(Obj \cup {Whole}) /\ IsInjective(it.out)
      /\ Range(it.out) = IF packed THEN Range(old.out) ELSE Range(old.out) \cup {x}
  <2>1. old.out \in Seq(Obj \cup {Whole}) /\ IsInjective(old.out)
    BY <1>1, Zenon DEF WalkGood
  <2>2. CASE ~packed
    <3>1. x \notin Range(old.out) /\ x \in Obj \cup {Whole}
      BY <1>1, <1>3, <2>2, Zenon DEF WalkGood, packed
    <3> DEFINE S == Obj \cup {Whole}
               q == old.out
               y == x
    <3>2. q \in Seq(S) /\ y \in S /\ IsInjective(q) /\ y \notin Range(q)
      BY <2>1, <3>1, Zenon
    <3> HIDE DEF S, q, y
    <3>3. Append(q, y) \in Seq(S) /\ IsInjective(Append(q, y)) /\ Range(Append(q, y)) = Range(q) \cup {y}
      BY <3>2, Yields
    <3> QED
      BY <1>4, <2>2, <3>3, Zenon DEF S, q, y
  <2>3. CASE packed
    BY <1>4, <2>1, <2>3, Zenon
  <2> QED
    BY <2>2, <2>3, Zenon
<1>7. ASSUME NEW o \in it.keys, ~Found(it.tables, it.dead, o) PROVE o \notin Range(it.out)
  BY <1>1, <1>4, <1>6, <1>7, Zenon DEF WalkGood
<1>8. WalkGood(it)
  BY <1>1, <1>4, <1>5, <1>6, <1>7, Zenon DEF WalkGood
<1>9. ASSUME store[s].err = "none" PROVE WalkDue(it, loose) /\ Within(it.tables, Kept(s))
  <2>1. WalkDue(old, loose) /\ Within(old.tables, Kept(s))
    BY <1>9, Zenon DEF WalkInv, old
  <2>2. ASSUME NEW o \in old.due PROVE Awaited(it, loose, o)
    <3>1. Awaited(old, loose, o)
      BY <2>1, Zenon DEF WalkDue
    <3>2. CASE o \in Range(old.out)
      BY <1>6, <3>2, Zenon DEF Awaited
    <3>3. CASE o \notin Range(old.out)
      <4>1. ~Found(old.tables, old.dead, o) /\ (o \in old.keys \/ (old.stage = "list" /\ o \in loose))
        BY <1>1, <3>1, <3>3, Zenon DEF Awaited
      <4>2. o = x => ~packed
        BY <4>1, Zenon DEF packed
      <4> QED
        BY <1>4, <1>6, <4>1, <4>2, Zenon DEF Awaited
    <3> QED
      BY <3>2, <3>3, Zenon
  <2> QED
    BY <1>4, <2>1, <2>2, Zenon DEF WalkDue
<1> QED
  BY <1>2, <1>8, <1>9, WalkStep, Zenon

LEMMA EndKeeps ==
    ASSUME HeldInv, WalkInv, NEW s \in Storer, IterEnd(s), UNCHANGED <<bins, loose, store, jobs>> PROVE WalkInv'
<1> DEFINE old == iter[s]
           it == [old EXCEPT !.stage = "end"]
<1>1. old.stage = "walk" /\ old.left = {} /\ old.keys = {} /\ WalkGood(old)
  BY Zenon DEF IterEnd, WalkInv
<1>2. iter' = [iter EXCEPT ![s] = it]
  BY Zenon DEF IterEnd
<1>3. /\ DOMAIN it = DOMAIN old /\ it.keys = old.keys /\ it.out = old.out
      /\ it.stage = "end" /\ it.tables = old.tables /\ it.dead = old.dead /\ it.left = old.left /\ it.due = old.due
  BY <1>1 DEF WalkGood
<1>4. "end" \notin {"none", "list"} /\ "walk" # "list"
  OBVIOUS
<1> HIDE DEF it, old
<1>5. WalkGood(it)
  BY <1>1, <1>3, <1>4, Zenon DEF WalkGood
<1>6. ASSUME store[s].err = "none" PROVE WalkDue(it, loose) /\ Within(it.tables, Kept(s))
  <2>1. WalkDue(old, loose) /\ Within(old.tables, Kept(s))
    BY <1>6, Zenon DEF WalkInv, old
  <2>2. ASSUME NEW o \in old.due PROVE o \in Range(old.out)
    BY <1>1, <1>4, <2>1, <2>2, Zenon DEF WalkDue, Awaited
  <2> QED
    BY <1>3, <2>1, <2>2, Zenon DEF WalkDue, Awaited
<1> QED
  BY <1>2, <1>5, <1>6, WalkStep, Zenon

LEMMA UnchangedHeld == ASSUME HeldInv, UNCHANGED <<bins, cues, loose, store, jobs, cold>> PROVE HeldInv'
<1>1. JobsHeld'
  BY Zenon DEF HeldInv, JobsHeld, JobKept
<1>2. ColdHeld'
  BY Zenon DEF HeldInv, ColdHeld, Within
<1>3. \A t \in Storer : Kept(t)' = Kept(t)
  BY Zenon DEF Kept, Sealed, JobsOf
<1>4. \A t \in Storer : store'[t].err = "none" => Within(store'[t].tables, Kept(t)')
  BY <1>3, Zenon DEF HeldInv, TablesHeld
<1>5. TablesHeld'
  BY <1>4, Zenon DEF TablesHeld, Within
<1> QED
  BY <1>1, <1>2, <1>5, Zenon DEF HeldInv

LEMMA IterKeeps == ASSUME IndexInv, HeldInv, WalkInv, NEW s \in Storer, IterStep(s) PROVE HeldInv' /\ WalkInv'
<1>1. UNCHANGED <<bins, cues, loose, store, jobs, cold>>
  BY Zenon DEF IterStep
<1>2. WalkInv'
  <2>1. IterSnapshot(s) \/ IterList(s) \/ IterPacked(s) \/ IterLoose(s) \/ IterEnd(s)
    BY Zenon DEF IterStep
  <2> QED
    BY <1>1, <2>1, SnapshotKeeps, ListKeeps, PackedKeeps, LooseKeeps, EndKeeps, Zenon
<1>3. HeldInv'
  BY <1>1, UnchangedHeld, Zenon
<1> QED
  BY <1>2, <1>3, Zenon

LEMMA HeldStep ==
    ASSUME IndexInv, HeldInv, WalkInv, [ObjectStoreNext]_osVars PROVE HeldInv' /\ WalkInv'
<1>1. ASSUME UNCHANGED <<bins, cues, loose, store, jobs, cold, iter>> PROVE HeldInv' /\ WalkInv'
  <2>1. HeldInv'
    BY <1>1, UnchangedHeld, Zenon
  <2>2. \A t \in Storer : Sealed(t)' = Sealed(t)
    BY <1>1, Zenon DEF Sealed, JobsOf
  <2>3. Grows
    BY <1>1, <2>2, Zenon DEF Grows
  <2> QED
    BY <2>1, <2>3, WalkKeeps, Zenon
<1>2. CASE UNCHANGED osVars
  BY <1>1, <1>2, Zenon DEF osVars
<1>3. CASE \E p \in Plans : Arrive(p)
  BY <1>1, <1>3, Zenon DEF Arrive
<1>4. ASSUME NEW s \in Storer, NEW b \in plan[s].builders,
             \/ ListPacks(s, b) \/ FetchFails(s, b) \/ PublishBuild(s, b)
             \/ \E id \in cold[s][b].todo : FetchCue(s, b, id)
      PROVE  HeldInv' /\ WalkInv'
  <2>1. b \in Builder
    BY DEF IndexInv
  <2>2. HeldInv' /\ Grows
    BY <1>4, <2>1, ListFetchHeld, PublishHeld, Zenon
  <2> QED
    BY <2>2, WalkKeeps, Zenon
<1>5. ASSUME NEW s \in Storer, NEW queued \in BOOLEAN, Seal(s, queued) \/ WriteLoose(s, queued)
      PROVE  HeldInv' /\ WalkInv'
  BY <1>5, SealHeld, WriteLooseHeld, WalkKeeps, Zenon
<1>6. ASSUME NEW s \in Storer, NEW i \in DOMAIN jobs[s], NEW landed \in BOOLEAN, NEW ok \in BOOLEAN,
             PutBin(s, i, landed, ok) \/ PutCue(s, i, landed, ok) \/ PutLoose(s, i, landed, ok)
      PROVE  HeldInv' /\ WalkInv'
  BY <1>6, PutHeld, WalkKeeps, Zenon
<1>7. ASSUME NEW s \in Storer, NEW i \in DOMAIN jobs[s], Unlist(s, i) \/ RemoveStaged(s, i) PROVE HeldInv' /\ WalkInv'
  BY <1>7, DoneHeld, WalkKeeps, Zenon
<1>8. ASSUME NEW s \in Storer, FlushUploads(s) PROVE HeldInv' /\ WalkInv'
  BY <1>8, FlushHeld, WalkKeeps, Zenon
<1>9. ASSUME NEW s \in Storer, ReadStep(s) PROVE HeldInv' /\ WalkInv'
  BY <1>1, <1>9, Zenon DEF ReadStep
<1>10. ASSUME NEW s \in Storer, IterStep(s) PROVE HeldInv' /\ WalkInv'
  BY <1>10, IterKeeps, Zenon
<1> QED
  BY <1>2, <1>3, <1>4, <1>5, <1>6, <1>7, <1>8, <1>9, <1>10, Zenon DEF ObjectStoreNext

LEMMA HeldInit == ObjectStoreInit => HeldInv /\ WalkInv
<1> SUFFICES ASSUME ObjectStoreInit PROVE HeldInv /\ WalkInv
  OBVIOUS
<1>1. DOMAIN cues \subseteq bins /\ loose = {}
  BY Zenon DEF ObjectStoreInit
<1>2. JobsHeld
  <2>1. \A s \in Storer : jobs[s] = <<>>
    BY Zenon DEF ObjectStoreInit
  <2> QED
    BY <2>1 DEF JobsHeld
<1>3. ColdHeld
  <2>1. \A s \in Storer : \A b \in Builder : cold[s][b] = NoCold
    BY Zenon DEF ObjectStoreInit
  <2> QED
    BY <2>1, NoBuildHeld, Zenon DEF ColdHeld
<1>4. TablesHeld
  <2>1. \A s \in Storer : store[s].tables = <<>>
    BY DEF ObjectStoreInit
  <2> QED
    BY <2>1 DEF TablesHeld, Within
<1>5. HeldInv
  BY <1>1, <1>2, <1>3, <1>4, Zenon DEF HeldInv
<1>6. DOMAIN iter = Storer /\ \A s \in Storer : iter[s] = NoIter
  BY Zenon DEF ObjectStoreInit
<1>7. /\ DOMAIN NoIter = {"stage", "tables", "dead", "left", "keys", "out", "due"}
      /\ NoIter.left = {} /\ NoIter.keys = {} /\ NoIter.due = {} /\ NoIter.out = <<>> /\ NoIter.tables = <<>>
      /\ <<>> \in Seq(Obj \cup {Whole}) /\ IsInjective(<<>>)
  BY DEF NoIter, IsInjective
<1>8. WalkGood(NoIter) /\ WalkDue(NoIter, loose)
  BY <1>7, Zenon DEF WalkGood, WalkDue
<1>9. \A P : Within(NoIter.tables, P)
  BY <1>7 DEF Within
<1>10. WalkInv
  BY <1>6, <1>8, <1>9, Zenon DEF WalkInv
<1> QED
  BY <1>5, <1>10

LEMMA WalkInvComplete == WalkInv => IterationComplete
<1> SUFFICES ASSUME WalkInv, NEW s \in Storer, iter[s].stage = "end"
             PROVE  IsInjective(iter[s].out) /\ (store[s].err = "none" => iter[s].due \subseteq Range(iter[s].out))
  BY Zenon DEF IterationComplete
<1>1. WalkGood(iter[s]) /\ (store[s].err = "none" => WalkDue(iter[s], loose))
  BY Zenon DEF WalkInv
<1>2. "end" # "list"
  OBVIOUS
<1>3. IsInjective(iter[s].out) /\ iter[s].left = {} /\ iter[s].keys = {}
  BY <1>1, Zenon DEF WalkGood
<1>4. ASSUME store[s].err = "none", NEW o \in iter[s].due PROVE o \in Range(iter[s].out)
  BY <1>1, <1>2, <1>3, <1>4, Zenon DEF WalkDue, Awaited
<1> QED
  BY <1>3, <1>4, Zenon

(* IterationComplete for every set of Storers, objects, containers and plans,
   and every bound on the tables: IterEncodedObjects yields no object twice,
   whatever the tables and the loose keys share, and in a Storer none of whose
   uploads failed it yields all that was in the index or loose when it began,
   whichever packs are uploaded, unlisted and removed from disk meanwhile. *)
THEOREM IterationsComplete == ObjectStoreSpec => []IterationComplete
<1>1. ObjectStoreInit => IndexInv /\ HeldInv /\ WalkInv
  BY IndexInvInit, HeldInit, Zenon
<1>2. IndexInv /\ HeldInv /\ WalkInv /\ [ObjectStoreNext]_osVars => (IndexInv /\ HeldInv /\ WalkInv)'
  BY IndexInvStep, HeldStep, Zenon
<1>3. WalkInv => IterationComplete
  BY WalkInvComplete
<1> QED
  BY <1>1, <1>2, <1>3, PTL DEF ObjectStoreSpec
-----------------------------------------------------------------------------
(* What a flush covered stays.  The objects of a job that is over are in the
   bucket, in packs P or in the loose objects L, unless an upload of its Storer
   failed; a .cue is only ever replaced by one of the same name, hence of the
   same objects but for the empty one. *)
Landed(j, P, L) == IF j.kind = "pack" THEN j.id \in P ELSE j.obj \in L
JobLands(j, err, P, L) ==
    /\ j.kind = "pack" => j.id = Name(j.recs)
    /\ j.stage = "bin" => j.kind = "pack"
    /\ err = "none" /\ j.stage \in {"good", "unlisted", "gone"} => Landed(j, P, L)
JobsLand == \A s \in Storer : \A i \in DOMAIN jobs[s] : JobLands(jobs[s][i], store[s].err, DOMAIN cues, loose)

NamesFit == \A id \in DOMAIN cues : Name(cues[id]) = id
AckedStay == acked \ Empty \subseteq loose \cup UNION {DOMAIN id : id \in DOMAIN cues}
AckInv == NamesFit /\ JobsLand /\ AckedStay

(* The bucket only gains objects, and a Storer that failed stays so. *)
Lasts ==
    /\ DOMAIN cues \subseteq DOMAIN cues' /\ loose \subseteq loose'
    /\ \A t \in Storer : store'[t].err = "none" => store[t].err = "none"

LEMMA AckedLasts == ASSUME AckInv, Lasts, acked' = acked PROVE AckedStay'
  BY Zenon DEF AckInv, Lasts, AckedStay

(* A job that is not touched, one that moves, and one that is added. *)
LEMMA SameLands ==
    ASSUME AckInv, Lasts, NEW t \in Storer, NEW k \in DOMAIN jobs[t]
    PROVE  JobLands(jobs[t][k], store'[t].err, DOMAIN cues', loose')
<1>1. JobLands(jobs[t][k], store[t].err, DOMAIN cues, loose)
  BY Zenon DEF AckInv, JobsLand
<1>2. DOMAIN cues \subseteq DOMAIN cues' /\ loose \subseteq loose' /\ (store'[t].err = "none" => store[t].err = "none")
  BY Zenon DEF Lasts
<1> QED
  BY <1>1, <1>2, Zenon DEF JobLands, Landed

LEMMA MovedLands ==
    ASSUME IndexInv, AckInv, Lasts, NEW s \in Storer, NEW i \in DOMAIN jobs[s], NEW stage, Stage(s, i, stage),
           stage = "bin" => jobs[s][i].kind = "pack",
           store'[s].err = "none" /\ stage \in {"good", "unlisted", "gone"} => Landed(jobs[s][i], DOMAIN cues', loose')
    PROVE  JobsLand'
<1> DEFINE Moves(u, m) == /\ m \in DOMAIN jobs[u]
                          /\ \/ jobs'[u][m] = jobs[u][m]
                             \/ /\ u = s /\ m = i /\ jobs'[u][m].stage = stage
                                /\ jobs'[u][m].id = jobs[s][i].id /\ jobs'[u][m].kind = jobs[s][i].kind
                                /\ jobs'[u][m].recs = jobs[s][i].recs /\ jobs'[u][m].obj = jobs[s][i].obj
<1>0. \A u \in Storer : \A m \in DOMAIN jobs'[u] : Moves(u, m)
  BY JobsMoved
<1>1. ASSUME NEW t \in Storer, NEW k \in DOMAIN jobs'[t] PROVE JobLands(jobs'[t][k], store'[t].err, DOMAIN cues', loose')
  <2>1. Moves(t, k)
    BY <1>0, Zenon
  <2>2. CASE jobs'[t][k] = jobs[t][k]
    BY <2>1, <2>2, SameLands, Zenon
  <2>3. CASE jobs'[t][k] # jobs[t][k]
    <3> DEFINE j == jobs'[t][k]
    <3>1. /\ t = s /\ j.stage = stage /\ j.id = jobs[s][i].id /\ j.kind = jobs[s][i].kind
          /\ j.recs = jobs[s][i].recs /\ j.obj = jobs[s][i].obj
      BY <2>1, <2>3, Zenon
    <3>2. jobs[s][i].kind = "pack" => jobs[s][i].id = Name(jobs[s][i].recs)
      BY Zenon DEF AckInv, JobsLand, JobLands
    <3> QED
      BY <3>1, <3>2, Zenon DEF JobLands, Landed
  <2> QED
    BY <2>2, <2>3, Zenon
<1> QED
  BY <1>1, Zenon DEF JobsLand, JobLands, Landed, Name, Restrict

LEMMA AddedLands ==
    ASSUME IndexInv, AckInv, Lasts, NEW s \in Storer, NEW j \in UploadJob, jobs' = [jobs EXCEPT ![s] = Append(@, j)],
           j.stage \in {"queued", "bad"}, j.kind = "pack" => j.id = Name(j.recs)
    PROVE  JobsLand'
<1>1. \A t \in Storer : \A k \in DOMAIN jobs'[t] : \/ k \in DOMAIN jobs[t] /\ jobs'[t][k] = jobs[t][k]
                                                   \/ t = s /\ jobs'[t][k] = j
  BY JobsAppended
<1>2. j.stage \notin {"bin", "good", "unlisted", "gone"}
  OBVIOUS
<1>3. ASSUME NEW t \in Storer PROVE JobLands(j, store'[t].err, DOMAIN cues', loose')
  BY <1>2, Zenon DEF JobLands
<1>4. ASSUME NEW t \in Storer, NEW k \in DOMAIN jobs'[t] PROVE JobLands(jobs'[t][k], store'[t].err, DOMAIN cues', loose')
  BY <1>1, <1>3, SameLands, Zenon
<1> QED
  BY <1>4, Zenon DEF JobsLand, JobLands, Landed, Name, Restrict

(* The steps that leave the bucket and the jobs alone. *)
LEMMA QuietAck ==
    ASSUME AckInv, UNCHANGED <<cues, loose, jobs, acked>>,
           \A t \in Storer : store'[t].err = "none" => store[t].err = "none"
    PROVE  AckInv'
<1>1. Lasts
  BY Zenon DEF Lasts
<1>2. NamesFit' /\ AckedStay'
  BY <1>1, AckedLasts, Zenon DEF AckInv, NamesFit, Name, Restrict
<1>3. ASSUME NEW t \in Storer, NEW k \in DOMAIN jobs'[t] PROVE JobLands(jobs'[t][k], store'[t].err, DOMAIN cues', loose')
  BY <1>1, SameLands, Zenon
<1>4. JobsLand'
  BY <1>3, Zenon DEF JobsLand, JobLands, Landed, Name, Restrict
<1> QED
  BY <1>2, <1>4, Zenon DEF AckInv

LEMMA SealAck ==
    ASSUME IndexInv, HeldInv, AckInv, NEW s \in Storer, NEW queued \in BOOLEAN, Seal(s, queued) PROVE AckInv'
<1> DEFINE n == Cardinality(JobsOf(s, "pack")) + 1
           c == plan[s].seals[n]
           j == [kind |-> "pack", id |-> Name(c), recs |-> c, obj |-> Whole, stage |-> IF queued THEN "queued" ELSE "bad"]
<1>1. c \in Made
  BY SealedContainer, Zenon
<1>2. jobs' = [jobs EXCEPT ![s] = Append(@, j)] /\ UNCHANGED <<cues, loose, acked>>
  BY Zenon DEF Seal
<1>3. Name(c) \in Records
  BY <1>1, NameRecords
<1> HIDE DEF c
<1>4. j \in UploadJob /\ j.stage \in {"queued", "bad"} /\ j.id = Name(j.recs)
  BY <1>1, <1>3 DEF UploadJob
<1> HIDE DEF j
<1>5. Lasts
  BY <1>2, SealHeld, Zenon DEF Lasts, Grows
<1>6. JobsLand'
  BY <1>2, <1>4, <1>5, AddedLands, Zenon
<1>7. NamesFit' /\ AckedStay'
  BY <1>2, <1>5, AckedLasts, Zenon DEF AckInv, NamesFit, Name, Restrict
<1> QED
  BY <1>6, <1>7, Zenon DEF AckInv

LEMMA WriteLooseAck ==
    ASSUME IndexInv, HeldInv, AckInv, NEW s \in Storer, NEW queued \in BOOLEAN, WriteLoose(s, queued) PROVE AckInv'
<1> DEFINE n == Cardinality(JobsOf(s, "loose")) + 1
           o == plan[s].writes[n]
           j == [kind |-> "loose", id |-> NoRecords, recs |-> NoRecords, obj |-> o,
                 stage |-> IF queued THEN "queued" ELSE "bad"]
<1>1. o \in Obj
  BY WrittenObject, Zenon
<1>2. jobs' = [jobs EXCEPT ![s] = Append(@, j)] /\ UNCHANGED <<cues, loose, acked>>
  BY Zenon DEF WriteLoose
<1> HIDE DEF o
<1>3. j \in UploadJob /\ j.stage \in {"queued", "bad"} /\ j.kind # "pack"
  BY <1>1, NoRecordsContainer DEF UploadJob
<1> HIDE DEF j
<1>4. Lasts
  BY <1>2, WriteLooseHeld, Zenon DEF Lasts, Grows
<1>5. JobsLand'
  BY <1>2, <1>3, <1>4, AddedLands, Zenon
<1>6. NamesFit' /\ AckedStay'
  BY <1>2, <1>4, AckedLasts, Zenon DEF AckInv, NamesFit, Name, Restrict
<1> QED
  BY <1>5, <1>6, Zenon DEF AckInv

(* The answer to a PutObject: only one that was good ends a job well. *)
LEMMA AnsweredAck ==
    ASSUME IndexInv, AckInv, Lasts, NEW s \in Storer, NEW i \in DOMAIN jobs[s], NEW ok \in BOOLEAN,
           NEW next \in {"bin", "good"}, Answered(s, i, ok, next), next = "bin" => jobs[s][i].kind = "pack",
           ok /\ next = "good" => Landed(jobs[s][i], DOMAIN cues', loose')
    PROVE  JobsLand' /\ AckedStay'
<1> DEFINE stage == IF ok THEN next ELSE "bad"
<1>1. Stage(s, i, stage) /\ acked' = acked
  BY Zenon DEF Answered
<1>2. (stage = "bin" => next = "bin") /\ (stage \in {"good", "unlisted", "gone"} => ok /\ next = "good")
  OBVIOUS
<1> HIDE DEF stage
<1>3. JobsLand'
  BY <1>1, <1>2, MovedLands, Zenon
<1> QED
  BY <1>1, <1>3, AckedLasts, Zenon

LEMMA PutAck ==
    ASSUME IndexInv, HeldInv, AckInv, NEW s \in Storer, NEW i \in DOMAIN jobs[s], NEW landed \in BOOLEAN, NEW ok \in BOOLEAN,
           PutBin(s, i, landed, ok) \/ PutCue(s, i, landed, ok) \/ PutLoose(s, i, landed, ok)
    PROVE  AckInv'
<1> DEFINE j == jobs[s][i]
<1>1. /\ \A t \in Storer : store'[t].err = "none" => store[t].err = "none"
      /\ (j.kind = "pack" => j.id = Name(j.recs)) /\ (j.stage = "bin" => j.kind = "pack")
  <2>1. Grows
    BY PutHeld, Zenon
  <2>2. JobLands(j, store[s].err, DOMAIN cues, loose)
    BY Zenon DEF AckInv, JobsLand
  <2> QED
    BY <2>1, <2>2, Zenon DEF Grows, JobLands
<1> HIDE DEF j
<1>2. CASE PutBin(s, i, landed, ok)
  <2>1. Answered(s, i, ok, "bin") /\ UNCHANGED <<cues, loose>> /\ j.kind = "pack"
    BY <1>2, Zenon DEF PutBin, j
  <2>2. Lasts /\ NamesFit' /\ "bin" # "good"
    BY <1>1, <2>1 DEF Lasts, AckInv, NamesFit, Name, Restrict
  <2> QED
    BY <2>1, <2>2, AnsweredAck, Zenon DEF AckInv, j
<1>3. CASE PutCue(s, i, landed, ok)
  <2> DEFINE put == [id \in DOMAIN cues \cup {j.id} |-> IF id = j.id THEN j.recs ELSE cues[id]]
  <2>1. /\ Answered(s, i, ok, "good") /\ UNCHANGED loose /\ j.stage = "bin" /\ (ok => landed)
        /\ cues' = IF landed THEN put ELSE cues
    BY <1>3, Zenon DEF PutCue, Job, j
  <2>2. DOMAIN put = DOMAIN cues \cup {j.id} /\ \A id \in DOMAIN put : Name(put[id]) = id
    BY <1>1, <2>1, Zenon DEF AckInv, NamesFit
  <2> HIDE DEF put
  <2>3. Lasts
    BY <1>1, <2>1, <2>2, Zenon DEF Lasts
  <2>4. \A id \in DOMAIN cues' : Name(cues'[id]) = id
    BY <2>1, <2>2, Zenon DEF AckInv, NamesFit
  <2>5. NamesFit'
    BY <2>4, Zenon DEF NamesFit, Name, Restrict
  <2>6. ok => Landed(j, DOMAIN cues', loose')
    BY <1>1, <2>1, <2>2, Zenon DEF Landed
  <2>7. "good" # "bin"
    OBVIOUS
  <2> QED
    BY <2>1, <2>3, <2>5, <2>6, <2>7, AnsweredAck, Zenon DEF AckInv, j
<1>4. CASE PutLoose(s, i, landed, ok)
  <2>1. /\ Answered(s, i, ok, "good") /\ UNCHANGED cues /\ j.kind = "loose" /\ (ok => landed)
        /\ loose' = IF landed THEN loose \cup {j.obj} ELSE loose
    BY <1>4, Zenon DEF PutLoose, j
  <2>2. Lasts /\ NamesFit'
    BY <1>1, <2>1, Zenon DEF Lasts, AckInv, NamesFit, Name, Restrict
  <2>3. "good" # "bin" /\ j.kind # "pack"
    BY <2>1
  <2>4. ok => Landed(j, DOMAIN cues', loose')
    BY <2>1, <2>3, Zenon DEF Landed
  <2> QED
    BY <2>1, <2>2, <2>3, <2>4, AnsweredAck, Zenon DEF AckInv, j
<1> QED
  BY <1>2, <1>3, <1>4, Zenon

(* done: a job that is not good has failed its Storer. *)
LEMMA DoneAck ==
    ASSUME IndexInv, HeldInv, AckInv, NEW s \in Storer, NEW i \in DOMAIN jobs[s], Unlist(s, i) \/ RemoveStaged(s, i)
    PROVE  AckInv'
<1> DEFINE j == jobs[s][i]
           stage == IF Unlist(s, i) THEN "unlisted" ELSE "gone"
<1>1. UNCHANGED <<cues, loose, acked>> /\ Stage(s, i, stage)
  BY Zenon DEF Unlist, RemoveStaged
<1>2. Lasts
  BY <1>1, DoneHeld, Zenon DEF Lasts, Grows
<1>3. j.stage \in {"good", "bad", "unlisted"} /\ (j.stage = "bad" => store[s].err # "none")
  BY Zenon DEF Unlist, RemoveStaged, Job, IndexInv
<1>4. store[s].err = "none" => j.stage \in {"good", "unlisted", "gone"}
  BY <1>3, Zenon
<1>5. JobLands(j, store'[s].err, DOMAIN cues', loose')
  BY <1>2, SameLands, Zenon
<1>6. store'[s].err = "none" => Landed(j, DOMAIN cues', loose')
  BY <1>2, <1>4, <1>5, Zenon DEF JobLands, Lasts
<1>7. stage # "bin"
  OBVIOUS
<1> HIDE DEF stage
<1>8. JobsLand'
  BY <1>1, <1>2, <1>6, <1>7, MovedLands, Zenon
<1>9. NamesFit' /\ AckedStay'
  BY <1>1, <1>2, AckedLasts, Zenon DEF AckInv, NamesFit, Name, Restrict
<1> QED
  BY <1>8, <1>9, Zenon DEF AckInv

(* flush: what it acknowledges has landed. *)
LEMMA FlushAck == ASSUME IndexInv, HeldInv, AckInv, NEW s \in Storer, FlushUploads(s) PROVE AckInv'
<1>1. /\ UNCHANGED <<cues, loose, jobs>> /\ \A i \in DOMAIN jobs[s] : jobs[s][i].stage = "gone"
      /\ acked' = IF store[s].err # "none" THEN acked ELSE acked \cup Own(s)
  BY Zenon DEF FlushUploads, OnDisk
<1>2. Lasts
  BY <1>1, FlushHeld, Zenon DEF Lasts, Grows
<1>3. NamesFit'
  BY <1>1, Zenon DEF AckInv, NamesFit, Name, Restrict
<1>4. ASSUME NEW t \in Storer, NEW k \in DOMAIN jobs'[t] PROVE JobLands(jobs'[t][k], store'[t].err, DOMAIN cues', loose')
  BY <1>1, <1>2, SameLands, Zenon
<1>5. JobsLand'
  BY <1>4, Zenon DEF JobsLand, JobLands, Landed, Name, Restrict
<1>6. ASSUME store[s].err = "none", NEW o \in Own(s), o \notin Empty
      PROVE  o \in loose \cup UNION {DOMAIN id : id \in DOMAIN cues}
  <2>1. PICK i \in DOMAIN jobs[s] : o \in Carried(jobs[s][i])
    BY Zenon DEF Own
  <2> DEFINE j == jobs[s][i]
  <2>2. JobLands(j, store[s].err, DOMAIN cues, loose) /\ j.stage \in {"good", "unlisted", "gone"}
    BY <1>1, Zenon DEF AckInv, JobsLand
  <2>3. Landed(j, DOMAIN cues, loose) /\ (j.kind = "pack" => j.id = Name(j.recs))
    BY <1>6, <2>2, Zenon DEF JobLands
  <2>4. CASE j.kind = "pack"
    <3>1. j.id \in DOMAIN cues /\ o \in DOMAIN j.recs
      BY <2>1, <2>3, <2>4, Zenon DEF Landed, Carried
    <3>2. DOMAIN j.id = DOMAIN j.recs \ Empty
      BY <2>3, <2>4, Zenon DEF Name, Restrict
    <3> QED
      BY <1>6, <3>1, <3>2, Zenon
  <2>5. CASE j.kind # "pack"
    BY <2>1, <2>3, <2>5, Zenon DEF Landed, Carried
  <2> QED
    BY <2>4, <2>5, Zenon
<1>7. AckedStay'
  BY <1>1, <1>6, Zenon DEF AckedStay, AckInv
<1> QED
  BY <1>3, <1>5, <1>7, Zenon DEF AckInv

LEMMA AckStep == ASSUME IndexInv, HeldInv, AckInv, [ObjectStoreNext]_osVars PROVE AckInv'
<1>1. ASSUME UNCHANGED <<cues, loose, store, jobs, acked>> PROVE AckInv'
  BY <1>1, QuietAck, Zenon
<1>2. CASE UNCHANGED osVars
  BY <1>1, <1>2, Zenon DEF osVars
<1>3. CASE \E p \in Plans : Arrive(p)
  BY <1>1, <1>3, Zenon DEF Arrive
<1>4. ASSUME NEW s \in Storer, NEW b \in plan[s].builders,
             \/ ListPacks(s, b) \/ FetchFails(s, b) \/ PublishBuild(s, b)
             \/ \E id \in cold[s][b].todo : FetchCue(s, b, id)
      PROVE  AckInv'
  <2>1. b \in Builder
    BY DEF IndexInv
  <2>2. \A t \in Storer : store'[t].err = "none" => store[t].err = "none"
    BY <1>4, <2>1, ListFetchHeld, PublishHeld, Zenon DEF Grows
  <2>3. UNCHANGED <<cues, loose, jobs, acked>>
    BY <1>4, Zenon DEF ListPacks, FetchFails, PublishBuild, FetchCue
  <2> QED
    BY <2>2, <2>3, QuietAck, Zenon
<1>5. ASSUME NEW s \in Storer, NEW queued \in BOOLEAN, Seal(s, queued) \/ WriteLoose(s, queued) PROVE AckInv'
  BY <1>5, SealAck, WriteLooseAck, Zenon
<1>6. ASSUME NEW s \in Storer, NEW i \in DOMAIN jobs[s], NEW landed \in BOOLEAN, NEW ok \in BOOLEAN,
             PutBin(s, i, landed, ok) \/ PutCue(s, i, landed, ok) \/ PutLoose(s, i, landed, ok)
      PROVE  AckInv'
  BY <1>6, PutAck, Zenon
<1>7. ASSUME NEW s \in Storer, NEW i \in DOMAIN jobs[s], Unlist(s, i) \/ RemoveStaged(s, i) PROVE AckInv'
  BY <1>7, DoneAck, Zenon
<1>8. ASSUME NEW s \in Storer, FlushUploads(s) PROVE AckInv'
  BY <1>8, FlushAck, Zenon
<1>9. ASSUME NEW s \in Storer, ReadStep(s) PROVE AckInv'
  BY <1>1, <1>9, Zenon DEF ReadStep
<1>10. ASSUME NEW s \in Storer, IterStep(s) PROVE AckInv'
  BY <1>1, <1>10, Zenon DEF IterStep
<1> QED
  BY <1>2, <1>3, <1>4, <1>5, <1>6, <1>7, <1>8, <1>9, <1>10, Zenon DEF ObjectStoreNext

LEMMA AckInit == ObjectStoreInit => AckInv
<1> SUFFICES ASSUME ObjectStoreInit PROVE AckInv
  OBVIOUS
<1>1. /\ bins = {Name(c) : c \in Stored} /\ cues = [id \in bins |-> CHOOSE c \in Stored : Name(c) = id]
      /\ acked = UNION {DOMAIN c : c \in Stored} /\ \A s \in Storer : jobs[s] = <<>>
  BY Zenon DEF ObjectStoreInit
<1>2. DOMAIN cues = bins
  BY <1>1, Zenon
<1>3. NamesFit
  <2> SUFFICES ASSUME NEW id \in bins PROVE Name(CHOOSE c \in Stored : Name(c) = id) = id
    BY <1>1, <1>2, Zenon DEF NamesFit
  <2>1. \E c \in Stored : Name(c) = id
    BY <1>1, Zenon
  <2> QED
    BY <2>1, Zenon
<1>4. JobsLand
  <2> SUFFICES ASSUME NEW s \in Storer, NEW i \in DOMAIN jobs[s] PROVE FALSE
    BY Zenon DEF JobsLand
  <2> QED
    BY <1>1
<1>5. AckedStay
  <2>1. ASSUME NEW o \in acked, o \notin Empty PROVE o \in UNION {DOMAIN id : id \in DOMAIN cues}
    <3>1. PICK c \in Stored : o \in DOMAIN c
      BY <1>1, Zenon
    <3>2. Name(c) \in DOMAIN cues /\ DOMAIN Name(c) = DOMAIN c \ Empty
      BY <1>1, <1>2, Zenon DEF Name, Restrict
    <3> QED
      BY <2>1, <3>1, <3>2, Zenon
  <2> QED
    BY <2>1, Zenon DEF AckedStay
<1> QED
  BY <1>3, <1>4, <1>5, Zenon DEF AckInv

(* What a new Storer finds, for every order in which the .cue objects may be
   listed: every .cue has its .bin; each object of bytes that a flush covered
   has a record or is loose; a record leads to a pack with a .bin, and its base
   has a record too; and following bases ends, or enters the circle of one
   container.  This is DurableObjectsStay without the length of a chain. *)
FlushedStay ==
    /\ DOMAIN cues \subseteq bins
    /\ \A q \in Seq(DOMAIN cues) : Range(q) = DOMAIN cues =>
         LET t == mergeTables([i \in DOMAIN q |-> newPackTable(q[i], cues[q[i]])], {})
         IN  /\ acked \ Empty \subseteq DOMAIN t \cup loose
             /\ \A o \in DOMAIN t : t[o].pack \in bins /\ t[o].base \in DOMAIN t \cup {Whole}
             /\ CirclesAreSealed(t)

LEMMA AckInvStays == IndexInv /\ HeldInv /\ AckInv => FlushedStay
<1> SUFFICES ASSUME IndexInv, HeldInv, AckInv PROVE FlushedStay
  OBVIOUS
<1>1. DOMAIN cues \subseteq bins
  BY Zenon DEF HeldInv
<1>2. ASSUME NEW q \in Seq(DOMAIN cues), Range(q) = DOMAIN cues
      PROVE  LET t == mergeTables([i \in DOMAIN q |-> newPackTable(q[i], cues[q[i]])], {})
             IN  /\ acked \ Empty \subseteq DOMAIN t \cup loose
                 /\ \A o \in DOMAIN t : t[o].pack \in bins /\ t[o].base \in DOMAIN t \cup {Whole}
                 /\ CirclesAreSealed(t)
  <2> DEFINE tables == [i \in DOMAIN q |-> newPackTable(q[i], cues[q[i]])]
             t == mergeTables(tables, {})
  <2>1. \A i \in DOMAIN q : q[i] \in DOMAIN cues
    OBVIOUS
  <2>2. \A i \in DOMAIN q : newPackTable(q[i], cues[q[i]]) \in Table
    BY <2>1, PackTable, Zenon DEF IndexInv
  <2>3. tables \in Seq(Table)
    <3>1. Len(q) \in Nat /\ DOMAIN q = 1 .. Len(q)
      OBVIOUS
    <3>2. tables \in [1 .. Len(q) -> Table]
      BY <2>2, <3>1, Zenon
    <3> HIDE DEF tables
    <3> QED
      BY <3>1, <3>2
  <2>4. /\ DOMAIN tables = DOMAIN q
        /\ \A i \in DOMAIN q : /\ DOMAIN tables[i] = DOMAIN cues[q[i]]
                               /\ \A o \in DOMAIN tables[i] : tables[i][o].pack = q[i]
    BY Zenon DEF newPackTable
  <2> HIDE DEF tables
  <2>5. t \in Table
    BY <2>3, MergeTable, Zenon
  <2>6. DOMAIN t = Findable(tables) /\ \A o \in Findable(tables) : t[o] = lookup(tables, {}, o)
    BY Zenon DEF mergeTables, Findable
  <2> HIDE DEF t
  <2>7. ASSUME NEW o \in DOMAIN t PROVE t[o].pack \in bins
    <3>1. Found(tables, {}, o)
      BY <2>6, Zenon DEF Findable
    <3>2. PICK i \in DOMAIN tables : o \in DOMAIN tables[i] /\ lookup(tables, {}, o) = tables[i][o]
      BY <2>3, <3>1, Newest, Zenon
    <3>3. t[o] = tables[i][o]
      BY <2>6, <3>2, Zenon
    <3>4. t[o].pack = q[i] /\ q[i] \in DOMAIN cues
      BY <2>1, <2>4, <3>2, <3>3, Zenon
    <3> QED
      BY <1>1, <3>4, Zenon
  <2>8. ASSUME NEW o \in acked, o \notin Empty, o \notin loose PROVE o \in DOMAIN t
    <3>1. PICK id \in DOMAIN cues : o \in DOMAIN id
      BY <2>8, Zenon DEF AckInv, AckedStay
    <3>2. PICK i \in DOMAIN q : q[i] = id
      BY <1>2, <3>1, Zenon DEF Range
    <3>3. DOMAIN id = DOMAIN cues[id] \ Empty
      <4>1. id = Name(cues[id])
        BY <3>1, Zenon DEF AckInv, NamesFit
      <4>2. DOMAIN Name(cues[id]) = DOMAIN cues[id] \ Empty
        BY Zenon DEF Name, Restrict
      <4> QED
        BY <4>1, <4>2, Zenon
    <3>4. i \in DOMAIN tables /\ o \in DOMAIN tables[i]
      BY <2>4, <3>1, <3>2, <3>3, Zenon
    <3> QED
      BY <2>3, <2>6, <3>4, HolderFinds, Zenon
  <2>9. acked \ Empty \subseteq DOMAIN t \cup loose
    BY <2>8, Zenon
  <2>10. /\ \A o \in DOMAIN t : t[o].base \in DOMAIN t \cup {Whole}
         /\ CirclesAreSealed(t)
    BY <2>5, TableType, Zenon
  <2> QED
    BY <2>7, <2>9, <2>10, Zenon DEF t, tables
<1> QED
  BY <1>1, <1>2, Zenon DEF FlushedStay

(* FlushedStay for every set of Storers, objects, containers and plans: once
   flush has returned no error, every later cold build finds the objects of the
   push, whatever other pushes upload, fail to upload or overwrite with a .cue
   of the same name, and it finds them behind chains that end, or that enter a
   circle which one container was sealed with. *)
THEOREM FlushedObjectsStay == ObjectStoreSpec => []FlushedStay
<1>1. ObjectStoreInit => IndexInv /\ HeldInv /\ WalkInv /\ AckInv
  BY IndexInvInit, HeldInit, AckInit, Zenon
<1>2. IndexInv /\ HeldInv /\ WalkInv /\ AckInv /\ [ObjectStoreNext]_osVars => (IndexInv /\ HeldInv /\ WalkInv /\ AckInv)'
  BY IndexInvStep, HeldStep, AckStep, Zenon
<1>3. IndexInv /\ HeldInv /\ AckInv => FlushedStay
  BY AckInvStays
<1> QED
  BY <1>1, <1>2, <1>3, PTL DEF ObjectStoreSpec
=============================================================================
