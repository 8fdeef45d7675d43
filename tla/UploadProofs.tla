---------------------------- MODULE UploadProofs ----------------------------
(***************************************************************************)
(* Proofs about what is uploaded.  Bundler, which groups and admits the    *)
(* uploads of a push, for every set of items and Flush calls, every size,  *)
(* threshold and limit; the locks that keep others from pushing to a path; *)
(* and the objects Git LFS clients upload by themselves.                   *)
(***************************************************************************)
EXTENDS Bundler, LfsLocks, LfsObjects, CollectionLemmas, TLAPS

States == {"unused", "current", "queued", "running", "done"}

(* The part of the state the arguments below are about. *)
CoreType ==
    /\ item \in [Item -> {"new", "waiting", "admitted", "bundled", "handled", "refused"}]
    /\ within \in [Item -> Bundle \cup {NoBundle}]
    /\ where \in [Bundle -> States]
    /\ group \in [Bundle -> Nat]
    /\ created \in 0 .. MaxBundles
    /\ handlers \in Int
    /\ timer \in BOOLEAN
    /\ curFlush \in Nat \ {0}
    /\ flush \in [Flusher -> Nat]
    /\ closed \subseteq Nat
    /\ before \in [Flusher -> SUBSET Item]

(* A bundle is unused until it is created, then counts in a WaitGroup that
   exists, and in the newest one while it is current. *)
BundleInv ==
    \A b \in Bundle :
        /\ where[b] = "unused" <=> created < b
        /\ where[b] = "unused" => group[b] = 0
        /\ where[b] # "unused" => group[b] \in 1 .. curFlush

(* An item waits in a bundle that is not done. *)
ItemInv ==
    \A i \in Item : item[i] = "bundled" =>
        within[i] \in Bundle /\ where[within[i]] \in {"current", "queued", "running"}

(* The Flush calls that returned are an initial piece of all of them, and
   nothing counts in their WaitGroups any more. *)
ClosedInv ==
    \A g \in closed :
        /\ g \in 1 .. curFlush - 1
        /\ \A h \in 1 .. g : h \in closed
        /\ Outstanding(g) = {}

(* What a Flush call has to wait for counts in its own WaitGroup or in an
   older one. *)
FlushInv ==
    \A f \in Flusher :
        /\ flush[f] \in 0 .. curFlush - 1
        /\ flush[f] # 0 => \A i \in before[f] :
              \/ item[i] = "handled"
              \/ item[i] = "bundled" /\ group[within[i]] <= flush[f]

Inv == CoreType /\ BundleInv /\ ItemInv /\ ClosedInv /\ FlushInv

(* The inductive invariant gives the promise of Flush. *)
LEMMA InvCovers == Inv => FlushCovers
<1> SUFFICES ASSUME Inv, NEW f \in Flusher, flush[f] \in closed, NEW i \in before[f],
                    item[i] # "handled"
             PROVE  FALSE
  BY Zenon DEF FlushCovers, Returned
<1>1. i \in Item /\ flush[f] # 0
  BY DEF Inv, CoreType, ClosedInv
<1>2. item[i] = "bundled" /\ group[within[i]] <= flush[f]
  BY <1>1, Zenon DEF Inv, FlushInv
<1>3. within[i] \in Bundle /\ where[within[i]] # "done" /\ where[within[i]] # "unused"
  BY <1>1, <1>2, Zenon DEF Inv, ItemInv
<1>4. group[within[i]] \in 1 .. flush[f]
  BY <1>2, <1>3 DEF Inv, BundleInv, CoreType
<1>5. group[within[i]] \in closed
  BY <1>4, Zenon DEF Inv, ClosedInv
<1>6. within[i] \in Outstanding(group[within[i]])
  BY <1>3, Zenon DEF Outstanding
<1>7. QED
  BY <1>5, <1>6, Zenon DEF Inv, ClosedInv

(* enqueueCurBundle moves only the bundle it is given. *)
LEMMA PlacedType ==
    ASSUME NEW w \in [Bundle -> States], NEW h \in Int, NEW S \in SUBSET Bundle
    PROVE  /\ Placed(S, w, h) \in [Bundle -> States]
           /\ \A b \in S : Placed(S, w, h)[b] \in {"queued", "running"}
           /\ \A b \in Bundle \ S : Placed(S, w, h)[b] = w[b]
           /\ Busy(S, h) \in Int
  BY DEF Placed, Busy, States

(* A bundle stays where it is or leaves the current place. *)
Advance ==
    \A b \in Bundle :
        \/ where'[b] = where[b]
        \/ where[b] = "current" /\ where'[b] \in {"queued", "running"}

(* Enqueueing the current bundle only lets it leave the current place. *)
LEMMA EnqueueAdvances ==
    ASSUME CoreType, NEW S \in SUBSET Current, Enqueue(S)
    PROVE  /\ Advance
           /\ where' \in [Bundle -> States]
           /\ handlers' \in Int
           /\ timer' \in BOOLEAN
<1>1. S \in SUBSET Bundle /\ \A b \in S : where[b] = "current"
  BY Zenon DEF Current
<1>2. where \in [Bundle -> States] /\ handlers \in Int
  BY Zenon DEF CoreType
<1>3. QED
  BY <1>1, <1>2, PlacedType DEF Enqueue, Advance

(* Steps that create no bundle, finish none and start or end no Flush. *)
LEMMA AdvanceStep ==
    ASSUME Inv, CoreType', Advance, NEW i \in Item,
           group' = group, created' = created, flushing' = flushing,
           \/ within' = within /\ item'[i] = item[i]
           \/ within' = within /\ item[i] \notin {"bundled", "handled"} /\ item'[i] # "bundled"
           \/ /\ item[i] = "admitted" /\ within'[i] \in Bundle
              /\ where[within'[i]] \in {"current", "queued"},
           \A j \in Item \ {i} : item'[j] = item[j] /\ within'[j] = within[j]
    PROVE  Inv'
<1>1. BundleInv'
  BY DEF Inv, BundleInv, Advance, flushing
<1>2. ItemInv'
  BY DEF Inv, ItemInv, Advance
<1>3. ClosedInv'
  <2>1. \A g : Outstanding(g)' \subseteq Outstanding(g)
    BY Zenon DEF Advance, Outstanding
  <2>2. QED
    BY <2>1, Zenon DEF Inv, ClosedInv, flushing
<1>4. FlushInv'
  <2>1. \A f \in Flusher : before[f] \subseteq Item
    BY Zenon DEF Inv, CoreType
  <2>2. ASSUME NEW f \in Flusher, flush[f] # 0, NEW j \in before[f]
        PROVE  \/ item'[j] = "handled"
               \/ item'[j] = "bundled" /\ group[within'[j]] <= flush[f]
    <3>1. \/ item[j] = "handled"
          \/ item[j] = "bundled" /\ group[within[j]] <= flush[f]
      BY <2>2, Zenon DEF Inv, FlushInv
    <3>2. QED
      BY <2>1, <2>2, <3>1, Zenon
  <2>3. QED
    BY <2>2, Zenon DEF Inv, FlushInv, flushing
<1>5. QED
  BY <1>1, <1>2, <1>3, <1>4, Zenon DEF Inv

(* The caller's part of adding: nothing is bundled yet. *)
LEMMA CallStep ==
    ASSUME Inv, NEW i \in Item, AddWait(i) \/ Add(i) \/ Acquire(i) \/ Cancel(i)
    PROVE  Inv'
<1>1. /\ item[i] \notin {"bundled", "handled"}
      /\ \E v \in {"waiting", "admitted", "refused"} : item' = [item EXCEPT ![i] = v]
      /\ UNCHANGED <<within, where, group, created, handlers, timer, flushing>>
  BY Zenon DEF AddWait, Add, Acquire, Cancel, Weigh, Reject
<1>2. CoreType'
  BY <1>1, Zenon DEF Inv, CoreType, flushing
<1>3. Advance
  BY <1>1, Zenon DEF Advance
<1>4. item \in [Item -> {"new", "waiting", "admitted", "bundled", "handled", "refused"}]
  BY Zenon DEF Inv, CoreType
<1>5. item'[i] # "bundled" /\ \A j \in Item \ {i} : item'[j] = item[j]
  BY <1>1, <1>4, Zenon
<1>6. QED
  BY <1>1, <1>2, <1>3, <1>5, AdvanceStep, Zenon

(* An item that joins a bundle joins one that is not done. *)
LEMMA JoinStep ==
    ASSUME Inv, NEW i \in Item, JoinTail(i) \/ JoinCurrent(i)
    PROVE  Inv'
<1>1. PICK b \in Bundle :
         /\ item[i] = "admitted" /\ where[b] \in {"current", "queued"}
         /\ item' = [item EXCEPT ![i] = "bundled"]
         /\ within' = [within EXCEPT ![i] = b]
         /\ UNCHANGED <<group, created, flushing>>
         /\ \/ UNCHANGED <<where, handlers, timer>>
            \/ \E S \in SUBSET Current : Enqueue(S)
  BY Zenon DEF JoinTail, JoinCurrent, Current, Queue, IsTail
<1>2. /\ Advance
      /\ where' \in [Bundle -> States] /\ handlers' \in Int /\ timer' \in BOOLEAN
  <2>1. CASE UNCHANGED <<where, handlers, timer>>
    BY <2>1, Zenon DEF Advance, Inv, CoreType
  <2>2. CASE \E S \in SUBSET Current : Enqueue(S)
    BY <2>2, EnqueueAdvances, Zenon DEF Inv
  <2>3. QED
    BY <1>1, <2>1, <2>2, Zenon
<1>3. CoreType'
  BY <1>1, <1>2, Zenon DEF Inv, CoreType, flushing
<1>4. /\ item \in [Item -> {"new", "waiting", "admitted", "bundled", "handled", "refused"}]
      /\ within \in [Item -> Bundle \cup {NoBundle}]
  BY Zenon DEF Inv, CoreType
<1>5. within'[i] = b /\ \A j \in Item \ {i} : item'[j] = item[j] /\ within'[j] = within[j]
  BY <1>1, <1>4, Zenon
<1>6. QED
  BY <1>1, <1>2, <1>3, <1>5, AdvanceStep

(* The timer callback enqueues the current bundle and nothing else. *)
LEMMA TimerStep ==
    ASSUME Inv, TryHandleBundles
    PROVE  Inv'
<1>1. /\ Advance
      /\ where' \in [Bundle -> States] /\ handlers' \in Int /\ timer' \in BOOLEAN
  BY EnqueueAdvances, Zenon DEF Inv, TryHandleBundles
<1>2. UNCHANGED <<item, within, group, created, flushing>>
  BY Zenon DEF TryHandleBundles
<1>3. CoreType'
  BY <1>1, <1>2, Zenon DEF Inv, CoreType, flushing
<1>4. CASE Item = {}
  BY <1>1, <1>2, <1>3, <1>4 DEF Inv, BundleInv, ItemInv, ClosedInv, FlushInv, CoreType,
     Advance, Outstanding, flushing
<1>5. CASE Item # {}
  <2>1. PICK i \in Item : TRUE
    BY <1>5, Zenon
  <2>2. QED
    BY <1>1, <1>2, <1>3, <2>1, AdvanceStep, Zenon
<1>6. QED
  BY <1>4, <1>5, Zenon

(* A new bundle counts in the newest WaitGroup, for which no Flush waits. *)
LEMMA StartStep ==
    ASSUME Inv, NEW i \in Item, StartBundle(i)
    PROVE  Inv'
<1> DEFINE b == created + 1
           w == Placed(Current, where, handlers)
           h == Busy(Current, handlers)
<1>1. b \in Bundle /\ b \in 1 .. MaxBundles /\ created \in Nat
  BY BundlerAssumption DEF StartBundle, Inv, CoreType, Bundle
<1>2. where[b] = "unused"
  BY <1>1 DEF Inv, BundleInv
<1>3. Current \in SUBSET Bundle /\ b \notin Current
  BY <1>2, Zenon DEF Current
<1>4. /\ w \in [Bundle -> States] /\ h \in Int
      /\ \A c \in Current : w[c] \in {"queued", "running"}
      /\ \A c \in Bundle \ Current : w[c] = where[c]
  <2>1. where \in [Bundle -> States] /\ handlers \in Int
    BY Zenon DEF Inv, CoreType
  <2>2. QED
    BY <1>3, <2>1, PlacedType
<1> HIDE DEF w, h
<1>5. /\ created' = b /\ UNCHANGED flushing
      /\ item[i] = "admitted" /\ item' = [item EXCEPT ![i] = "bundled"]
      /\ within' = [within EXCEPT ![i] = b]
      /\ group' = [group EXCEPT ![b] = curFlush]
      /\ timer' = ~Due(Size[i], 1)
      /\ \/ where' = Placed({b}, w, h) /\ handlers' = Busy({b}, h)
         \/ where' = [w EXCEPT ![b] = "current"] /\ handlers' = h
  BY Zenon DEF StartBundle, w, h
<1>6. /\ where' \in [Bundle -> States] /\ handlers' \in Int
      /\ where'[b] \in {"current", "queued", "running"}
      /\ \A c \in Bundle \ {b} : where'[c] = w[c]
  <2>1. CASE where' = Placed({b}, w, h) /\ handlers' = Busy({b}, h)
    BY <1>1, <1>4, <2>1, PlacedType
  <2>2. CASE where' = [w EXCEPT ![b] = "current"] /\ handlers' = h
    BY <1>1, <1>4, <2>2, Zenon DEF States
  <2>3. QED
    BY <1>5, <2>1, <2>2, Zenon
<1>7. \A c \in Bundle \ {b} :
         \/ where'[c] = where[c]
         \/ where[c] = "current" /\ where'[c] \in {"queued", "running"}
  BY <1>4, <1>6, Zenon DEF Current
<1> HIDE DEF b
<1>8. created' \in 0 .. MaxBundles
  BY <1>1, <1>5
<1>9. CoreType'
  <2>1. timer' \in BOOLEAN
    BY <1>5, Zenon DEF Due
  <2>2. QED
    BY <1>1, <1>5, <1>6, <1>8, <2>1, Zenon DEF Inv, CoreType, flushing
<1>10. group'[b] = curFlush /\ \A c \in Bundle \ {b} : group'[c] = group[c]
  BY <1>1, <1>5, Zenon DEF Inv, CoreType
<1>11. /\ item'[i] = "bundled" /\ within'[i] = b
       /\ \A j \in Item \ {i} : item'[j] = item[j] /\ within'[j] = within[j]
  BY <1>5, Zenon DEF Inv, CoreType
<1>12. BundleInv'
  <2>1. curFlush \in Nat \ {0}
    BY Zenon DEF Inv, CoreType
  <2>2. \A c \in Bundle : created' < c <=> (created < c /\ c # b)
    BY <1>1, <1>5 DEF b, Bundle
  <2>3. QED
    BY <1>1, <1>2, <1>5, <1>6, <1>7, <1>10, <2>1, <2>2 DEF Inv, BundleInv, flushing
<1>13. ItemInv'
  <2>1. ASSUME NEW j \in Item \ {i}, item'[j] = "bundled"
        PROVE  within'[j] \in Bundle /\ where'[within'[j]] \in {"current", "queued", "running"}
    <3>1. within[j] \in Bundle /\ where[within[j]] \in {"current", "queued", "running"}
      BY <1>11, <2>1, Zenon DEF Inv, ItemInv
    <3>2. QED
      BY <1>2, <1>7, <1>11, <3>1
  <2>2. QED
    BY <1>1, <1>6, <1>11, <2>1, Zenon DEF ItemInv
<1>14. ClosedInv'
  <2>1. ASSUME NEW g \in closed
        PROVE  Outstanding(g)' \subseteq Outstanding(g)
    <3>1. g # curFlush
      BY <2>1 DEF Inv, ClosedInv, CoreType
    <3>2. QED
      BY <1>7, <1>10, <3>1, Zenon DEF Outstanding
  <2>2. QED
    BY <1>5, <2>1, Zenon DEF Inv, ClosedInv, flushing
<1>15. FlushInv'
  <2>1. ASSUME NEW f \in Flusher, flush[f] # 0, NEW j \in before[f]
        PROVE  \/ item'[j] = "handled"
               \/ item'[j] = "bundled" /\ group'[within'[j]] <= flush[f]
    <3>1. /\ j \in Item
          /\ \/ item[j] = "handled"
             \/ item[j] = "bundled" /\ group[within[j]] <= flush[f]
      BY <2>1, Zenon DEF Inv, FlushInv, CoreType
    <3>2. j # i
      BY <1>5, <3>1, Zenon
    <3>3. item[j] = "bundled" => within[j] \in Bundle \ {b}
      BY <1>2, <3>1, Zenon DEF Inv, ItemInv
    <3>4. QED
      BY <1>10, <1>11, <3>1, <3>2, <3>3
  <2>2. QED
    BY <1>5, <2>1, Zenon DEF Inv, FlushInv, flushing
<1>16. QED
  BY <1>9, <1>12, <1>13, <1>14, <1>15, Zenon DEF Inv

(* A handled bundle takes all its items with it. *)
LEMMA HandleStep ==
    ASSUME Inv, NEW b \in Bundle, PostHandle(b)
    PROVE  Inv'
<1>1. /\ item' = [i \in Item |-> IF within[i] = b THEN "handled" ELSE item[i]]
      /\ UNCHANGED <<within, group, created, timer, flushing>>
      /\ where[b] = "running" /\ where'[b] = "done"
      /\ where' \in [Bundle -> States]
      /\ \A c \in Bundle \ {b} : \/ where'[c] = where[c]
                                 \/ where[c] = "queued" /\ where'[c] = "running"
  BY Zenon DEF PostHandle, IsHead, Queue, Inv, CoreType, States
<1>2. handlers' \in Int
  BY DEF PostHandle, Inv, CoreType
<1>3. CoreType'
  BY <1>1, <1>2, Zenon DEF Inv, CoreType, flushing
<1>4. BundleInv'
  BY <1>1, Zenon DEF Inv, BundleInv, flushing
<1>5. ItemInv'
  BY <1>1, Zenon DEF Inv, ItemInv
<1>6. ClosedInv'
  <2>1. \A g : Outstanding(g)' \subseteq Outstanding(g)
    BY <1>1, Zenon DEF Outstanding
  <2>2. QED
    BY <1>1, <2>1, Zenon DEF Inv, ClosedInv, flushing
<1>7. FlushInv'
  <2>1. \A f \in Flusher : before[f] \subseteq Item
    BY Zenon DEF Inv, CoreType
  <2>2. QED
    BY <1>1, <2>1, Zenon DEF Inv, FlushInv, flushing
<1>8. QED
  BY <1>3, <1>4, <1>5, <1>6, <1>7, Zenon DEF Inv

(* Whatever is bundled when Flush is called counts in a WaitGroup that is at
   most its own. *)
LEMMA FlushBeginStep ==
    ASSUME Inv, NEW f \in Flusher, FlushBegin(f)
    PROVE  Inv'
<1>1. /\ Advance
      /\ where' \in [Bundle -> States] /\ handlers' \in Int /\ timer' \in BOOLEAN
  BY EnqueueAdvances, Zenon DEF Inv, FlushBegin
<1>2. /\ UNCHANGED <<item, within, group, created, closed>>
      /\ flush' = [flush EXCEPT ![f] = curFlush]
      /\ curFlush' = curFlush + 1
      /\ before' = [before EXCEPT ![f] = {i \in Item : item[i] \in {"bundled", "handled"}}]
  BY Zenon DEF FlushBegin
<1>3. CoreType'
  BY <1>1, <1>2 DEF Inv, CoreType
<1>4. curFlush \in Nat
  BY Zenon DEF Inv, CoreType
<1>5. BundleInv'
  BY <1>1, <1>2, <1>4 DEF Inv, BundleInv, Advance
<1>6. ItemInv'
  BY <1>1, <1>2, Zenon DEF Inv, ItemInv, Advance
<1>7. ClosedInv'
  <2>1. \A g : Outstanding(g)' \subseteq Outstanding(g)
    BY <1>1, <1>2, Zenon DEF Advance, Outstanding
  <2>2. QED
    BY <1>2, <1>4, <2>1 DEF Inv, ClosedInv
<1>8. FlushInv'
  <2>1. /\ flush'[f] = curFlush
        /\ before'[f] = {i \in Item : item[i] \in {"bundled", "handled"}}
        /\ \A g \in Flusher \ {f} : flush'[g] = flush[g] /\ before'[g] = before[g]
    BY <1>2, Zenon DEF Inv, CoreType
  <2>2. \A i \in Item : item[i] = "bundled" => group[within[i]] <= curFlush
    BY <1>4 DEF Inv, ItemInv, BundleInv
  <2>3. QED
    BY <1>2, <1>4, <2>1, <2>2 DEF Inv, FlushInv
<1>9. QED
  BY <1>3, <1>5, <1>6, <1>7, <1>8, Zenon DEF Inv

(* Flush calls return in the order they were made. *)
LEMMA FlushEndStep ==
    ASSUME Inv, NEW f \in Flusher, FlushEnd(f)
    PROVE  Inv'
<1>1. /\ closed' = closed \cup {flush[f]}
      /\ flush[f] # 0 /\ (flush[f] = 1 \/ flush[f] - 1 \in closed)
      /\ Outstanding(flush[f]) = {}
      /\ UNCHANGED <<item, within, where, group, created, handlers, timer, curFlush, flush, before>>
  BY Zenon DEF FlushEnd
<1>2. flush[f] \in 1 .. curFlush - 1
  BY <1>1 DEF Inv, FlushInv, CoreType
<1>3. \A h \in 1 .. flush[f] : h \in closed'
  <2>1. ASSUME NEW h \in 1 .. flush[f], h # flush[f]
        PROVE  h \in closed
    <3>1. flush[f] - 1 \in closed /\ h \in 1 .. flush[f] - 1
      BY <1>1, <1>2, <2>1
    <3>2. QED
      BY <3>1, Zenon DEF Inv, ClosedInv
  <2>2. QED
    BY <1>1, <2>1, Zenon
<1>4. \A g : Outstanding(g)' = Outstanding(g)
  BY <1>1, Zenon DEF Outstanding
<1>5. ClosedInv'
  BY <1>1, <1>2, <1>3, <1>4, Zenon DEF Inv, ClosedInv
<1>6. CoreType'
  BY <1>1, <1>2, Zenon DEF Inv, CoreType
<1>7. BundleInv' /\ ItemInv'
  BY <1>1, Zenon DEF Inv, BundleInv, ItemInv
<1>8. FlushInv'
  BY <1>1, Zenon DEF Inv, FlushInv
<1>9. QED
  BY <1>5, <1>6, <1>7, <1>8, Zenon DEF Inv

(* The invariant holds at the start. *)
LEMMA InvInit == Init => Inv
<1> SUFFICES ASSUME Init PROVE Inv
  BY Zenon
<1>1. CoreType
  <2>1. /\ item \in [Item -> {"new", "waiting", "admitted", "bundled", "handled", "refused"}]
        /\ within \in [Item -> Bundle \cup {NoBundle}]
        /\ where \in [Bundle -> States]
    BY Zenon DEF Init, States
  <2>2. /\ group \in [Bundle -> Nat] /\ flush \in [Flusher -> Nat]
        /\ before \in [Flusher -> SUBSET Item] /\ closed \subseteq Nat /\ timer \in BOOLEAN
    BY Zenon DEF Init
  <2>3. created \in 0 .. MaxBundles /\ handlers \in Int /\ curFlush \in Nat \ {0}
    BY BundlerAssumption DEF Init
  <2>4. QED
    BY <2>1, <2>2, <2>3, Zenon DEF CoreType
<1>2. BundleInv
  BY BundlerAssumption DEF Init, BundleInv, Bundle
<1>3. ItemInv /\ ClosedInv
  BY Zenon DEF Init, ItemInv, ClosedInv
<1>4. FlushInv
  BY DEF Init, FlushInv
<1>5. QED
  BY <1>1, <1>2, <1>3, <1>4, Zenon DEF Inv

(* Every step keeps the invariant, one case per action. *)
LEMMA InvStep == Inv /\ [Next]_vars => Inv'
<1> SUFFICES ASSUME Inv, [Next]_vars PROVE Inv'
  BY Zenon
<1>1. CASE UNCHANGED vars
  BY <1>1 DEF vars, Inv, CoreType, BundleInv, ItemInv, ClosedInv, FlushInv, Outstanding
<1>2. ASSUME NEW i \in Item, AddWait(i) \/ Add(i) \/ Acquire(i) \/ Cancel(i)
      PROVE  Inv'
  BY <1>2, CallStep, Zenon
<1>3. ASSUME NEW i \in Item, PutItem(i)
      PROVE  Inv'
  BY <1>3, JoinStep, StartStep, Zenon DEF PutItem
<1>4. CASE TryHandleBundles
  BY <1>4, TimerStep, Zenon
<1>5. ASSUME NEW b \in Bundle, PostHandle(b)
      PROVE  Inv'
  BY <1>5, HandleStep, Zenon
<1>6. ASSUME NEW f \in Flusher, FlushBegin(f) \/ FlushEnd(f)
      PROVE  Inv'
  BY <1>6, FlushBeginStep, FlushEndStep, Zenon
<1>7. QED
  BY <1>1, <1>2, <1>3, <1>4, <1>5, <1>6, Zenon DEF Next

(* Bundler.Flush: whatever was added before the call has been handled when it
   returns, for every number of items, bundles and Flush calls. *)
THEOREM FlushKeepsItsPromise == Spec => []FlushCovers
  BY InvInit, InvStep, InvCovers, PTL DEF Spec

-----------------------------------------------------------------------------
(* Handlers, the queue and the timer. *)

RunningIn(w) == {b \in Bundle : w[b] = "running"}

(* h goroutines handle the running bundles of w, all there can be if one is
   queued. *)
Counted(w, h) ==
    /\ h \in 0 .. HandlerLimit
    /\ h = Cardinality(RunningIn(w))
    /\ (\E b \in Bundle : w[b] = "queued") => h = HandlerLimit

(* The running bundles can be counted. *)
LEMMA RunningFinite ==
    ASSUME NEW w
    PROVE  IsFiniteSet(RunningIn(w)) /\ Cardinality(RunningIn(w)) \in Nat
<1>1. IsFiniteSet(Bundle)
  BY BundlerAssumption, FS_Interval DEF Bundle
<1>2. RunningIn(w) \subseteq Bundle
  BY Zenon DEF RunningIn
<1>3. QED
  BY <1>1, <1>2, FS_Subset, FS_CardinalityType, Zenon

(* Placing one waiting bundle keeps the handler count exact. *)
LEMMA PlacedCounted ==
    ASSUME NEW w \in [Bundle -> States], NEW h, NEW b \in Bundle,
           Counted(w, h), w[b] \in {"unused", "current"}
    PROVE  Counted(Placed({b}, w, h), Busy({b}, h))
<1> DEFINE v == Placed({b}, w, h)
<1>1. HandlerLimit \in Nat /\ h \in 0 .. HandlerLimit
  BY BundlerAssumption, Zenon DEF Counted
<1>2. \A c \in Bundle : v[c] = IF c # b THEN w[c]
                               ELSE IF h < HandlerLimit THEN "running" ELSE "queued"
  BY Zenon DEF Placed
<1>3. Busy({b}, h) = IF h < HandlerLimit THEN h + 1 ELSE h
  BY Zenon DEF Busy
<1> HIDE DEF v
<1>4. CASE h < HandlerLimit
  <2>1. RunningIn(v) = RunningIn(w) \cup {b} /\ b \notin RunningIn(w)
    BY <1>2, <1>4, Zenon DEF RunningIn
  <2>2. Cardinality(RunningIn(v)) = h + 1
    BY <2>1, RunningFinite, FS_AddElement, Zenon DEF Counted
  <2>3. ~ \E c \in Bundle : v[c] = "queued"
    BY <1>1, <1>2, <1>4 DEF Counted
  <2>4. QED
    BY <1>1, <1>3, <1>4, <2>2, <2>3 DEF Counted, v
<1>5. CASE h = HandlerLimit
  <2>1. RunningIn(v) = RunningIn(w)
    BY <1>1, <1>2, <1>5 DEF RunningIn
  <2>2. Counted(v, h)
    BY <1>1, <1>5, <2>1, Zenon DEF Counted
  <2>3. QED
    BY <1>1, <1>3, <1>5, <2>2 DEF v
<1>6. QED
  BY <1>1, <1>4, <1>5

(* At most one bundle is current, and the timer is set for it. *)
Busyness ==
    /\ Counted(where, handlers)
    /\ \A b, c \in Current : b = c
    /\ timer <=> Current # {}

(* Enqueueing no bundle changes nothing. *)
LEMMA EnqueueNothing ==
    ASSUME NEW w \in [Bundle -> States], NEW h
    PROVE  Placed({}, w, h) = w /\ Busy({}, h) = h
  BY Zenon DEF Placed, Busy

(* enqueueCurBundle keeps the handler count exact. *)
LEMMA EnqueueCounted ==
    ASSUME CoreType, Busyness
    PROVE  Counted(Placed(Current, where, handlers), Busy(Current, handlers))
<1>1. where \in [Bundle -> States]
  BY Zenon DEF CoreType
<1>2. CASE Current = {}
  BY <1>1, <1>2, EnqueueNothing, Zenon DEF Busyness
<1>3. CASE Current # {}
  <2>1. PICK b \in Bundle : Current = {b} /\ where[b] = "current"
    BY <1>3, Zenon DEF Busyness, Current
  <2>2. QED
    BY <1>1, <2>1, PlacedCounted, Zenon DEF Busyness
<1>4. QED
  BY <1>2, <1>3, Zenon

(* After enqueueCurBundle no bundle is current. *)
LEMMA EnqueueEmpties ==
    ASSUME CoreType
    PROVE  \A b \in Bundle : Placed(Current, where, handlers)[b] # "current"
<1>1. where \in [Bundle -> States] /\ handlers \in Int /\ Current \in SUBSET Bundle
  BY Zenon DEF CoreType, Current
<1>2. QED
  BY <1>1, PlacedType, Zenon DEF Current

(* enqueueCurBundle on all that is current clears the timer with it. *)
LEMMA EnqueueBusyness ==
    ASSUME CoreType, Busyness, NEW S \in {{}, Current}, Enqueue(S)
    PROVE  Busyness'
<1>1. CASE S = {}
  <2>1. where' = where /\ handlers' = handlers /\ timer' = timer
    BY <1>1, EnqueueNothing, Zenon DEF Enqueue, CoreType
  <2>2. QED
    BY <2>1, Zenon DEF Busyness, Current
<1>2. CASE S = Current
  <2>1. Counted(where', handlers')
    BY <1>2, EnqueueCounted, Zenon DEF Enqueue
  <2>2. Current' = {}
    BY <1>2, EnqueueEmpties, Zenon DEF Enqueue, Current
  <2>3. ~timer'
    BY <1>2, Zenon DEF Enqueue, Busyness
  <2>4. QED
    BY <2>1, <2>2, <2>3, Zenon DEF Busyness
<1>3. QED
  BY <1>1, <1>2, Zenon

(* add sets the timer exactly if the new bundle stays current. *)
LEMMA StartBusyness ==
    ASSUME Inv, Busyness, NEW i \in Item, StartBundle(i)
    PROVE  Busyness'
<1> DEFINE b == created + 1
           w == Placed(Current, where, handlers)
           h == Busy(Current, handlers)
<1>1. b \in Bundle /\ where[b] = "unused"
  BY BundlerAssumption DEF StartBundle, Inv, CoreType, BundleInv, Bundle
<1>2. /\ w \in [Bundle -> States]
      /\ \A c \in Bundle : w[c] # "current"
      /\ w[b] = "unused"
      /\ Counted(w, h)
  <2>1. where \in [Bundle -> States] /\ handlers \in Int /\ Current \in SUBSET Bundle
    BY Zenon DEF Inv, CoreType, Current
  <2>2. b \in Bundle \ Current
    BY <1>1, Zenon DEF Current
  <2>3. QED
    BY <1>1, <2>1, <2>2, PlacedType, EnqueueEmpties, EnqueueCounted DEF Inv
<1> HIDE DEF w, h
<1>3. /\ timer' = ~Due(Size[i], 1)
      /\ where' = IF Due(Size[i], 1) THEN Placed({b}, w, h) ELSE [w EXCEPT ![b] = "current"]
      /\ handlers' = IF Due(Size[i], 1) THEN Busy({b}, h) ELSE h
  BY Zenon DEF StartBundle, w, h
<1> HIDE DEF b
<1>4. CASE Due(Size[i], 1)
  <2>1. Counted(where', handlers')
    BY <1>1, <1>2, <1>3, <1>4, PlacedCounted, Zenon
  <2>2. Current' = {}
    BY <1>2, <1>3, <1>4, Zenon DEF Current, Placed
  <2>3. QED
    BY <1>3, <1>4, <2>1, <2>2, Zenon DEF Busyness
<1>5. CASE ~Due(Size[i], 1)
  <2>1. where'[b] = "current" /\ \A c \in Bundle \ {b} : where'[c] = w[c]
    BY <1>1, <1>2, <1>3, <1>5, Zenon
  <2>2. RunningIn(where') = RunningIn(w)
    BY <1>1, <1>2, <2>1, Zenon DEF RunningIn
  <2>3. Counted(where', handlers')
    BY <1>2, <1>3, <1>5, <2>1, <2>2, Zenon DEF Counted
  <2>4. Current' = {b}
    BY <1>1, <1>2, <2>1, Zenon DEF Current
  <2>5. QED
    BY <1>3, <1>5, <2>3, <2>4, Zenon DEF Busyness
<1>6. QED
  BY <1>4, <1>5, Zenon

(* A queue that is not empty has a head. *)
LEMMA HeadExists == Queue # {} => \E b \in Bundle : IsHead(b)
<1> SUFFICES ASSUME Queue # {} PROVE \E b \in Bundle : IsHead(b)
  BY Zenon
<1>1. Queue \subseteq Nat /\ Queue \subseteq Bundle
  BY DEF Queue, Bundle
<1>2. PICK b \in Queue : \A c \in Queue : ~(<<c, b>> \in OpToRel(<, Nat))
  BY <1>1, WFMin, NatLessThanWellFounded, Zenon
<1>3. \A c \in Queue : ~(c < b)
  BY <1>1, <1>2, Zenon DEF OpToRel
<1>4. QED
  BY <1>1, <1>3 DEF IsHead

(* postHandle passes its goroutine to the head of the queue or ends it. *)
LEMMA HandleBusyness ==
    ASSUME Inv, Busyness, NEW b \in Bundle, PostHandle(b)
    PROVE  Busyness'
<1>1. /\ where[b] = "running"
      /\ \A c \in Bundle : where'[c] = IF c = b THEN "done"
                                       ELSE IF IsHead(c) THEN "running" ELSE where[c]
      /\ handlers' = IF Queue = {} THEN handlers - 1 ELSE handlers
      /\ timer' = timer
  BY Zenon DEF PostHandle
<1>2. \A c \in Bundle : IsHead(c) => where[c] = "queued"
  BY Zenon DEF IsHead, Queue
<1>3. Current' = Current
  BY <1>1, <1>2, Zenon DEF Current
<1>4. b \in RunningIn(where) /\ Cardinality(RunningIn(where)) = handlers
  BY <1>1, Zenon DEF RunningIn, Busyness, Counted
<1>5. /\ Cardinality(RunningIn(where) \ {b}) = handlers - 1
      /\ IsFiniteSet(RunningIn(where) \ {b})
  BY <1>4, RunningFinite, FS_RemoveElement, Zenon
<1>6. handlers \in 0 .. HandlerLimit /\ HandlerLimit \in Nat /\ handlers # 0
  <2>1. handlers \in 0 .. HandlerLimit /\ HandlerLimit \in Nat
    BY BundlerAssumption, Zenon DEF Busyness, Counted
  <2>2. handlers # 0
    BY <1>4, RunningFinite, FS_EmptySet, Zenon
  <2>3. QED
    BY <2>1, <2>2, Zenon
<1>7. Counted(where', handlers')
  <2>1. CASE Queue = {}
    <3>1. \A c \in Bundle : ~IsHead(c)
      BY <2>1, Zenon DEF IsHead
    <3>2. RunningIn(where') = RunningIn(where) \ {b}
      BY <1>1, <3>1, Zenon DEF RunningIn
    <3>3. \A c \in Bundle : where'[c] # "queued"
      BY <1>1, <2>1, <3>1, Zenon DEF Queue
    <3>4. QED
      BY <1>1, <1>5, <1>6, <2>1, <3>2, <3>3 DEF Counted
  <2>2. CASE Queue # {}
    <3>1. PICK c \in Bundle : IsHead(c)
      BY <2>2, HeadExists, Zenon
    <3>2. \A d \in Bundle : IsHead(d) => d = c
      BY <3>1 DEF IsHead, Queue, Bundle
    <3>3. c \notin RunningIn(where) \ {b} /\ c # b
      BY <1>1, <1>2, <3>1, Zenon DEF RunningIn
    <3>4. RunningIn(where') = (RunningIn(where) \ {b}) \cup {c}
      BY <1>1, <3>1, <3>2, <3>3, Zenon DEF RunningIn
    <3>5. Cardinality(RunningIn(where')) = handlers
      BY <1>5, <1>6, <3>3, <3>4, FS_AddElement
    <3>6. handlers = HandlerLimit
      BY <2>2, Zenon DEF Busyness, Counted, Queue
    <3>7. QED
      BY <1>1, <1>6, <2>2, <3>5, <3>6, Zenon DEF Counted
  <2>3. QED
    BY <2>1, <2>2, Zenon
<1>8. QED
  BY <1>1, <1>3, <1>7, Zenon DEF Busyness

(* Every step keeps handlers, queue and timer in agreement. *)
LEMMA BusynessStep == Inv /\ Busyness /\ [Next]_vars => Busyness'
<1> SUFFICES ASSUME Inv, Busyness, [Next]_vars PROVE Busyness'
  BY Zenon
<1>1. CASE UNCHANGED <<where, handlers, timer>>
  BY <1>1, Zenon DEF Busyness, Current
<1>2. ASSUME NEW i \in Item, AddWait(i) \/ Add(i) \/ Acquire(i) \/ Cancel(i) \/ JoinTail(i)
      PROVE  Busyness'
  BY <1>1, <1>2, Zenon DEF AddWait, Add, Acquire, Cancel, JoinTail
<1>3. ASSUME NEW i \in Item, JoinCurrent(i)
      PROVE  Busyness'
  <2>1. PICK b \in Current : Enqueue({}) \/ Enqueue({b})
    BY <1>3, Zenon DEF JoinCurrent
  <2>2. {b} = Current
    BY Zenon DEF Busyness
  <2>3. QED
    BY <2>1, <2>2, EnqueueBusyness, Zenon DEF Inv
<1>4. ASSUME NEW i \in Item, StartBundle(i)
      PROVE  Busyness'
  BY <1>4, StartBusyness, Zenon
<1>5. CASE TryHandleBundles
  BY <1>5, EnqueueBusyness, Zenon DEF TryHandleBundles, Inv
<1>6. ASSUME NEW b \in Bundle, PostHandle(b)
      PROVE  Busyness'
  BY <1>6, HandleBusyness, Zenon
<1>7. ASSUME NEW f \in Flusher, FlushBegin(f)
      PROVE  Busyness'
  BY <1>7, EnqueueBusyness, Zenon DEF FlushBegin, Inv
<1>8. ASSUME NEW f \in Flusher, FlushEnd(f)
      PROVE  Busyness'
  BY <1>1, <1>8, Zenon DEF FlushEnd
<1>9. QED
  BY <1>1, <1>2, <1>3, <1>4, <1>5, <1>6, <1>7, <1>8, Zenon DEF Next, PutItem, vars

(* At the start nothing runs and no timer is set. *)
LEMMA BusynessInit == Init => Busyness
<1> SUFFICES ASSUME Init PROVE Busyness
  BY Zenon
<1>1. RunningIn(where) = {} /\ Current = {} /\ \A b \in Bundle : where[b] # "queued"
  BY Zenon DEF Init, RunningIn, Current
<1>2. Cardinality(RunningIn(where)) = 0
  BY <1>1, FS_EmptySet, Zenon
<1>3. QED
  BY <1>1, <1>2, BundlerAssumption DEF Busyness, Counted, Init

(* enqueueCurBundle and postHandle keep the count of handlers exact and leave
   nothing queued while a handler is free, whatever the limits are. *)
THEOREM NoWorkOverlooked == Spec => []QueueOnlyWhenBusy
<1>1. Busyness => QueueOnlyWhenBusy
  BY Zenon DEF Busyness, Counted, QueueOnlyWhenBusy, RunningIn, Queue
<1>2. QED
  BY <1>1, InvInit, InvStep, BusynessInit, BusynessStep, PTL DEF Spec

(* A bundle that is being filled always has its timer, although callbacks of
   stopped timers run late. *)
THEOREM TimerAlwaysSet == Spec => []TimerGuardsCurrent
<1>1. Busyness => TimerGuardsCurrent
  BY Zenon DEF Busyness, TimerGuardsCurrent
<1>2. QED
  BY <1>1, InvInit, InvStep, BusynessInit, BusynessStep, PTL DEF Spec

-----------------------------------------------------------------------------
(* The semaphore's weight. *)

Charged == {i \in Item : item[i] \in {"admitted", "bundled"}}
Called == {i \in Item : item[i] # "new"}

(* A bundle weighs what its items weigh; an item is in a bundle once it is
   bundled, and has been handled exactly if that bundle is done.  However many
   items there are, finitely many have been added. *)
Weighed ==
    /\ bytes \in [Bundle -> Nat]
    /\ IsFiniteSet(Called)
    /\ acquired = SumFunctionOnSet(Size, Charged) /\ acquired <= BufferLimit
    /\ \A i \in Item : within[i] \in Bundle =>
          item[i] \in {"bundled", "handled"} /\ where[within[i]] # "unused"
    /\ \A i \in Item : item[i] = "handled" =>
          within[i] \in Bundle /\ where[within[i]] = "done"
    /\ \A b \in Bundle : bytes[b] = SumFunctionOnSet(Size, Items(b))

(* What the invariant says of the items that weigh. *)
LEMMA WeightsAdd ==
    ASSUME Inv, Weighed
    PROVE  /\ IsFiniteSet(Charged) /\ acquired \in Nat
           /\ \A b \in Bundle : IsFiniteSet(Items(b))
           /\ \A S : S \subseteq Item => \A i \in S : Size[i] \in Nat /\ Size[i] \in Int
<1>1. /\ Charged \subseteq Called /\ Charged \subseteq Item
      /\ \A b \in Bundle : Items(b) \subseteq Called
  BY Zenon DEF Charged, Called, Items, Weighed
<1>2. /\ IsFiniteSet(Charged)
      /\ \A b \in Bundle : IsFiniteSet(Items(b))
  BY <1>1, FS_Subset, Zenon DEF Weighed
<1>3. \A S : S \subseteq Item => \A i \in S : Size[i] \in Nat /\ Size[i] \in Int
  BY BundlerAssumption
<1>4. acquired \in Nat
  BY <1>1, <1>2, <1>3, SumNat, Zenon DEF Weighed
<1>5. QED
  BY <1>2, <1>3, <1>4, Zenon

(* A caller that is admitted takes its weight, and only if it fits. *)
LEMMA CallWeighed ==
    ASSUME Inv, Weighed, NEW i \in Item, AddWait(i) \/ Add(i) \/ Acquire(i) \/ Cancel(i)
    PROVE  Weighed'
<1>1. /\ item[i] \in {"new", "waiting"}
      /\ UNCHANGED <<within, where, bytes>>
      /\ \/ /\ item' = [item EXCEPT ![i] = "admitted"]
            /\ Fits(i) /\ acquired' = acquired + Size[i]
         \/ /\ \E v \in {"waiting", "refused"} : item' = [item EXCEPT ![i] = v]
            /\ acquired' = acquired
  BY Zenon DEF AddWait, Add, Acquire, Cancel, Weigh, Reject
<1>2. /\ i \notin Charged
      /\ \A j \in Item \ {i} : item'[j] = item[j]
      /\ item'[i] \in {"waiting", "refused", "admitted"}
      /\ item'[i] = "admitted" <=> item' = [item EXCEPT ![i] = "admitted"]
  BY <1>1, Zenon DEF Inv, CoreType, Charged
<1>3. Called' = Called \cup {i}
  BY <1>2, Zenon DEF Called
<1>4. IsFiniteSet(Called')
  BY <1>3, FS_AddElement, Zenon DEF Weighed
<1>5. acquired' = SumFunctionOnSet(Size, Charged') /\ acquired' <= BufferLimit
  <2>1. CASE item' = [item EXCEPT ![i] = "admitted"]
    <3>1. Charged' = Charged \cup {i} /\ Charged \cup {i} \subseteq Item
      BY <1>2, <2>1, Zenon DEF Charged
    <3>2. SumFunctionOnSet(Size, Charged \cup {i}) = SumFunctionOnSet(Size, Charged) + Size[i]
      <4>1. IsFiniteSet(Charged) /\ i \notin Charged /\ \A j \in Charged \cup {i} : Size[j] \in Int
        BY <1>2, <3>1, WeightsAdd, Zenon
      <4>2. QED
        BY <4>1, SumPut, Zenon
    <3>3. item'[i] = "admitted" /\ item \in [Item -> {"new", "waiting", "admitted", "bundled", "handled", "refused"}]
      BY <1>2, <2>1, Zenon DEF Inv, CoreType
    <3>4. Fits(i) /\ acquired' = acquired + Size[i]
      BY <1>1, <3>3, Zenon
    <3>5. QED
      BY <3>1, <3>2, <3>4 DEF Weighed, Fits
  <2>2. CASE \E v \in {"waiting", "refused"} : item' = [item EXCEPT ![i] = v]
    <3>1. item'[i] \in {"waiting", "refused"}
      BY <2>2, Zenon DEF Inv, CoreType
    <3>2. Charged' = Charged
      BY <1>2, <3>1, Zenon DEF Charged
    <3>3. acquired' = acquired
      BY <1>1, <1>2, <3>1, Zenon
    <3>4. QED
      BY <3>2, <3>3, Zenon DEF Weighed
  <2>3. QED
    BY <1>1, <2>1, <2>2, Zenon
<1>6. \A b \in Bundle : Items(b)' = Items(b)
  BY <1>1, Zenon DEF Items
<1>7. within' = within /\ where' = where /\ bytes' = bytes
  BY <1>1, Zenon
<1>8. \A j \in Item : /\ item[j] \in {"bundled", "handled"} => item'[j] = item[j]
                      /\ item'[j] = "handled" => item[j] = "handled"
  <2>1. item[i] \notin {"bundled", "handled"} /\ item'[i] # "handled"
    BY <1>1, <1>2
  <2>2. QED
    BY <1>2, <2>1, Zenon
<1>9. \A j \in Item : within'[j] \in Bundle =>
          item'[j] \in {"bundled", "handled"} /\ where'[within'[j]] # "unused"
  BY <1>7, <1>8, Zenon DEF Weighed
<1>10. \A j \in Item : item'[j] = "handled" => within'[j] \in Bundle /\ where'[within'[j]] = "done"
  BY <1>7, <1>8, Zenon DEF Weighed
<1>11. \A b \in Bundle : bytes'[b] = SumFunctionOnSet(Size, Items(b)')
  BY <1>6, <1>7, Zenon DEF Weighed
<1>12. bytes' \in [Bundle -> Nat]
  BY <1>7, Zenon DEF Weighed
<1>13. QED
  BY <1>4, <1>5, <1>9, <1>10, <1>11, <1>12, Zenon DEF Weighed

(* No bundle is unmade, and what is done stays done. *)
Onward ==
    \A c \in Bundle : /\ where[c] # "unused" => where'[c] # "unused"
                      /\ where[c] = "done" => where'[c] = "done"

(* Steps that move bundles and no item. *)
LEMMA OnwardWeighed ==
    ASSUME Weighed, Onward, UNCHANGED <<item, within, bytes, acquired>>
    PROVE  Weighed'
<1>1. Charged' = Charged /\ Called' = Called /\ \A b \in Bundle : Items(b)' = Items(b)
  BY Zenon DEF Charged, Called, Items
<1>2. QED
  BY <1>1, Zenon DEF Weighed, Onward

(* An item brings its weight into the bundle it joins. *)
LEMMA PutWeighed ==
    ASSUME Inv, Weighed, Onward, NEW i \in Item, NEW b \in Bundle,
           item[i] = "admitted", item' = [item EXCEPT ![i] = "bundled"],
           within' = [within EXCEPT ![i] = b],
           bytes' = [bytes EXCEPT ![b] = bytes[b] + Size[i]],
           acquired' = acquired, where'[b] # "unused"
    PROVE  Weighed'
<1>1. /\ item'[i] = "bundled" /\ within'[i] = b
      /\ \A j \in Item \ {i} : item'[j] = item[j] /\ within'[j] = within[j]
  BY Zenon DEF Inv, CoreType
<1>2. Charged' = Charged /\ Called' = Called
  BY <1>1, Zenon DEF Charged, Called
<1>3. within[i] \notin Bundle
  BY Zenon DEF Weighed
<1>4. /\ Items(b)' = Items(b) \cup {i} /\ i \notin Items(b)
      /\ Items(b) \cup {i} \subseteq Item
      /\ \A c \in Bundle \ {b} : Items(c)' = Items(c)
  BY <1>1, <1>3, Zenon DEF Items
<1>5. SumFunctionOnSet(Size, Items(b) \cup {i}) = SumFunctionOnSet(Size, Items(b)) + Size[i]
  BY <1>4, WeightsAdd, SumPut, Zenon
<1>6. bytes[b] \in Nat /\ Size[i] \in Nat
  BY BundlerAssumption, Zenon DEF Weighed
<1>7. /\ bytes' \in [Bundle -> Nat] /\ bytes'[b] = bytes[b] + Size[i]
      /\ \A c \in Bundle \ {b} : bytes'[c] = bytes[c]
  BY <1>6 DEF Weighed
<1>8. \A c \in Bundle : bytes'[c] = SumFunctionOnSet(Size, Items(c)')
  <2>1. bytes'[b] = SumFunctionOnSet(Size, Items(b)')
    <3>1. bytes[b] = SumFunctionOnSet(Size, Items(b))
      BY Zenon DEF Weighed
    <3>2. bytes'[b] = SumFunctionOnSet(Size, Items(b)) + Size[i]
      BY <1>7, <3>1, Zenon
    <3>3. QED
      BY <1>4, <1>5, <3>2, Zenon
  <2>2. ASSUME NEW c \in Bundle \ {b}
        PROVE  bytes'[c] = SumFunctionOnSet(Size, Items(c)')
    <3>1. bytes[c] = SumFunctionOnSet(Size, Items(c))
      BY Zenon DEF Weighed
    <3>2. QED
      BY <1>4, <1>7, <3>1, Zenon
  <2>3. QED
    BY <2>1, <2>2, Zenon
<1>9. \A j \in Item : within'[j] \in Bundle =>
         item'[j] \in {"bundled", "handled"} /\ where'[within'[j]] # "unused"
  <2>1. \A j \in Item \ {i} : within[j] \in Bundle =>
           item[j] \in {"bundled", "handled"} /\ where'[within[j]] # "unused"
    BY Zenon DEF Weighed, Onward
  <2>2. QED
    BY <1>1, <2>1, Zenon
<1>10. \A j \in Item : item'[j] = "handled" =>
         within'[j] \in Bundle /\ where'[within'[j]] = "done"
  <2>1. \A j \in Item \ {i} : item[j] = "handled" =>
           within[j] \in Bundle /\ where'[within[j]] = "done"
    BY Zenon DEF Weighed, Onward
  <2>2. QED
    BY <1>1, <2>1
<1>11. QED
  BY <1>2, <1>7, <1>8, <1>9, <1>10, Zenon DEF Weighed

(* A bundle that goes on from the current place stays made. *)
LEMMA AdvanceOnward ==
    ASSUME CoreType, NEW S \in SUBSET Current, Enqueue(S)
    PROVE  Onward
  BY EnqueueAdvances, Zenon DEF Advance, Onward

(* add puts the item into the tail of the queue or the current bundle ... *)
LEMMA JoinWeighed ==
    ASSUME Inv, Weighed, NEW i \in Item, JoinTail(i) \/ JoinCurrent(i)
    PROVE  Weighed'
<1>1. PICK b \in Bundle :
         /\ item[i] = "admitted" /\ where[b] \in {"current", "queued"}
         /\ item' = [item EXCEPT ![i] = "bundled"]
         /\ within' = [within EXCEPT ![i] = b]
         /\ bytes' = [bytes EXCEPT ![b] = bytes[b] + Size[i]]
         /\ acquired' = acquired
         /\ \/ where' = where
            \/ \E S \in SUBSET Current : Enqueue(S)
  BY Zenon DEF JoinTail, JoinCurrent, Current, Queue, IsTail
<1>2. Onward
  BY <1>1, AdvanceOnward, Zenon DEF Inv, Onward
<1>3. where'[b] # "unused"
  BY <1>1, <1>2, Zenon DEF Onward
<1>4. QED
  BY <1>1, <1>2, <1>3, PutWeighed, Zenon

(* ... or into a new one, which weighs nothing before. *)
LEMMA StartWeighed ==
    ASSUME Inv, Weighed, NEW i \in Item, StartBundle(i)
    PROVE  Weighed'
<1> DEFINE b == created + 1
           w == Placed(Current, where, handlers)
           h == Busy(Current, handlers)
<1>1. b \in Bundle
  BY BundlerAssumption DEF StartBundle, Inv, CoreType, Bundle
<1>2. where[b] = "unused"
  BY <1>1, BundlerAssumption DEF Inv, BundleInv, CoreType
<1>3. Items(b) = {}
  BY <1>1, <1>2, Zenon DEF Items, Weighed
<1>4. bytes[b] = 0
  BY <1>1, <1>3, SumEmpty, Zenon DEF Weighed
<1>5. /\ where \in [Bundle -> States] /\ handlers \in Int /\ Current \in SUBSET Bundle
      /\ \A c \in Current : where[c] = "current"
  BY Zenon DEF Inv, CoreType, Current
<1>6. /\ w \in [Bundle -> States] /\ h \in Int
      /\ \A c \in Current : w[c] \in {"queued", "running"}
      /\ \A c \in Bundle \ Current : w[c] = where[c]
  BY <1>5, PlacedType
<1> HIDE DEF w, h
<1>7. /\ item[i] = "admitted" /\ item' = [item EXCEPT ![i] = "bundled"]
      /\ within' = [within EXCEPT ![i] = b]
      /\ bytes' = [bytes EXCEPT ![b] = Size[i]]
      /\ acquired' = acquired
      /\ \/ where' = Placed({b}, w, h)
         \/ where' = [w EXCEPT ![b] = "current"]
  BY Zenon DEF StartBundle, w, h
<1> HIDE DEF b
<1>8. /\ where'[b] \in {"current", "queued", "running"}
      /\ \A c \in Bundle \ {b} : where'[c] = w[c]
  <2>1. CASE where' = Placed({b}, w, h)
    BY <1>1, <1>6, <2>1, PlacedType
  <2>2. CASE where' = [w EXCEPT ![b] = "current"]
    BY <1>1, <1>6, <2>2, Zenon
  <2>3. QED
    BY <1>7, <2>1, <2>2, Zenon
<1>9. Onward
  BY <1>2, <1>5, <1>6, <1>8, Zenon DEF Onward
<1>10. bytes[b] + Size[i] = Size[i]
  BY <1>4, BundlerAssumption
<1>11. QED
  BY <1>1, <1>7, <1>8, <1>9, <1>10, PutWeighed, Zenon

(* postHandle releases the weight of the items it counts out. *)
LEMMA HandleWeighed ==
    ASSUME Inv, Weighed, NEW b \in Bundle, PostHandle(b)
    PROVE  Weighed'
<1>1. /\ where[b] = "running" /\ where'[b] = "done"
      /\ item' = [i \in Item |-> IF within[i] = b THEN "handled" ELSE item[i]]
      /\ acquired' = acquired - bytes[b]
      /\ within' = within /\ bytes' = bytes
      /\ \A c \in Bundle \ {b} : \/ where'[c] = where[c]
                                 \/ where[c] = "queued" /\ where'[c] = "running"
  BY Zenon DEF PostHandle, IsHead, Queue
<1>2. Onward
  BY <1>1, Zenon DEF Onward
<1>3. \A i \in Items(b) : item[i] = "bundled"
  BY <1>1, Zenon DEF Items, Weighed
<1>4. Items(b) \in SUBSET Charged /\ Charged' = Charged \ Items(b) /\ Called' = Called
  BY <1>1, <1>3, Zenon DEF Items, Charged, Called
<1>5. SumFunctionOnSet(Size, Charged) =
         SumFunctionOnSet(Size, Items(b)) + SumFunctionOnSet(Size, Charged \ Items(b))
  <2>1. Charged \subseteq Item
    BY Zenon DEF Charged
  <2>2. QED
    BY <1>4, <2>1, WeightsAdd, SumSplit, Zenon
<1>6. SumFunctionOnSet(Size, Charged \ Items(b)) \in Int
  <2>1. Charged \ Items(b) \subseteq Item /\ Charged \ Items(b) \subseteq Charged
    BY Zenon DEF Charged
  <2>2. IsFiniteSet(Charged \ Items(b))
    BY <2>1, WeightsAdd, FS_Subset, Zenon
  <2>3. QED
    BY <2>1, <2>2, WeightsAdd, SumType, Zenon
<1>7. acquired \in Nat /\ bytes[b] \in Nat
  BY WeightsAdd, Zenon DEF Weighed
<1>8. acquired = bytes[b] + SumFunctionOnSet(Size, Charged')
  BY <1>4, <1>5, Zenon DEF Weighed
<1>9. acquired' = SumFunctionOnSet(Size, Charged') /\ acquired' <= BufferLimit
  <2>1. acquired <= BufferLimit /\ SumFunctionOnSet(Size, Charged') \in Int
    BY <1>4, <1>6, Zenon DEF Weighed
  <2>2. QED
    BY <1>1, <1>7, <1>8, <2>1, BundlerAssumption
<1>10. \A c \in Bundle : Items(c)' = Items(c)
  BY <1>1, Zenon DEF Items
<1>11. /\ \A i \in Item : within'[i] \in Bundle =>
             item'[i] \in {"bundled", "handled"} /\ where'[within'[i]] # "unused"
       /\ \A i \in Item : item'[i] = "handled" =>
             within'[i] \in Bundle /\ where'[within'[i]] = "done"
  BY <1>1, <1>2, Zenon DEF Weighed, Onward
<1>12. /\ bytes' \in [Bundle -> Nat] /\ IsFiniteSet(Called')
       /\ \A c \in Bundle : bytes'[c] = SumFunctionOnSet(Size, Items(c)')
  BY <1>1, <1>4, <1>10, Zenon DEF Weighed
<1>13. QED
  BY <1>9, <1>11, <1>12, Zenon DEF Weighed

(* Every step keeps the weight in use equal to the weight of what is held. *)
LEMMA WeighedStep == Inv /\ Weighed /\ [Next]_vars => Weighed'
<1> SUFFICES ASSUME Inv, Weighed, [Next]_vars PROVE Weighed'
  BY Zenon
<1>1. CASE UNCHANGED <<item, within, where, bytes, acquired>>
  BY <1>1, OnwardWeighed, Zenon DEF Onward
<1>2. ASSUME NEW i \in Item, AddWait(i) \/ Add(i) \/ Acquire(i) \/ Cancel(i)
      PROVE  Weighed'
  BY <1>2, CallWeighed, Zenon
<1>3. ASSUME NEW i \in Item, PutItem(i)
      PROVE  Weighed'
  BY <1>3, JoinWeighed, StartWeighed, Zenon DEF PutItem
<1>4. CASE TryHandleBundles
  <2>1. Onward
    BY <1>4, AdvanceOnward, Zenon DEF TryHandleBundles, Inv
  <2>2. QED
    BY <1>4, <2>1, OnwardWeighed, Zenon DEF TryHandleBundles
<1>5. ASSUME NEW b \in Bundle, PostHandle(b)
      PROVE  Weighed'
  BY <1>5, HandleWeighed, Zenon
<1>6. ASSUME NEW f \in Flusher, FlushBegin(f)
      PROVE  Weighed'
  <2>1. Onward
    BY <1>6, AdvanceOnward, Zenon DEF FlushBegin, Inv
  <2>2. QED
    BY <1>6, <2>1, OnwardWeighed, Zenon DEF FlushBegin
<1>7. ASSUME NEW f \in Flusher, FlushEnd(f)
      PROVE  Weighed'
  BY <1>1, <1>7, Zenon DEF FlushEnd
<1>8. QED
  BY <1>1, <1>2, <1>3, <1>4, <1>5, <1>6, <1>7, Zenon DEF Next, vars

(* At the start nothing weighs. *)
LEMMA WeighedInit == Init => Weighed
<1> SUFFICES ASSUME Init PROVE Weighed
  BY Zenon
<1>1. Charged = {} /\ Called = {} /\ \A b \in Bundle : Items(b) = {}
  BY DEF Init, Charged, Called, Items, Bundle, NoBundle
<1>2. bytes \in [Bundle -> Nat] /\ acquired = 0 /\ \A b \in Bundle : bytes[b] = 0
  BY DEF Init
<1>3. IsFiniteSet(Called) /\ acquired = SumFunctionOnSet(Size, Charged)
  BY <1>1, <1>2, FS_EmptySet, SumEmpty, Zenon
<1>4. acquired <= BufferLimit
  BY <1>2, BundlerAssumption
<1>5. \A i \in Item : within[i] \notin Bundle /\ item[i] # "handled"
  BY DEF Init, Bundle, NoBundle
<1>6. QED
  BY <1>1, <1>2, <1>3, <1>4, <1>5, SumEmpty, Zenon DEF Weighed

(* The weight taken from the semaphore is that of the items added and not yet
   handled, and never more than the limit, whatever the sizes, thresholds and
   limits are and however often an item joins a bundle late. *)
THEOREM WeightNeverLeaks == Spec => []BytesAccounted
<1>1. Weighed => BytesAccounted
  BY Zenon DEF Weighed, BytesAccounted, Charged
<1>2. QED
  BY <1>1, InvInit, InvStep, WeighedInit, WeighedStep, PTL DEF Spec

-----------------------------------------------------------------------------
(* Types. *)

(* What no other invariant speaks of. *)
CallerType == waiters \in Seq(Item) /\ late \in Nat /\ mode \in {"none", "add", "addWait"}

(* Every step keeps the queue of callers a queue. *)
LEMMA CallerTypeStep == CallerType /\ [Next]_vars => CallerType'
<1> SUFFICES ASSUME CallerType, [Next]_vars PROVE CallerType'
  BY Zenon
<1>1. CASE UNCHANGED <<waiters, late, mode>>
  BY <1>1, Zenon DEF CallerType
<1>2. ASSUME NEW i \in Item, AddWait(i) \/ Add(i)
      PROVE  CallerType'
  <2>1. late' = late /\ mode' \in {mode, "add", "addWait"}
    BY <1>2, Zenon DEF AddWait, Add
  <2>2. waiters' = waiters \/ waiters' = Append(waiters, i)
    BY <1>2, Zenon DEF AddWait, Add, Reject, Weigh
  <2>3. waiters' \in Seq(Item)
    BY <2>2 DEF CallerType
  <2>4. QED
    BY <2>1, <2>3, Zenon DEF CallerType
<1>3. ASSUME NEW i \in Item, Acquire(i)
      PROVE  CallerType'
  BY <1>3 DEF CallerType, Acquire
<1>4. ASSUME NEW i \in Item, Cancel(i)
      PROVE  CallerType'
  BY <1>4, KeptElements, Zenon DEF CallerType, Cancel
<1>5. ASSUME NEW i \in Item, PutItem(i)
      PROVE  CallerType'
  <2>1. UNCHANGED <<waiters, mode>> /\ late' \in {late, late + 1}
    BY <1>5, Zenon DEF PutItem, JoinTail, JoinCurrent, StartBundle, StopTimer
  <2>2. QED
    BY <2>1 DEF CallerType
<1>6. CASE TryHandleBundles
  BY <1>6 DEF CallerType, TryHandleBundles
<1>7. ASSUME NEW b \in Bundle, PostHandle(b)
      PROVE  CallerType'
  BY <1>1, <1>7, Zenon DEF PostHandle
<1>8. ASSUME NEW f \in Flusher, FlushBegin(f) \/ FlushEnd(f)
      PROVE  CallerType'
  <2>1. UNCHANGED <<waiters, mode>> /\ late' \in {late, late + 1}
    BY <1>8, Zenon DEF FlushBegin, FlushEnd, StopTimer
  <2>2. QED
    BY <2>1 DEF CallerType
<1>9. QED
  BY <1>1, <1>2, <1>3, <1>4, <1>5, <1>6, <1>7, <1>8, Zenon DEF Next, vars

(* The Bundler keeps its state well formed; in particular never more handlers
   run than the limit allows. *)
THEOREM BundlerTypeCorrect == Spec => []TypeOK
<1>1. Init => CallerType
  BY DEF Init, CallerType
<1>2. Inv /\ Busyness /\ Weighed /\ CallerType => TypeOK
  <2> SUFFICES ASSUME Inv, Busyness, Weighed, CallerType PROVE TypeOK
    BY Zenon
  <2>1. acquired \in Int
    BY WeightsAdd
  <2>2. QED
    BY <2>1, Zenon DEF Inv, CoreType, States, Busyness, Counted, Weighed, CallerType, TypeOK
<1>3. QED
  BY <1>1, <1>2, InvInit, InvStep, BusynessInit, BusynessStep, WeighedInit, WeighedStep,
     CallerTypeStep, PTL DEF Spec
-----------------------------------------------------------------------------
(* Git LFS. *)
(* The state of LfsLocks. *)
LockId == {c.name : c \in LockCall} \X Nat
Lock == [id : LockId, path : {c.path : c \in LockCall}, owner : DOMAIN Fold]
Document == [exists : BOOLEAN, locks : Seq(Lock)]
LockStage == {"idle", "refused", "room", "too_many", "read", "put", "ok", "error", "contended",
              "conflict", "not_found", "forbidden"}
LocksType ==
    /\ lockDoc \in Document
    /\ lockCall \in [LockCall -> [at : LockStage, id : LockId \cup {<<>>}, try : Nat, seen : Document]]

(* A path has one lock, and so has an id. *)
OneLock(locks) ==
    \A i, j \in DOMAIN locks : locks[i].path = locks[j].path \/ locks[i].id = locks[j].id => i = j

(* The ids a call has used: the one of a write to come is not among them. *)
IdsUsed ==
    \A c \in LockCall, l \in Held(lockDoc) : l.id[1] = c.name =>
      l.id[2] <= lockCall[c].try /\ (lockCall[c].at = "put" => l.id[2] < lockCall[c].try)

(* A call about to write decided so on the document its write is conditional
   on. *)
Decided == \A c \in LockCall : lockCall[c].at = "put" => Verdict(lockCall[c].seen, c) = "put"

(* The lock of a create answered 201 is there, or an unlock was shown it. *)
LockKept(c) ==
    \/ \E l \in Held(lockDoc) : l.id = <<c.name, lockCall[c].try>> /\ l.owner = c.user
    \/ \E u \in LockCall : u.op = "unlock" /\ lockCall[u].id = <<c.name, lockCall[c].try>>
GrantsKept == \A c \in LockCall : c.op = "create" /\ lockCall[c].at = "ok" => LockKept(c)

(* A call that has not begun was shown no lock. *)
NothingShown == \A c \in LockCall : lockCall[c].at = "idle" => lockCall[c].id = <<>>

(* The inductive invariant of LfsLocks. *)
LocksInv == LocksType /\ OneLock(lockDoc.locks) /\ IdsUsed /\ Decided /\ GrantsKept /\ NothingShown

CallState == [at : LockStage, id : LockId \cup {<<>>}, try : Nat, seen : Document]

(* What LockAt changes of a call. *)
LEMMA LockAtMoves ==
    ASSUME LocksType, NEW c \in LockCall, NEW at \in LockStage, LockAt(c, at)
    PROVE  /\ lockCall' \in [LockCall -> CallState]
           /\ lockCall'[c].at = at /\ lockCall'[c].id = lockCall[c].id /\ lockCall'[c].try = lockCall[c].try
           /\ \A d \in LockCall \ {c} : lockCall'[d] = lockCall[d]
<1>1. NoDoc \in Document
  <2>1. <<>> \in Seq(Lock)
    OBVIOUS
  <2> QED
    BY <2>1, Zenon DEF NoDoc, Document
<1> DEFINE r == [lockCall[c] EXCEPT !.at = at, !.seen = NoDoc]
<1>2. lockCall[c] \in CallState
  BY Zenon DEF LocksType, CallState
<1>3. r \in CallState /\ r.at = at /\ r.id = lockCall[c].id /\ r.try = lockCall[c].try
  BY <1>1, <1>2, Zenon DEF CallState
<1>4. lockCall' = [lockCall EXCEPT ![c] = r]
  BY Zenon DEF LockAt
<1> HIDE DEF r
<1>5. lockCall \in [LockCall -> CallState]
  BY Zenon DEF LocksType, CallState
<1> QED
  BY <1>3, <1>4, <1>5, Zenon

(* The ids of the locks held. *)
LEMMA HeldIds == ASSUME LocksType, NEW l \in Held(lockDoc) PROVE l \in Lock /\ l.id \in LockId /\ l.id[2] \in Nat
<1>1. lockDoc.locks \in Seq(Lock)
  BY Zenon DEF LocksType, Document
<1>2. \A i \in DOMAIN lockDoc.locks : lockDoc.locks[i] \in Lock
  BY <1>1
<1>3. l \in Lock
  BY <1>2, Zenon DEF Held, Range
<1> QED
  BY <1>3 DEF Lock, LockId

(* A step of one call that leaves the document alone: a new attempt takes a new
   number, and only BeginLock gives a call an id. *)
LEMMA QuietLockStep ==
    ASSUME LocksInv, NEW c \in LockCall, UNCHANGED lockDoc,
           lockCall' \in [LockCall -> CallState], \A d \in LockCall \ {c} : lockCall'[d] = lockCall[d],
           lockCall[c].try <= lockCall'[c].try,
           lockCall'[c].at = "put" => lockCall[c].try < lockCall'[c].try /\ Verdict(lockCall[c].seen, c)' = "put",
           lockCall'[c].at \notin {"ok", "idle"},
           lockCall[c].at = "idle" \/ lockCall'[c].id = lockCall[c].id
    PROVE  LocksInv'
<1>1. LocksType'
  BY Zenon DEF LocksInv, LocksType, CallState
<1>2. OneLock(lockDoc.locks)'
  BY Zenon DEF LocksInv, OneLock
<1>3. IdsUsed'
  <2> SUFFICES ASSUME NEW d \in LockCall, NEW l \in Held(lockDoc), l.id[1] = d.name
               PROVE  l.id[2] <= lockCall'[d].try /\ (lockCall'[d].at = "put" => l.id[2] < lockCall'[d].try)
    BY Zenon DEF IdsUsed
  <2>1. l.id[2] <= lockCall[d].try /\ (lockCall[d].at = "put" => l.id[2] < lockCall[d].try)
    BY Zenon DEF LocksInv, IdsUsed
  <2>2. l.id[2] \in Nat /\ lockCall[d].try \in Nat /\ lockCall'[d].try \in Nat
    BY HeldIds, Zenon DEF LocksInv, LocksType, CallState
  <2>3. CASE d = c
    BY <2>1, <2>2, <2>3
  <2>4. CASE d # c
    BY <2>1, <2>4, Zenon
  <2> QED
    BY <2>3, <2>4
<1>4. Decided'
  <2> SUFFICES ASSUME NEW d \in LockCall, lockCall'[d].at = "put" PROVE Verdict(lockCall[d].seen, d)' = "put"
    BY Zenon DEF Decided
  <2>1. CASE d = c
    BY <2>1, Zenon
  <2>2. CASE d # c
    BY <2>2, Zenon DEF LocksInv, Decided, Verdict
  <2> QED
    BY <2>1, <2>2, Zenon
<1>5. GrantsKept'
  <2> SUFFICES ASSUME NEW d \in LockCall, d.op = "create", lockCall'[d].at = "ok" PROVE LockKept(d)'
    BY Zenon DEF GrantsKept
  <2>1. d # c /\ lockCall'[d] = lockCall[d] /\ LockKept(d)
    BY Zenon DEF LocksInv, GrantsKept
  <2>2. CASE \E l \in Held(lockDoc) : l.id = <<d.name, lockCall[d].try>> /\ l.owner = d.user
    BY <2>1, <2>2, Zenon DEF LockKept
  <2>3. ASSUME NEW u \in LockCall, u.op = "unlock", lockCall[u].id = <<d.name, lockCall[d].try>> PROVE LockKept(d)'
    <3>1. lockCall[u].at # "idle"
      <4>1. lockCall[u].id # <<>>
        BY <2>3
      <4> QED
        BY <4>1, Zenon DEF LocksInv, NothingShown
    <3>2. lockCall'[u].id = lockCall[u].id
      BY <3>1, Zenon
    <3> QED
      BY <2>1, <2>3, <3>2, Zenon DEF LockKept
  <2> QED
    BY <2>1, <2>2, <2>3, Zenon DEF LockKept
<1>6. NothingShown'
  BY Zenon DEF LocksInv, NothingShown
<1> QED
  BY <1>1, <1>2, <1>3, <1>4, <1>5, <1>6, Zenon DEF LocksInv

(* The place in s of element j of Deleted(s, i). *)
Skip(i, j) == IF j < i THEN j ELSE j + 1

(* Deleted keeps the other elements, each at its place or the one before. *)
LEMMA DeletedElements ==
    ASSUME NEW S, NEW s \in Seq(S), NEW i \in DOMAIN s
    PROVE  /\ Deleted(s, i) \in Seq(S)
           /\ \A j \in DOMAIN Deleted(s, i) :
                Skip(i, j) \in DOMAIN s \ {i} /\ Deleted(s, i)[j] = s[Skip(i, j)]
           /\ \A k \in DOMAIN s \ {i} : \E j \in DOMAIN Deleted(s, i) : k = Skip(i, j)
           /\ \A j, k \in DOMAIN Deleted(s, i) : Skip(i, j) = Skip(i, k) => j = k
<1> DEFINE a == SubSeq(s, 1, i - 1)
           b == SubSeq(s, i + 1, Len(s))
<1>1. a \in Seq(S) /\ Len(a) = i - 1 /\ \A j \in 1 .. (i - 1) : a[j] = s[j]
  OBVIOUS
<1>2. b \in Seq(S) /\ Len(b) = Len(s) - i /\ \A j \in 1 .. (Len(s) - i) : b[j] = s[i + j]
  OBVIOUS
<1>3. Deleted(s, i) = a \o b
  BY Zenon DEF Deleted
<1> HIDE DEF a, b
<1>4. /\ a \o b \in Seq(S) /\ Len(a \o b) = Len(s) - 1
      /\ \A j \in 1 .. (Len(s) - 1) : (a \o b)[j] = IF j < i THEN s[j] ELSE s[j + 1]
  BY <1>1, <1>2
<1> DEFINE r == a \o b
<1> HIDE DEF r
<1>5. r \in Seq(S) /\ DOMAIN r = 1 .. (Len(s) - 1) /\ DOMAIN s = 1 .. Len(s) /\ Len(s) \in Nat /\ i \in 1 .. Len(s)
  BY <1>4 DEF r
<1>6. \A j \in DOMAIN r : r[j] = IF j < i THEN s[j] ELSE s[j + 1]
  BY <1>4, <1>5, Zenon DEF r
<1>7. ASSUME NEW j \in DOMAIN r PROVE Skip(i, j) \in DOMAIN s \ {i} /\ r[j] = s[Skip(i, j)]
  BY <1>5, <1>6 DEF Skip
<1>8. ASSUME NEW k \in DOMAIN s \ {i} PROVE \E j \in DOMAIN r : k = Skip(i, j)
  <2>1. CASE k < i
    BY <1>5, <2>1 DEF Skip
  <2>2. CASE k > i
    <3>1. k - 1 \in DOMAIN r /\ k = Skip(i, k - 1)
      BY <1>5, <2>2 DEF Skip
    <3> QED
      BY <3>1, Zenon
  <2> QED
    BY <1>5, <2>1, <2>2
<1>9. ASSUME NEW j \in DOMAIN r, NEW k \in DOMAIN r, Skip(i, j) = Skip(i, k) PROVE j = k
  BY <1>5, <1>9 DEF Skip
<1>10. Deleted(s, i) = r
  BY <1>3, Zenon DEF r
<1> QED
  BY <1>5, <1>7, <1>8, <1>9, <1>10, Zenon

(* The document after the write of an unlock: the lock it names is out, every
   other one is in, and no other lock of it has that id. *)
LEMMA UnlockedDoc ==
    ASSUME LocksInv, NEW c \in LockCall, c.op = "unlock", Verdict(lockDoc, c) = "put"
    PROVE  LET doc == NextDoc(lockDoc, c) IN
           /\ doc \in Document /\ OneLock(doc.locks) /\ Held(doc) \subseteq Held(lockDoc)
           /\ \A l \in Held(lockDoc) \ Held(doc) :
                l.id = lockCall[c].id /\ (c.force \/ Fold[c.user] = Fold[l.owner])
<1> DEFINE s == lockDoc.locks
           id == lockCall[c].id
           i == IndexOfLock(lockDoc, id)
           r == Deleted(s, i)
<1>1. s \in Seq(Lock) /\ OneLock(s)
  BY Zenon DEF LocksInv, LocksType, Document
<1>2. DeleteVerdict(lockDoc, c, id) = "put"
  BY Zenon DEF Verdict
<1>3. PICK k \in DOMAIN s : s[k].id = id
  <2>1. ~ \A l \in Held(lockDoc) : l.id # id
    BY <1>2 DEF DeleteVerdict
  <2> QED
    BY <2>1, Zenon DEF Held, Range
<1>4. c.force \/ ~ \E l \in Held(lockDoc) : l.id = id /\ Fold[l.owner] # Fold[c.user]
  BY <1>2 DEF DeleteVerdict
<1>5. \A j \in 1 .. (k - 1) : s[j].id # id
  BY <1>1, <1>3 DEF OneLock
<1>6. i \in DOMAIN s /\ s[i].id = id
  BY <1>3, <1>5, Zenon DEF IndexOfLock
<1>7. NextDoc(lockDoc, c) = Doc(r)
  BY Zenon DEF NextDoc
<1> HIDE DEF i
<1>8. /\ r \in Seq(Lock)
      /\ \A j \in DOMAIN r : Skip(i, j) \in DOMAIN s \ {i} /\ r[j] = s[Skip(i, j)]
      /\ \A m \in DOMAIN s \ {i} : \E j \in DOMAIN r : m = Skip(i, j)
      /\ \A j, m \in DOMAIN r : Skip(i, j) = Skip(i, m) => j = m
  <2> HIDE DEF s
  <2> QED
    BY <1>1, <1>6, DeletedElements
<1> HIDE DEF r
<1>10. Doc(r) \in Document /\ Doc(r).locks = r
  BY <1>8, Zenon DEF Doc, Document
<1>11. OneLock(r)
  <2> SUFFICES ASSUME NEW j \in DOMAIN r, NEW m \in DOMAIN r, r[j].path = r[m].path \/ r[j].id = r[m].id
               PROVE  j = m
    BY Zenon DEF OneLock
  <2>1. /\ Skip(i, j) \in DOMAIN s /\ r[j] = s[Skip(i, j)]
        /\ Skip(i, m) \in DOMAIN s /\ r[m] = s[Skip(i, m)]
    BY <1>8, Zenon
  <2>2. Skip(i, j) = Skip(i, m)
    BY <1>1, <2>1, Zenon DEF OneLock
  <2> QED
    BY <1>8, <2>2, Zenon
<1>12. Held(Doc(r)) = {r[j] : j \in DOMAIN r} /\ Held(lockDoc) = {s[j] : j \in DOMAIN s}
  BY <1>10, Zenon DEF Held, Range
<1>13. Held(Doc(r)) \subseteq Held(lockDoc)
  <2> SUFFICES ASSUME NEW j \in DOMAIN r PROVE r[j] \in Held(lockDoc)
    BY <1>12, Zenon
  <2>1. Skip(i, j) \in DOMAIN s /\ r[j] = s[Skip(i, j)]
    BY <1>8, Zenon
  <2> QED
    BY <1>12, <2>1, Zenon
<1>14. ASSUME NEW l \in Held(lockDoc), l \notin Held(Doc(r)) PROVE l = s[i]
  <2>1. PICK m \in DOMAIN s : l = s[m]
    BY <1>12, <1>14, Zenon
  <2>2. m = i
    <3> SUFFICES ASSUME m # i PROVE FALSE
      BY Zenon
    <3>1. PICK j \in DOMAIN r : m = Skip(i, j)
      BY <1>8, Zenon
    <3>2. r[j] = l
      BY <1>8, <2>1, <3>1, Zenon
    <3> QED
      BY <1>12, <1>14, <3>2, Zenon
  <2> QED
    BY <2>1, <2>2, Zenon
<1>15. ASSUME NEW l \in Held(lockDoc), l \notin Held(Doc(r))
       PROVE  l.id = id /\ (c.force \/ Fold[c.user] = Fold[l.owner])
  BY <1>4, <1>6, <1>14, <1>15, Zenon
<1> QED
  BY <1>7, <1>10, <1>11, <1>13, <1>15, Zenon

(* The document after the write of a create: the new lock has its path and its
   id to itself. *)
LEMMA CreatedDoc ==
    ASSUME LocksInv, NEW c \in LockCall, c.op = "create", lockCall[c].at = "put", Verdict(lockDoc, c) = "put"
    PROVE  LET doc == NextDoc(lockDoc, c) IN
           /\ doc \in Document /\ OneLock(doc.locks)
           /\ \E new \in Lock : /\ new.id = <<c.name, lockCall[c].try>> /\ new.owner = c.user
                              /\ Held(doc) = Held(lockDoc) \cup {new}
<1> DEFINE s == lockDoc.locks
           new == [id |-> <<c.name, lockCall[c].try>>, path |-> c.path, owner |-> c.user]
           r == Append(s, new)
<1>1. s \in Seq(Lock) /\ OneLock(s)
  BY Zenon DEF LocksInv, LocksType, Document
<1>2. new \in Lock
  <2>1. <<c.name, lockCall[c].try>> \in LockId
    BY DEF LockId, LocksInv, LocksType
  <2> QED
    BY <2>1, LfsLocksAssumption, Zenon DEF Lock
<1>3. NextDoc(lockDoc, c) = Doc(r)
  BY Zenon DEF NextDoc
<1>4. \A i \in DOMAIN s : s[i].path # c.path
  <2>1. ~ \E l \in Held(lockDoc) : l.path = c.path
    BY DEF Verdict, CreateVerdict
  <2> QED
    BY <2>1, Zenon DEF Held, Range
<1>5. \A i \in DOMAIN s : s[i].id # new.id
  <2> SUFFICES ASSUME NEW i \in DOMAIN s, s[i].id = new.id PROVE FALSE
    BY Zenon
  <2>1. s[i].id[1] = c.name /\ s[i].id[2] = lockCall[c].try
    OBVIOUS
  <2>2. s[i] \in Held(lockDoc)
    BY Zenon DEF Held, Range
  <2>3. lockCall[c].try < lockCall[c].try /\ lockCall[c].try \in Nat
    BY <2>1, <2>2, Zenon DEF LocksInv, IdsUsed, LocksType
  <2> QED
    BY <2>3
<1>6. new.path = c.path /\ new.id = <<c.name, lockCall[c].try>> /\ new.owner = c.user
  BY Zenon
<1> HIDE DEF new
<1>7. /\ r \in Seq(Lock) /\ DOMAIN r = DOMAIN s \cup {Len(s) + 1} /\ Len(s) + 1 \notin DOMAIN s
      /\ r[Len(s) + 1] = new /\ \A i \in DOMAIN s : r[i] = s[i]
  BY <1>1, <1>2
<1> HIDE DEF r
<1>8. Doc(r) \in Document /\ Doc(r).locks = r
  BY <1>7, Zenon DEF Doc, Document
<1>9. OneLock(r)
  <2> SUFFICES ASSUME NEW j \in DOMAIN r, NEW m \in DOMAIN r, r[j].path = r[m].path \/ r[j].id = r[m].id
               PROVE  j = m
    BY Zenon DEF OneLock
  <2>1. CASE j \in DOMAIN s /\ m \in DOMAIN s
    BY <1>1, <1>7, <2>1, Zenon DEF OneLock
  <2>2. CASE j \in DOMAIN s /\ m = Len(s) + 1
    BY <1>4, <1>5, <1>6, <1>7, <2>2, Zenon
  <2>3. CASE j = Len(s) + 1 /\ m \in DOMAIN s
    BY <1>4, <1>5, <1>6, <1>7, <2>3, Zenon
  <2> QED
    BY <1>7, <2>1, <2>2, <2>3, Zenon
<1>10. Held(Doc(r)) = {r[j] : j \in DOMAIN r} /\ Held(lockDoc) = {s[j] : j \in DOMAIN s}
  BY <1>8, Zenon DEF Held, Range
<1>11. Held(Doc(r)) = Held(lockDoc) \cup {new}
  <2>1. ASSUME NEW l \in Held(Doc(r)) PROVE l \in Held(lockDoc) \cup {new}
    BY <1>7, <1>10, <2>1, Zenon
  <2>2. ASSUME NEW l \in Held(lockDoc) PROVE l \in Held(Doc(r))
    BY <1>7, <1>10, <2>2, Zenon
  <2>3. new \in Held(Doc(r))
    BY <1>7, <1>10, Zenon
  <2> QED
    BY <2>1, <2>2, <2>3, Zenon
<1> QED
  BY <1>2, <1>3, <1>6, <1>8, <1>9, <1>11, Zenon

(* A write that took effect, whatever its answer. *)
LEMMA WriteKeepsLocks == ASSUME LocksInv, NEW c \in LockCall, PutLocks(c) PROVE LocksInv'
<1>1. /\ lockCall[c].at = "put" /\ Verdict(lockDoc, c) = "put" /\ lockDoc' = NextDoc(lockDoc, c)
      /\ lockCall[c].at # "idle"
  BY DEF PutLocks, Matches, LocksInv, Decided
<1>2. PICK at \in {"ok", "error", "read", "contended"} : LockAt(c, at)
  BY Zenon DEF PutLocks, LoseRound
<1>3. /\ lockCall' \in [LockCall -> CallState]
      /\ lockCall'[c].at = at /\ lockCall'[c].id = lockCall[c].id /\ lockCall'[c].try = lockCall[c].try
      /\ \A d \in LockCall \ {c} : lockCall'[d] = lockCall[d]
  <2>1. at \in LockStage
    BY Zenon DEF LockStage
  <2> QED
    BY <1>2, <2>1, LockAtMoves, Zenon DEF LocksInv
<1>4. at # "put" /\ at # "idle"
  BY <1>2
<1>5. lockDoc' \in Document /\ OneLock(lockDoc'.locks)
  BY <1>1, CreatedDoc, UnlockedDoc, LfsLocksAssumption, Zenon
<1>6. ASSUME NEW l \in Held(lockDoc')
      PROVE  l \in Held(lockDoc) \/ (c.op = "create" /\ l.id = <<c.name, lockCall[c].try>> /\ l.owner = c.user)
  <2>1. CASE c.op = "create"
    BY <1>1, <1>6, <2>1, CreatedDoc, Zenon
  <2>2. CASE c.op = "unlock"
    BY <1>1, <1>6, <2>2, UnlockedDoc, Zenon
  <2> QED
    BY <2>1, <2>2, LfsLocksAssumption, Zenon
<1>7. LocksType'
  BY <1>3, <1>5, Zenon DEF LocksType, CallState
<1>8. IdsUsed'
  <2> SUFFICES ASSUME NEW d \in LockCall, NEW l \in Held(lockDoc'), l.id[1] = d.name
               PROVE  l.id[2] <= lockCall'[d].try /\ (lockCall'[d].at = "put" => l.id[2] < lockCall'[d].try)
    BY Zenon DEF IdsUsed
  <2>1. CASE l \in Held(lockDoc)
    BY <1>3, <1>4, <2>1, Zenon DEF LocksInv, IdsUsed
  <2>2. CASE l.id = <<c.name, lockCall[c].try>>
    <3>1. d = c
      BY <2>2, LfsLocksAssumption
    <3>2. l.id[2] = lockCall'[d].try /\ lockCall'[d].try \in Nat
      BY <1>3, <2>2, <3>1 DEF CallState
    <3> QED
      BY <1>3, <1>4, <3>1, <3>2
  <2> QED
    BY <1>6, <2>1, <2>2, Zenon
<1>9. Decided'
  <2> SUFFICES ASSUME NEW d \in LockCall, lockCall'[d].at = "put" PROVE Verdict(lockCall[d].seen, d)' = "put"
    BY Zenon DEF Decided
  <2> QED
    BY <1>3, <1>4, Zenon DEF LocksInv, Decided, Verdict
<1>10. GrantsKept'
  <2> SUFFICES ASSUME NEW d \in LockCall, d.op = "create", lockCall'[d].at = "ok" PROVE LockKept(d)'
    BY Zenon DEF GrantsKept
  <2>1. CASE d = c
    <3>1. PICK new \in Lock : /\ new.id = <<c.name, lockCall[c].try>> /\ new.owner = c.user
                              /\ Held(lockDoc') = Held(lockDoc) \cup {new}
      BY <1>1, <2>1, CreatedDoc, Zenon
    <3> QED
      BY <1>3, <2>1, <3>1, Zenon DEF LockKept
  <2>2. CASE d # c
    <3>1. lockCall'[d] = lockCall[d] /\ LockKept(d) /\ \A u \in LockCall : lockCall'[u].id = lockCall[u].id
      BY <1>3, <2>2, Zenon DEF LocksInv, GrantsKept
    <3>2. ASSUME NEW l \in Held(lockDoc), l.id = <<d.name, lockCall[d].try>>, l.owner = d.user PROVE LockKept(d)'
      <4>1. CASE l \in Held(lockDoc')
        BY <3>1, <3>2, <4>1, Zenon DEF LockKept
      <4>2. CASE l \notin Held(lockDoc')
        <5>1. c.op = "unlock" /\ l.id = lockCall[c].id
          BY <1>1, <3>2, <4>2, CreatedDoc, UnlockedDoc, LfsLocksAssumption, Zenon
        <5> QED
          BY <3>1, <3>2, <5>1, Zenon DEF LockKept
      <4> QED
        BY <4>1, <4>2, Zenon
    <3> QED
      BY <3>1, <3>2, Zenon DEF LockKept
  <2> QED
    BY <2>1, <2>2, Zenon
<1>11. NothingShown'
  BY <1>3, <1>4, Zenon DEF LocksInv, NothingShown
<1> QED
  BY <1>5, <1>7, <1>8, <1>9, <1>10, <1>11, Zenon DEF LocksInv

(* LockAt alone, where the call was neither answered 201 nor is to write. *)
LEMMA LockAtKeeps ==
    ASSUME LocksInv, NEW c \in LockCall, NEW at \in LockStage \ {"ok", "idle", "put"}, LockAt(c, at), UNCHANGED lockDoc
    PROVE  LocksInv'
<1>1. /\ lockCall' \in [LockCall -> CallState]
      /\ lockCall'[c].at = at /\ lockCall'[c].id = lockCall[c].id /\ lockCall'[c].try = lockCall[c].try
      /\ \A d \in LockCall \ {c} : lockCall'[d] = lockCall[d]
  BY LockAtMoves, Zenon DEF LocksInv
<1>2. lockCall[c].try <= lockCall'[c].try
  BY <1>1 DEF LocksInv, LocksType
<1>3. lockCall'[c].at \notin {"ok", "idle"} /\ lockCall'[c].at # "put"
  BY <1>1
<1> QED
  BY <1>1, <1>2, <1>3, QuietLockStep, Zenon

(* One step per part of a call. *)
LEMMA LocksInvStep == LocksInv /\ [LfsLocksNext]_llVars => LocksInv'
<1> SUFFICES ASSUME LocksInv, [LfsLocksNext]_llVars PROVE LocksInv'
  OBVIOUS
<1>1. CASE UNCHANGED llVars
  <2>1. lockDoc' = lockDoc /\ lockCall' = lockCall
    BY <1>1, Zenon DEF llVars
  <2> QED
    BY <2>1 DEF LocksInv, LocksType, OneLock, IdsUsed, Decided, GrantsKept, LockKept, NothingShown, Verdict, Held
<1>2. ASSUME NEW c \in LockCall, BeginLock(c) PROVE LocksInv'
  <2>1. lockCall[c].at = "idle" /\ UNCHANGED lockDoc
    BY <1>2, Zenon DEF BeginLock
  <2>2. CASE \E at \in {"refused", "room"} : LockAt(c, at)
    <3>1. PICK at \in {"refused", "room"} : LockAt(c, at)
      BY <2>2
    <3>2. at \in LockStage \ {"ok", "idle", "put"}
      BY <3>1 DEF LockStage
    <3> QED
      BY <2>1, <3>1, <3>2, LockAtKeeps, Zenon
  <2>3. ASSUME NEW l \in Held(lockDoc), lockCall' = [lockCall EXCEPT ![c].at = "read", ![c].id = l.id]
        PROVE  LocksInv'
    <3> DEFINE r == [lockCall[c] EXCEPT !.at = "read", !.id = l.id]
    <3>1. lockCall[c] \in CallState /\ l.id \in LockId
      BY HeldIds, Zenon DEF LocksInv, LocksType, CallState
    <3>2. r \in CallState /\ r.at = "read" /\ r.try = lockCall[c].try
      BY <3>1, Zenon DEF CallState, LockStage
    <3>3. lockCall' = [lockCall EXCEPT ![c] = r]
      BY <2>3, Zenon
    <3> HIDE DEF r
    <3>4. /\ lockCall' \in [LockCall -> CallState] /\ lockCall'[c] = r
          /\ \A d \in LockCall \ {c} : lockCall'[d] = lockCall[d]
      BY <3>2, <3>3, Zenon DEF LocksInv, LocksType, CallState
    <3>5. lockCall[c].try <= lockCall'[c].try /\ lockCall'[c].at \notin {"ok", "idle"} /\ lockCall'[c].at # "put"
      BY <3>2, <3>4 DEF LocksInv, LocksType
    <3> QED
      BY <2>1, <3>4, <3>5, QuietLockStep, Zenon
  <2> QED
    BY <1>2, <2>2, <2>3, Zenon DEF BeginLock
<1>3. ASSUME NEW c \in LockCall, LockRoomLeft(c) PROVE LocksInv'
  <2>1. PICK at \in {"read", "too_many"} : LockAt(c, at)
    BY <1>3, Zenon DEF LockRoomLeft
  <2>2. at \in LockStage \ {"ok", "idle", "put"} /\ UNCHANGED lockDoc
    BY <1>3, <2>1 DEF LockStage, LockRoomLeft
  <2> QED
    BY <2>1, <2>2, LockAtKeeps, Zenon
<1>4. ASSUME NEW c \in LockCall, ReadLocks(c) PROVE LocksInv'
  <2>1. CASE Verdict(lockDoc, c) = "put"
    <3> DEFINE r == [lockCall[c] EXCEPT !.at = "put", !.try = @ + 1, !.seen = lockDoc]
    <3>1. lockCall[c] \in CallState /\ lockDoc \in Document /\ lockCall[c].try \in Nat /\ UNCHANGED lockDoc
      BY <1>4, Zenon DEF LocksInv, LocksType, CallState, ReadLocks
    <3>2. lockCall[c].try + 1 \in Nat /\ lockCall[c].try < lockCall[c].try + 1 /\ lockCall[c].try <= lockCall[c].try + 1
      BY <3>1
    <3>3. /\ r \in CallState /\ r.at = "put" /\ r.try = lockCall[c].try + 1 /\ r.id = lockCall[c].id
          /\ r.seen = lockDoc
      BY <3>1, <3>2, Zenon DEF CallState, LockStage
    <3>4. lockCall' = [lockCall EXCEPT ![c] = r]
      BY <1>4, <2>1, Zenon DEF ReadLocks
    <3> HIDE DEF r
    <3>5. /\ lockCall' \in [LockCall -> CallState] /\ lockCall'[c] = r
          /\ \A d \in LockCall \ {c} : lockCall'[d] = lockCall[d]
      BY <3>3, <3>4, Zenon DEF LocksInv, LocksType, CallState
    <3>6. Verdict(lockCall[c].seen, c)' = "put"
      BY <2>1, <3>1, <3>3, <3>5, Zenon DEF Verdict
    <3>7. lockCall'[c].at \notin {"ok", "idle"}
      BY <3>3, <3>5
    <3> QED
      BY <3>1, <3>2, <3>3, <3>5, <3>6, <3>7, QuietLockStep, Zenon
  <2>2. CASE Verdict(lockDoc, c) # "put"
    <3>1. Verdict(lockDoc, c) \in {"conflict", "not_found", "forbidden"}
      BY <2>2, Zenon DEF Verdict, CreateVerdict, DeleteVerdict
    <3>2. Verdict(lockDoc, c) \in LockStage \ {"ok", "idle", "put"}
      BY <3>1 DEF LockStage
    <3>3. LockAt(c, Verdict(lockDoc, c)) /\ UNCHANGED lockDoc
      BY <1>4, <2>2, Zenon DEF ReadLocks
    <3> QED
      BY <3>2, <3>3, LockAtKeeps, Zenon
  <2> QED
    BY <2>1, <2>2, Zenon
<1>5. ASSUME NEW c \in LockCall, PutLocks(c) PROVE LocksInv'
  BY <1>5, WriteKeepsLocks, Zenon
<1>6. ASSUME NEW c \in LockCall, PutRefused(c) PROVE LocksInv'
  <2>1. PICK at \in {"read", "contended"} : LockAt(c, at)
    BY <1>6, Zenon DEF PutRefused, LoseRound
  <2>2. at \in LockStage \ {"ok", "idle", "put"} /\ UNCHANGED lockDoc
    BY <1>6, <2>1 DEF LockStage, PutRefused
  <2> QED
    BY <2>1, <2>2, LockAtKeeps, Zenon
<1>7. ASSUME NEW c \in LockCall, LockError(c) PROVE LocksInv'
  <2>1. "error" \in LockStage \ {"ok", "idle", "put"}
    BY DEF LockStage
  <2> QED
    BY <1>7, <2>1, LockAtKeeps, Zenon DEF LockError
<1> QED
  BY <1>1, <1>2, <1>3, <1>4, <1>5, <1>6, <1>7, Zenon DEF LfsLocksNext, LockStep

LEMMA LocksInvInit == LfsLocksInit => LocksInv
<1> SUFFICES ASSUME LfsLocksInit PROVE LocksInv
  OBVIOUS
<1>1. <<>> \in Seq(Lock) /\ DOMAIN <<>> = {}
  OBVIOUS
<1>2. NoDoc \in Document /\ NoDoc.locks = <<>>
  BY <1>1, Zenon DEF NoDoc, Document
<1>3. LocksType
  <2>1. [at |-> "idle", id |-> <<>>, try |-> 0, seen |-> NoDoc] \in CallState
    BY <1>2 DEF CallState, LockStage
  <2> QED
    BY <1>2, <2>1, Zenon DEF LfsLocksInit, LocksType, CallState
<1>4. lockDoc.locks = <<>> /\ Held(lockDoc) = {}
  BY <1>1, <1>2, Zenon DEF LfsLocksInit, Held, Range
<1>5. OneLock(lockDoc.locks) /\ IdsUsed
  BY <1>1, <1>4, Zenon DEF OneLock, IdsUsed
<1>6. \A c \in LockCall : lockCall[c].at = "idle" /\ lockCall[c].id = <<>>
  BY Zenon DEF LfsLocksInit
<1>7. Decided /\ GrantsKept /\ NothingShown
  BY <1>6 DEF Decided, GrantsKept, NothingShown
<1> QED
  BY <1>3, <1>5, <1>7, Zenon DEF LocksInv

(* LocksExclusive for any number of concurrent calls, users and retries: the
   conditional writes of mutateLocks keep one lock per path and per id, and the
   lock of a create answered 201 (CreateLock) stays until an unlock takes it. *)
THEOREM LocksAreExclusive == LfsLocksSpec => []LocksExclusive
<1>1. LocksInv => LocksExclusive
  BY Zenon DEF LocksInv, LocksExclusive, OneLock, GrantsKept, LockKept
<1> QED
  BY <1>1, LocksInvInit, LocksInvStep, PTL DEF LfsLocksSpec

(* LocksReleasedByHolder: no step takes a lock out of the document but the write
   of an unlock that names it, by its owner or with force (DeleteLock). *)
THEOREM OnlyHoldersRelease == LfsLocksSpec => LocksReleasedByHolder
<1> DEFINE Released ==
       \A l \in Held(lockDoc) :
         \/ \E k \in Held(lockDoc') : k = l
         \/ \E c \in LockCall :
              /\ c.op = "unlock" /\ lockCall[c].at = "put" /\ lockCall[c].id = l.id
              /\ c.force \/ Fold[c.user] = Fold[l.owner]
<1>1. ASSUME LocksInv, LfsLocksNext PROVE Released
  <2>1. CASE UNCHANGED lockDoc
    BY <2>1, Zenon
  <2>2. ASSUME NEW c \in LockCall, PutLocks(c) PROVE Released
    <3>1. lockCall[c].at = "put" /\ Verdict(lockDoc, c) = "put" /\ lockDoc' = NextDoc(lockDoc, c)
      BY <1>1, <2>2 DEF PutLocks, Matches, LocksInv, Decided
    <3>2. CASE c.op = "create"
      BY <1>1, <3>1, <3>2, CreatedDoc, Zenon
    <3>3. CASE c.op = "unlock"
      BY <1>1, <3>1, <3>3, UnlockedDoc, Zenon
    <3> QED
      BY <3>2, <3>3, LfsLocksAssumption, Zenon
  <2> QED
    BY <1>1, <2>1, <2>2, Zenon
       DEF LfsLocksNext, LockStep, BeginLock, LockRoomLeft, ReadLocks, PutRefused, LockError
<1>2. LocksInv /\ [LfsLocksNext]_llVars => [Released]_llVars
  BY <1>1, Zenon
<1>3. LfsLocksSpec => [][Released]_llVars
  BY <1>2, LocksInvInit, LocksInvStep, PTL DEF LfsLocksSpec
<1> QED
  BY <1>3, Zenon DEF LocksReleasedByHolder

-----------------------------------------------------------------------------
(* Reading the list of locks page by page. *)

PageStep(doc, path, limit, g, cursor) ==
    LET got == ListLocks(doc, path, cursor, limit)
    IN  IF got.next = 0 THEN got.page ELSE got.page \o g[got.next]
PageTable(doc, path, limit) ==
    CHOOSE g : g = [cursor \in 0 .. Len(Filtered(doc, path)) |-> PageStep(doc, path, limit, g, cursor)]

(* The pages are read from the first cursor on. *)
LEMMA PagesAreTable ==
    ASSUME NEW doc, NEW path, NEW limit
    PROVE  Pages(doc, path, limit) = PageTable(doc, path, limit)[0]
BY Zenon DEF Pages, PageTable, PageStep

Rest(all, cursor) == SubSeq(all, cursor + 1, Len(all))
LastPage(e, all, cursor) == e = Rest(all, cursor)
OnePage(e, all, limit, g, cursor) ==
    /\ limit > 0 /\ cursor + limit \in 0 .. Len(all)
    /\ e = SubSeq(all, cursor + 1, cursor + limit) \o g[cursor + limit]

(* A page and the cursor it names leave nothing between them. *)
LEMMA PageAtCursor ==
    ASSUME NEW A, NEW doc, NEW path, Filtered(doc, path) \in Seq(A), NEW limit \in Nat,
           NEW cursor \in 0 .. Len(Filtered(doc, path)), NEW g
    PROVE  \/ LastPage(PageStep(doc, path, limit, g, cursor), Filtered(doc, path), cursor)
           \/ OnePage(PageStep(doc, path, limit, g, cursor), Filtered(doc, path), limit, g, cursor)
<1> DEFINE all == Filtered(doc, path)
           out == SubSeq(all, cursor + 1, Len(all))
           got == ListLocks(doc, path, cursor, limit)
<1>1. all \in Seq(A) /\ Len(all) \in Nat /\ cursor \in 0 .. Len(all)
  OBVIOUS
<1>2. got = IF limit > 0 /\ Len(out) > limit
            THEN [page |-> SubSeq(out, 1, limit), next |-> cursor + limit]
            ELSE [page |-> out, next |-> 0]
  BY Zenon DEF ListLocks
<1>3. PageStep(doc, path, limit, g, cursor) = IF got.next = 0 THEN got.page ELSE got.page \o g[got.next]
  BY Zenon DEF PageStep
<1> HIDE DEF all, got
<1>4. out \in Seq(A) /\ Len(out) = Len(all) - cursor /\ \A i \in 1 .. Len(out) : out[i] = all[cursor + i]
  BY <1>1
<1>5. CASE ~(limit > 0 /\ Len(out) > limit)
  <2>1. got.next = 0 /\ got.page = out
    BY <1>2, <1>5, Zenon
  <2> QED
    BY <1>3, <2>1, Zenon DEF all, LastPage, Rest
<1>6. CASE limit > 0 /\ Len(out) > limit
  <2>1. got.next = cursor + limit /\ got.page = SubSeq(out, 1, limit)
    BY <1>2, <1>6, Zenon
  <2>2. cursor + limit \in 0 .. Len(all) /\ cursor + limit # 0
    BY <1>1, <1>4, <1>6
  <2>3. SubSeq(out, 1, limit) = SubSeq(all, cursor + 1, cursor + limit)
    <3> HIDE DEF out
    <3> DEFINE a == SubSeq(out, 1, limit)
               b == SubSeq(all, cursor + 1, cursor + limit)
    <3>1. a \in Seq(A) /\ Len(a) = limit /\ \A i \in 1 .. limit : a[i] = out[i]
      BY <1>1, <1>4, <1>6
    <3>2. b \in Seq(A) /\ Len(b) = limit /\ \A i \in 1 .. limit : b[i] = all[cursor + i]
      BY <1>1, <1>4, <2>2
    <3>3. \A i \in 1 .. limit : a[i] = b[i]
      BY <1>4, <1>6, <3>1, <3>2
    <3> HIDE DEF a, b
    <3>4. a = b
      BY <3>1, <3>2, <3>3
    <3> QED
      BY <3>4 DEF a, b
  <2>4. PageStep(doc, path, limit, g, cursor) = SubSeq(all, cursor + 1, cursor + limit) \o g[cursor + limit]
    BY <1>3, <2>1, <2>2, <2>3, Zenon
  <2> QED
    BY <1>6, <2>2, <2>4, Zenon DEF all, OnePage
<1> QED
  BY <1>5, <1>6, Zenon

(* Two adjoining pieces. *)
LEMMA PiecesJoin ==
    ASSUME NEW A, NEW s \in Seq(A), NEW m \in 0 .. Len(s), NEW k \in m .. Len(s)
    PROVE  SubSeq(s, m + 1, k) \o SubSeq(s, k + 1, Len(s)) = SubSeq(s, m + 1, Len(s))
<1> DEFINE a == SubSeq(s, m + 1, k)
           b == SubSeq(s, k + 1, Len(s))
           c == SubSeq(s, m + 1, Len(s))
<1>1. /\ Len(s) \in Nat /\ m \in Nat /\ k \in Nat
      /\ a \in Seq(A) /\ Len(a) = k - m /\ \A i \in 1 .. (k - m) : a[i] = s[m + i]
      /\ b \in Seq(A) /\ Len(b) = Len(s) - k /\ \A i \in 1 .. (Len(s) - k) : b[i] = s[k + i]
      /\ c \in Seq(A) /\ Len(c) = Len(s) - m /\ \A i \in 1 .. (Len(s) - m) : c[i] = s[m + i]
  OBVIOUS
<1> HIDE DEF a, b, c
<1>2. /\ a \o b \in Seq(A) /\ Len(a \o b) = Len(a) + Len(b)
      /\ \A i \in 1 .. (Len(a) + Len(b)) : (a \o b)[i] = IF i <= Len(a) THEN a[i] ELSE b[i - Len(a)]
  BY <1>1, ConcatElements, Zenon
<1> DEFINE ab == a \o b
<1> HIDE DEF ab
<1>3. /\ ab \in Seq(A) /\ Len(ab) = Len(a) + Len(b)
      /\ \A i \in 1 .. (Len(a) + Len(b)) : ab[i] = IF i <= Len(a) THEN a[i] ELSE b[i - Len(a)]
  BY <1>2, Zenon DEF ab
<1>4. Len(ab) = Len(c)
  BY <1>1, <1>3
<1>5. ASSUME NEW i \in 1 .. Len(ab) PROVE ab[i] = c[i]
  <2>1. i \in 1 .. (Len(s) - m) /\ i \in 1 .. (Len(a) + Len(b))
    BY <1>1, <1>3
  <2>2. CASE i <= Len(a)
    BY <1>1, <1>3, <2>1, <2>2
  <2>3. CASE ~(i <= Len(a))
    <3>1. ab[i] = b[i - Len(a)] /\ i - Len(a) \in 1 .. (Len(s) - k)
      BY <1>1, <1>3, <2>1, <2>3
    <3>2. b[i - Len(a)] = s[k + (i - Len(a))] /\ k + (i - Len(a)) = m + i
      BY <1>1, <2>1, <3>1
    <3> QED
      BY <1>1, <2>1, <3>1, <3>2
  <2> QED
    BY <2>2, <2>3, Zenon
<1>6. ab = c
  BY <1>1, <1>3, <1>4, <1>5, SameSeq, Zenon
<1> QED
  BY <1>6 DEF a, b, c, ab

(* A client that follows the cursors reads the filtered list, whatever the
   limit. *)
LEMMA PagesReadAll ==
    ASSUME NEW A, NEW doc, NEW path, Filtered(doc, path) \in Seq(A), NEW limit \in Nat
    PROVE  Pages(doc, path, limit) = Filtered(doc, path)
<1> DEFINE all == Filtered(doc, path)
           n == Len(all)
           h == [c \in 0 .. n |-> Rest(all, c)]
           g == PageTable(doc, path, limit)
<1>1. all \in Seq(A) /\ n \in Nat
  OBVIOUS
<1>2. \A f : \A c \in 0 .. n :
         \/ LastPage(PageStep(doc, path, limit, f, c), all, c)
         \/ OnePage(PageStep(doc, path, limit, f, c), all, limit, f, c)
  BY PageAtCursor, Zenon
<1>3. \A c \in 0 .. n : limit > 0 /\ c + limit \in 0 .. n => SubSeq(all, c + 1, c + limit) \o Rest(all, c + limit) = Rest(all, c)
  <2> SUFFICES ASSUME NEW c \in 0 .. n, limit > 0, c + limit \in 0 .. n
               PROVE  SubSeq(all, c + 1, c + limit) \o Rest(all, c + limit) = Rest(all, c)
    BY Zenon
  <2>1. c + limit \in c .. Len(all)
    BY <1>1
  <2> QED
    BY <1>1, <2>1, PiecesJoin DEF Rest
<1> HIDE DEF all, n
<1>4. h = [c \in 0 .. n |-> PageStep(doc, path, limit, h, c)]
  <2>1. ASSUME NEW c \in 0 .. n PROVE PageStep(doc, path, limit, h, c) = Rest(all, c)
    <3>1. CASE OnePage(PageStep(doc, path, limit, h, c), all, limit, h, c)
      BY <1>3, <3>1, Zenon DEF OnePage, n
    <3>2. CASE LastPage(PageStep(doc, path, limit, h, c), all, c)
      BY <3>2, Zenon DEF LastPage
    <3> QED
      BY <1>2, <3>1, <3>2, Zenon
  <2> QED
    BY <2>1, Zenon
<1>5. g = [c \in 0 .. n |-> PageStep(doc, path, limit, g, c)]
  <2> HIDE DEF h
  <2> QED
    BY <1>4, Zenon DEF PageTable, n, all
<1> HIDE DEF g, h
<1>6. \A c \in 0 .. n : g[c] = PageStep(doc, path, limit, g, c)
  BY <1>5, Zenon
<1> DEFINE T == {k \in 0 .. n : g[n - k] # Rest(all, n - k)}
<1>7. T = {}
  <2> SUFFICES ASSUME T # {} PROVE FALSE
    OBVIOUS
  <2>1. T \subseteq Nat
    BY <1>1
  <2>2. PICK k \in T : \A j \in T : k <= j
    <3> HIDE DEF T
    <3> QED
      BY <2>1, Least, Zenon
  <2> DEFINE c == n - k
  <2>3. c \in 0 .. n /\ g[c] # Rest(all, c) /\ k = n - c /\ k \in 0 .. n
    <3>1. k \in 0 .. n /\ g[n - k] # Rest(all, n - k)
      BY <2>2, Zenon
    <3> HIDE DEF T
    <3> QED
      BY <1>1, <3>1
  <2> HIDE DEF c
  <2>4. OnePage(g[c], all, limit, g, c)
    <3>1. LastPage(g[c], all, c) \/ OnePage(g[c], all, limit, g, c)
      BY <1>2, <1>6, <2>3, Zenon
    <3> QED
      BY <2>3, <3>1, Zenon DEF LastPage
  <2>5. limit > 0 /\ c + limit \in 0 .. n
    BY <2>4, Zenon DEF OnePage, n
  <2>6. k - limit \in 0 .. n /\ n - (k - limit) = c + limit /\ ~(k <= k - limit)
    BY <1>1, <2>3, <2>5
  <2>7. k - limit \notin T
    <3> HIDE DEF T
    <3> QED
      BY <2>2, <2>6, Zenon
  <2>8. g[c + limit] = Rest(all, c + limit)
    BY <2>6, <2>7, Zenon
  <2>9. g[c] = SubSeq(all, c + 1, c + limit) \o g[c + limit]
    BY <2>4, Zenon DEF OnePage, n
  <2> QED
    BY <1>3, <2>3, <2>5, <2>8, <2>9, Zenon
<1>8. g[0] = Rest(all, 0)
  <2>1. n \in 0 .. n /\ n - n = 0
    BY <1>1
  <2> QED
    BY <1>7, <2>1
<1>9. Rest(all, 0) = all
  BY <1>1 DEF n, Rest
<1> QED
  BY <1>8, <1>9, PagesAreTable, Zenon DEF g, all

(* What SplitLocks returns of a list. *)
LEMMA SplitShares ==
    ASSUME NEW A, NEW locks \in Seq(A), NEW user
    PROVE  LET split == SplitLocks(locks, user) IN
           /\ Range(split.ours) = {l \in Range(locks) : Fold[l.owner] = Fold[user]}
           /\ Range(split.theirs) = {l \in Range(locks) : Fold[l.owner] # Fold[user]}
           /\ Len(split.ours) + Len(split.theirs) = Len(locks)
<1> DEFINE own == {l \in Range(locks) : Fold[l.owner] = Fold[user]}
           rest == Range(locks) \ own
           split == SplitLocks(locks, user)
<1>1. split = [ours |-> Kept(locks, own), theirs |-> Kept(locks, rest)]
  BY Zenon DEF SplitLocks
<1>2. split.ours = Kept(locks, own) /\ split.theirs = Kept(locks, rest)
  <2> HIDE DEF own, rest, split
  <2> QED
    BY <1>1, Zenon
<1>3. /\ own \subseteq Range(locks) /\ rest \subseteq Range(locks)
      /\ rest = {l \in Range(locks) : Fold[l.owner] # Fold[user]}
      /\ \A x \in Range(locks) : x \in own <=> x \notin rest
  BY Zenon
<1>4. locks \in Seq(Range(locks))
  BY DEF Range
<1> HIDE DEF own, rest, split
<1>5. Range(Kept(locks, own)) = Range(locks) \cap own /\ Range(Kept(locks, rest)) = Range(locks) \cap rest
  BY KeptElements, Zenon
<1>6. Len(Kept(locks, own)) + Len(Kept(locks, rest)) = Len(locks)
  BY <1>3, <1>4, KeptLengths
<1>7. Range(split.ours) = own /\ Range(split.theirs) = rest
  BY <1>2, <1>3, <1>5, Zenon
<1> QED
  BY <1>2, <1>3, <1>6, <1>7, Zenon DEF own, split

(* locks/verify for every document, user and page size: the pages hold every
   lock of the document once, in order, SplitLocks loses none, and what it calls
   the caller's DeleteLock lets the caller release (ListLocks, SplitLocks,
   DeleteLock). *)
THEOREM VerifyIsComplete == LfsLocksSpec => []VerifyReportsAll
<1>1. LocksInv => VerifyReportsAll
  <2> SUFFICES ASSUME LocksInv, NEW user \in DOMAIN Fold, NEW limit \in 0 .. MaxLocksPerRepo + 1
               PROVE  LET split == SplitLocks(Pages(lockDoc, AnyPath, limit), user)
                      IN  /\ Range(split.ours) \union Range(split.theirs) = Held(lockDoc)
                          /\ Len(split.ours) + Len(split.theirs) = Len(lockDoc.locks)
                          /\ \A l \in Range(split.ours) :
                               DeleteVerdict(lockDoc, [user |-> user, force |-> FALSE], l.id) = "put"
    BY Zenon DEF VerifyReportsAll
  <2> DEFINE s == lockDoc.locks
             split == SplitLocks(s, user)
             caller == [user |-> user, force |-> FALSE]
  <2>1. s \in Seq(Lock) /\ OneLock(s)
    BY Zenon DEF LocksInv, LocksType, Document
  <2>2. limit \in Nat
    BY LfsLocksAssumption
  <2>3. Filtered(lockDoc, AnyPath) = s
    <3>1. Filtered(lockDoc, AnyPath) = Kept(s, Range(s))
      <4>1. {l \in Held(lockDoc) : AnyPath = AnyPath \/ l.path = AnyPath} = Range(s)
        BY Zenon DEF Held
      <4> QED
        BY <4>1, Zenon DEF Filtered
    <3>2. s \in Seq(Range(s))
      BY <2>1 DEF Range
    <3> QED
      BY <3>1, <3>2, KeptAll, Zenon
  <2>4. Pages(lockDoc, AnyPath, limit) = s
    BY <2>1, <2>2, <2>3, PagesReadAll, Zenon
  <2>5. /\ Range(split.ours) = {l \in Range(s) : Fold[l.owner] = Fold[user]}
        /\ Range(split.theirs) = {l \in Range(s) : Fold[l.owner] # Fold[user]}
        /\ Len(split.ours) + Len(split.theirs) = Len(s)
    BY <2>1, SplitShares, Zenon
  <2> HIDE DEF split
  <2>6. Range(split.ours) \union Range(split.theirs) = Held(lockDoc)
    BY <2>5, Zenon DEF Held
  <2>7. ASSUME NEW l \in Range(split.ours) PROVE DeleteVerdict(lockDoc, caller, l.id) = "put"
    <3>1. l \in Held(lockDoc) /\ Fold[l.owner] = Fold[user] /\ caller.user = user
      BY <2>5, <2>7, Zenon DEF Held
    <3>2. \A k \in Held(lockDoc) : k.id = l.id => k = l
      BY <2>1, <3>1, Zenon DEF Held, Range, OneLock
    <3>3. ~ \A k \in Held(lockDoc) : k.id # l.id
      BY <3>1, Zenon
    <3>4. ~ \E k \in Held(lockDoc) : k.id = l.id /\ Fold[k.owner] # Fold[caller.user]
      BY <3>1, <3>2, Zenon
    <3> HIDE DEF caller
    <3> QED
      BY <3>3, <3>4, Zenon DEF DeleteVerdict
  <2> QED
    BY <2>4, <2>5, <2>6, <2>7, Zenon DEF split
<1> QED
  BY <1>1, LocksInvInit, LocksInvStep, PTL DEF LfsLocksSpec

-----------------------------------------------------------------------------
(* The state of LfsObjects. *)
ClientState == [at : {"batch", "put", "post", "wait", "done", "refused"}, by : Handler \cup {NoHandler}]
VerifyState == [at : {"free", "head", "reject", "rename", "mark", "promoted"}, for : Upload \cup {NoUpload}]
ObjectsType ==
    /\ DOMAIN marker = Keys
    /\ client \in [Upload -> ClientState]
    /\ verify \in [Handler -> VerifyState]
    /\ \A h \in Handler : verify[h].at # "free" => verify[h].for \in Upload

(* Who puts a marker compared the size, and moved the bytes that a client of
   this repository put. *)
VerifiesProved ==
    /\ staged \subseteq proved
    /\ \A h \in Handler :
         LET u == verify[h].for IN
         /\ verify[h].at \in {"rename", "mark"} => TrueSize[u.oid] = u.size
         /\ verify[h].at = "mark" => KeyOf(u) \in proved /\ u.oid \in blobs

MarkersProved ==
    \A k \in Keys : marker[k] # NotHeld => k \in proved /\ k[2] \in blobs /\ marker[k] = TrueSize[k[2]]
AnswersKept == \A u \in Upload : client[u].at = "done" => marker[KeyOf(u)] # NotHeld

(* The inductive invariant of LfsObjects. *)
ObjectsInv == ObjectsType /\ VerifiesProved /\ MarkersProved /\ AnswersKept

(* What an answer changes: the handler is free, and only the client that waits
   for it may be done, and only if the answer was 200. *)
LEMMA AnswerMoves ==
    ASSUME ObjectsType, NEW h \in Handler, verify[h].at # "free",
           NEW status \in {"ok", "mismatch", "missing", "error"}, Answer(h, status)
    PROVE  /\ DOMAIN marker' = Keys => ObjectsType'
           /\ verify'[h].at = "free" /\ \A g \in Handler \ {h} : verify'[g] = verify[g]
           /\ \A v \in Upload : client'[v].at = "done" =>
                client[v].at = "done" \/ (status = "ok" /\ v = verify[h].for)
<1> DEFINE u == verify[h].for
           free == [at |-> "free", for |-> NoUpload]
<1>1. u \in Upload /\ free \in VerifyState /\ free.at = "free"
  BY DEF ObjectsType, VerifyState
<1>2. verify' = [verify EXCEPT ![h] = free]
  BY Zenon DEF Answer
<1> HIDE DEF free
<1>3. verify' \in [Handler -> VerifyState] /\ verify'[h].at = "free" /\ \A g \in Handler \ {h} : verify'[g] = verify[g]
  BY <1>1, <1>2, Zenon DEF ObjectsType
<1>4. CASE UNCHANGED client
  BY <1>1, <1>3, <1>4, Zenon DEF ObjectsType
<1>5. ASSUME NEW at \in {"done", "refused", "batch", "post"}, ClientAt(u, at), at = "done" => status = "ok"
      PROVE  /\ client' \in [Upload -> ClientState]
             /\ \A v \in Upload : client'[v].at = "done" => client[v].at = "done" \/ (status = "ok" /\ v = u)
  <2> DEFINE r == [at |-> at, by |-> NoHandler]
  <2>1. r \in ClientState /\ r.at = at
    BY <1>5 DEF ClientState
  <2>2. client' = [client EXCEPT ![u] = r]
    BY <1>5, Zenon DEF ClientAt
  <2> HIDE DEF r, u
  <2>3. client' \in [Upload -> ClientState] /\ \A v \in Upload : v # u => client'[v] = client[v]
    BY <1>1, <2>1, <2>2, Zenon DEF ObjectsType
  <2>4. client'[u] = r
    BY <1>1, <2>2, Zenon DEF ObjectsType
  <2> QED
    BY <1>5, <2>1, <2>3, <2>4, Zenon
<1>6. UNCHANGED client \/ \E at \in {"done", "refused", "batch", "post"} : ClientAt(u, at) /\ (at = "done" => status = "ok")
  BY DEF Answer
<1>7. /\ client' \in [Upload -> ClientState]
      /\ \A v \in Upload : client'[v].at = "done" => client[v].at = "done" \/ (status = "ok" /\ v = u)
  BY <1>4, <1>5, <1>6, Zenon DEF ObjectsType
<1>8. \A g \in Handler : verify'[g].at # "free" => verify'[g].for \in Upload
  BY <1>3, Zenon DEF ObjectsType
<1> QED
  BY <1>3, <1>7, <1>8, Zenon DEF ObjectsType

(* Where a handler is, moved on with nothing answered. *)
LEMMA VerifyMoves ==
    ASSUME ObjectsType, NEW h \in Handler, verify[h].at # "free", UNCHANGED marker,
           NEW at \in {"head", "reject", "rename", "mark", "promoted"}, VerifyAt(h, at)
    PROVE  /\ ObjectsType' /\ client' = client
           /\ verify'[h].at = at /\ verify'[h].for = verify[h].for
           /\ \A g \in Handler \ {h} : verify'[g] = verify[g]
<1> DEFINE r == [verify[h] EXCEPT !.at = at]
<1>1. verify[h] \in VerifyState
  BY Zenon DEF ObjectsType
<1>2. r \in VerifyState /\ r.at = at /\ r.for = verify[h].for
  BY <1>1 DEF VerifyState
<1>3. verify' = [verify EXCEPT ![h] = r] /\ client' = client
  BY Zenon DEF VerifyAt
<1> HIDE DEF r
<1>4. verify' \in [Handler -> VerifyState] /\ verify'[h] = r /\ \A g \in Handler \ {h} : verify'[g] = verify[g]
  BY <1>2, <1>3, Zenon DEF ObjectsType
<1>5. \A g \in Handler : verify'[g].at # "free" => verify'[g].for \in Upload
  BY <1>2, <1>4, Zenon DEF ObjectsType
<1> QED
  BY <1>2, <1>3, <1>4, <1>5, Zenon DEF ObjectsType

(* A client's move, by its new stage. *)
LEMMA ClientMoves ==
    ASSUME ObjectsType, NEW u \in Upload, UNCHANGED marker,
           NEW at \in {"batch", "put", "post", "done", "refused"}, ClientAt(u, at), UNCHANGED verify
    PROVE  /\ ObjectsType' /\ client'[u].at = at
           /\ \A v \in Upload \ {u} : client'[v] = client[v]
<1> DEFINE r == [at |-> at, by |-> NoHandler]
<1>1. r \in ClientState /\ r.at = at
  BY DEF ClientState
<1>2. client' = [client EXCEPT ![u] = r]
  BY Zenon DEF ClientAt
<1> HIDE DEF r
<1> QED
  BY <1>1, <1>2, Zenon DEF ObjectsType

(* The blobs and what is proved only grow, and nothing unproved is staged. *)
LEMMA VerifiesKept ==
    ASSUME VerifiesProved, proved \subseteq proved', blobs \subseteq blobs', staged' \subseteq proved',
           NEW S \in SUBSET Handler, \A g \in Handler \ S : verify'[g] = verify[g] \/ verify'[g].at = "free",
           \A g \in S : LET u == verify'[g].for IN
             /\ verify'[g].at \in {"rename", "mark"} => TrueSize[u.oid] = u.size
             /\ verify'[g].at = "mark" => KeyOf(u) \in proved' /\ u.oid \in blobs'
    PROVE  VerifiesProved'
<1> SUFFICES ASSUME NEW g \in Handler
             PROVE  LET u == verify'[g].for IN
                    /\ verify'[g].at \in {"rename", "mark"} => TrueSize[u.oid] = u.size
                    /\ verify'[g].at = "mark" => KeyOf(u) \in proved' /\ u.oid \in blobs'
  BY Zenon DEF VerifiesProved, KeyOf
<1>1. CASE g \in S
  BY <1>1, Zenon
<1>2. CASE g \notin S /\ verify'[g] = verify[g]
  BY <1>2, Zenon DEF VerifiesProved, KeyOf
<1>3. CASE verify'[g].at = "free"
  BY <1>3
<1> QED
  BY <1>1, <1>2, <1>3, Zenon

(* Markers kept and blobs not lost: the markers stay true. *)
LEMMA MarkersKept ==
    ASSUME MarkersProved, UNCHANGED marker, proved \subseteq proved', blobs \subseteq blobs'
    PROVE  MarkersProved'
BY Zenon DEF MarkersProved

(* A request that answers without a marker put: the client is told 200 only if
   the marker is there. *)
LEMMA AnswerKeeps ==
    ASSUME ObjectsInv, NEW h \in Handler, verify[h].at # "free", UNCHANGED <<marker, proved>>,
           NEW status \in {"ok", "mismatch", "missing", "error"}, Answer(h, status),
           status = "ok" => marker[KeyOf(verify[h].for)] # NotHeld,
           blobs \subseteq blobs', staged' \subseteq staged
    PROVE  ObjectsInv'
<1>1. /\ ObjectsType' /\ verify'[h].at = "free" /\ \A g \in Handler \ {h} : verify'[g] = verify[g]
      /\ \A v \in Upload : client'[v].at = "done" => client[v].at = "done" \/ (status = "ok" /\ v = verify[h].for)
  <2>1. ObjectsType /\ DOMAIN marker' = Keys
    BY Zenon DEF ObjectsInv, ObjectsType
  <2> QED
    BY <2>1, AnswerMoves, Zenon
<1>2. VerifiesProved'
  <2>1. VerifiesProved /\ proved \subseteq proved' /\ staged' \subseteq proved'
    BY Zenon DEF ObjectsInv, VerifiesProved
  <2>2. {} \in SUBSET Handler /\ \A g \in Handler \ {} : verify'[g] = verify[g] \/ verify'[g].at = "free"
    BY <1>1, Zenon
  <2> QED
    BY <2>1, <2>2, VerifiesKept, Zenon
<1>3. MarkersProved'
  BY MarkersKept, Zenon DEF ObjectsInv
<1>4. AnswersKept'
  BY <1>1, Zenon DEF ObjectsInv, AnswersKept, KeyOf
<1> QED
  BY <1>1, <1>2, <1>3, <1>4, Zenon DEF ObjectsInv

(* A handler that goes on without an answer. *)
LEMMA VerifyKeeps ==
    ASSUME ObjectsInv, NEW h \in Handler, verify[h].at # "free", UNCHANGED <<marker, proved>>,
           NEW at \in {"head", "reject", "rename", "mark", "promoted"}, VerifyAt(h, at),
           blobs \subseteq blobs', staged' \subseteq staged,
           at \in {"rename", "mark"} => TrueSize[verify[h].for.oid] = verify[h].for.size,
           at = "mark" => KeyOf(verify[h].for) \in proved /\ verify[h].for.oid \in blobs'
    PROVE  ObjectsInv'
<1>1. /\ ObjectsType' /\ client' = client /\ verify'[h].at = at /\ verify'[h].for = verify[h].for
      /\ \A g \in Handler \ {h} : verify'[g] = verify[g]
  <2>1. ObjectsType /\ UNCHANGED marker
    BY Zenon DEF ObjectsInv
  <2> QED
    BY <2>1, VerifyMoves, Zenon
<1>2. VerifiesProved'
  <2>1. VerifiesProved /\ proved \subseteq proved' /\ staged' \subseteq proved'
    BY Zenon DEF ObjectsInv, VerifiesProved
  <2>2. {h} \in SUBSET Handler /\ \A g \in Handler \ {h} : verify'[g] = verify[g] \/ verify'[g].at = "free"
    BY <1>1, Zenon
  <2>3. \A g \in {h} : LET u == verify'[g].for IN
          /\ verify'[g].at \in {"rename", "mark"} => TrueSize[u.oid] = u.size
          /\ verify'[g].at = "mark" => KeyOf(u) \in proved' /\ u.oid \in blobs'
    BY <1>1, Zenon DEF KeyOf
  <2> QED
    BY <2>1, <2>2, <2>3, VerifiesKept, Zenon
<1>3. MarkersProved'
  BY MarkersKept, Zenon DEF ObjectsInv
<1>4. AnswersKept'
  BY <1>1, Zenon DEF ObjectsInv, AnswersKept, KeyOf
<1> QED
  BY <1>1, <1>2, <1>3, <1>4, Zenon DEF ObjectsInv

LEMMA NotHeldIsNoSize == \A n \in Nat : n # NotHeld
BY DEF NotHeld

(* The marker is written last, by a handler that compared the size and moved the
   bytes: the marker is true, and an answer of 200 is kept. *)
LEMMA PutMarkerKeeps ==
    ASSUME ObjectsInv, NEW h \in Handler, PutMarker(h)
    PROVE  ObjectsInv'
<1> DEFINE u == verify[h].for
<1>1. /\ ObjectsType /\ VerifiesProved /\ MarkersProved /\ AnswersKept
      /\ verify[h].at = "mark" /\ verify[h].at # "free" /\ u \in Upload
      /\ UNCHANGED <<staged, blobs, proved>>
  BY DEF ObjectsInv, PutMarker, ObjectsType
<1>2. KeyOf(u) \in Keys /\ KeyOf(u) \in proved /\ u.oid \in blobs /\ TrueSize[u.oid] = u.size /\ u.size \in Nat
  BY <1>1, LfsObjectsAssumption, Zenon DEF VerifiesProved, Keys, KeyOf
<1>3. KeyOf(u)[2] = u.oid /\ u.size # NotHeld
  BY <1>2, NotHeldIsNoSize DEF KeyOf
<1>4. marker' = [marker EXCEPT ![KeyOf(u)] = u.size] /\ \E status \in {"ok", "error"} : Answer(h, status)
  BY Zenon DEF PutMarker
<1>5. /\ DOMAIN marker' = Keys /\ marker'[KeyOf(u)] = u.size
      /\ \A k \in Keys : k # KeyOf(u) => marker'[k] = marker[k]
  BY <1>1, <1>2, <1>4, Zenon DEF ObjectsType
<1>6. PICK status \in {"ok", "mismatch", "missing", "error"} : Answer(h, status)
  BY <1>4, Zenon
<1>7. /\ ObjectsType' /\ verify'[h].at = "free" /\ \A g \in Handler \ {h} : verify'[g] = verify[g]
      /\ \A v \in Upload : client'[v].at = "done" => client[v].at = "done" \/ (status = "ok" /\ v = verify[h].for)
  BY <1>1, <1>5, <1>6, AnswerMoves, Zenon
<1>8. VerifiesProved'
  <2>1. proved \subseteq proved' /\ blobs \subseteq blobs' /\ staged' \subseteq proved'
    BY <1>1, Zenon DEF VerifiesProved
  <2>2. {} \in SUBSET Handler /\ \A g \in Handler \ {} : verify'[g] = verify[g] \/ verify'[g].at = "free"
    BY <1>7, Zenon
  <2> QED
    BY <1>1, <2>1, <2>2, VerifiesKept, Zenon
<1>9. MarkersProved'
  <2> SUFFICES ASSUME NEW k \in Keys, marker'[k] # NotHeld
               PROVE  k \in proved /\ k[2] \in blobs /\ marker'[k] = TrueSize[k[2]]
    BY <1>1, Zenon DEF MarkersProved, Keys
  <2>1. CASE k = KeyOf(u)
    BY <1>2, <1>3, <1>5, <2>1, Zenon
  <2>2. CASE k # KeyOf(u)
    BY <1>1, <1>5, <2>2, Zenon DEF MarkersProved
  <2> QED
    BY <2>1, <2>2, Zenon
<1>10. AnswersKept'
  <2> SUFFICES ASSUME NEW v \in Upload, client'[v].at = "done"
               PROVE  marker'[KeyOf(v)] # NotHeld
    BY Zenon DEF AnswersKept, KeyOf
  <2>1. KeyOf(v) \in Keys
    BY Zenon DEF Keys, KeyOf
  <2>2. KeyOf(v) = KeyOf(u) \/ marker[KeyOf(v)] # NotHeld
    BY <1>1, <1>7, Zenon DEF AnswersKept
  <2> QED
    BY <1>3, <1>5, <2>1, <2>2, Zenon
<1> QED
  BY <1>7, <1>8, <1>9, <1>10, Zenon DEF ObjectsInv

(* The steps of a client keep the invariant: only Batch ends a transfer, when the
   marker is there. *)
LEMMA ClientKeeps ==
    ASSUME ObjectsInv, NEW u \in Upload, ClientStep(u) \/ PutFails(u) \/ Timeout(u)
    PROVE  ObjectsInv'
<1>1. ObjectsType /\ VerifiesProved /\ MarkersProved /\ AnswersKept
  BY Zenon DEF ObjectsInv
<1>2. ASSUME NEW at \in {"batch", "put", "post", "done", "refused"}, ClientAt(u, at), UNCHANGED <<marker, verify, blobs>>,
             at = "done" => marker[KeyOf(u)] # NotHeld, proved \subseteq proved', staged' \subseteq proved'
      PROVE  ObjectsInv'
  <2>1. UNCHANGED marker /\ UNCHANGED verify /\ UNCHANGED blobs
    BY <1>2, Zenon
  <2>2. ObjectsType' /\ client'[u].at = at /\ \A v \in Upload \ {u} : client'[v] = client[v]
    BY <1>1, <1>2, <2>1, ClientMoves, Zenon
  <2>3. VerifiesProved'
    <3>1. {} \in SUBSET Handler /\ \A g \in Handler \ {} : verify'[g] = verify[g] \/ verify'[g].at = "free"
      BY <2>1, Zenon
    <3> QED
      BY <1>1, <1>2, <2>1, <3>1, VerifiesKept, Zenon
  <2>4. MarkersProved' /\ AnswersKept'
    BY <1>1, <1>2, <2>1, <2>2, MarkersKept, Zenon DEF AnswersKept, KeyOf
  <2> QED
    BY <2>2, <2>3, <2>4, Zenon DEF ObjectsInv
<1>3. CASE Batch(u)
  <2>1. UNCHANGED <<marker, verify, blobs>> /\ proved \subseteq proved' /\ staged' \subseteq proved'
    BY <1>1, <1>3, Zenon DEF Batch, VerifiesProved
  <2>2. \E at \in {"put", "done", "refused"} : ClientAt(u, at) /\ (at = "done" => UploadAction(u) = "present")
    BY <1>3 DEF Batch
  <2>3. UploadAction(u) = "present" => marker[KeyOf(u)] # NotHeld
    BY DEF UploadAction
  <2> QED
    BY <1>2, <2>1, <2>2, <2>3, Zenon
<1>4. CASE Put(u)
  <2>1. UNCHANGED <<marker, verify, blobs>> /\ proved \subseteq proved' /\ staged' \subseteq proved' /\ ClientAt(u, "post")
    BY <1>1, <1>4, Zenon DEF Put, VerifiesProved
  <2>2. "post" \in {"batch", "put", "post", "done", "refused"} /\ "post" # "done"
    OBVIOUS
  <2> QED
    BY <1>2, <2>1, <2>2, Zenon
<1>5. CASE PutFails(u) \/ Timeout(u)
  <2>1. UNCHANGED <<marker, verify, blobs>> /\ proved \subseteq proved' /\ staged' \subseteq proved'
    BY <1>1, <1>5, Zenon DEF PutFails, Timeout, VerifiesProved
  <2>2. \E at \in {"batch", "put", "post", "done", "refused"} : ClientAt(u, at) /\ at # "done"
    BY <1>5 DEF PutFails, Timeout
  <2> QED
    BY <1>2, <2>1, <2>2, Zenon
<1>6. CASE PostVerify(u)
  <2>1. UNCHANGED <<staged, marker, proved, blobs>>
    BY <1>6, Zenon DEF PostVerify
  <2>2. PICK h \in Handler :
          /\ verify' = [verify EXCEPT ![h] = [at |-> "head", for |-> u]]
          /\ client' = [client EXCEPT ![u] = [at |-> "wait", by |-> h]]
    BY <1>6, Zenon DEF PostVerify
  <2> DEFINE r == [at |-> "head", for |-> u]
             s == [at |-> "wait", by |-> h]
  <2>3. r \in VerifyState /\ r.at = "head" /\ r.for = u /\ s \in ClientState /\ s.at # "done"
    BY DEF VerifyState, ClientState
  <2>4. verify' = [verify EXCEPT ![h] = r] /\ client' = [client EXCEPT ![u] = s]
    BY <2>2, Zenon
  <2> HIDE DEF r, s
  <2>5. verify' \in [Handler -> VerifyState] /\ verify'[h] = r /\ \A g \in Handler \ {h} : verify'[g] = verify[g]
    BY <1>1, <2>3, <2>4, Zenon DEF ObjectsType
  <2>6. client' \in [Upload -> ClientState] /\ client'[u] = s /\ \A v \in Upload \ {u} : client'[v] = client[v]
    BY <1>1, <2>3, <2>4, Zenon DEF ObjectsType
  <2>7. \A g \in Handler : verify'[g].at # "free" => verify'[g].for \in Upload
    BY <1>1, <2>3, <2>5, Zenon DEF ObjectsType
  <2>8. ObjectsType'
    BY <1>1, <2>1, <2>5, <2>6, <2>7, Zenon DEF ObjectsType
  <2>9. VerifiesProved'
    <3>1. {h} \in SUBSET Handler /\ \A g \in Handler \ {h} : verify'[g] = verify[g] \/ verify'[g].at = "free"
      BY <2>5, Zenon
    <3>2. verify'[h].at \notin {"rename", "mark"} /\ verify'[h].at # "mark"
      BY <2>3, <2>5
    <3>3. proved \subseteq proved' /\ blobs \subseteq blobs' /\ staged' \subseteq proved'
      BY <1>1, <2>1, Zenon DEF VerifiesProved
    <3> QED
      BY <1>1, <3>1, <3>2, <3>3, VerifiesKept, Zenon
  <2>10. MarkersProved' /\ AnswersKept'
    BY <1>1, <2>1, <2>3, <2>6, MarkersKept, Zenon DEF AnswersKept, KeyOf
  <2> QED
    BY <2>8, <2>9, <2>10, Zenon DEF ObjectsInv
<1> QED
  BY <1>3, <1>4, <1>5, <1>6, Zenon DEF ClientStep

(* The steps of a verify handler keep the invariant. *)
LEMMA HandlerKeeps ==
    ASSUME ObjectsInv, NEW h \in Handler, VerifyStep(h) \/ VerifyFails(h)
    PROVE  ObjectsInv'
<1> DEFINE u == verify[h].for
<1>1. ObjectsType /\ VerifiesProved /\ MarkersProved /\ AnswersKept
  BY Zenon DEF ObjectsInv
<1>2. verify[h].at # "free"
  BY DEF VerifyStep, VerifyFails, HeadStaged, RejectStaged, Rename, PutMarker, VerifyPromoted
<1>3. CASE HeadStaged(h)
  <2>1. UNCHANGED <<marker, proved>> /\ blobs \subseteq blobs' /\ staged' \subseteq staged
    BY <1>3, Zenon DEF HeadStaged
  <2>2. \E at \in {"reject", "rename", "promoted"} : VerifyAt(h, at) /\ (at = "rename" => TrueSize[u.oid] = u.size)
    BY <1>3 DEF HeadStaged
  <2>3. "mark" \notin {"reject", "rename", "promoted"}
    OBVIOUS
  <2> QED
    BY <1>2, <2>1, <2>2, <2>3, VerifyKeeps, Zenon
<1>4. CASE RejectStaged(h)
  <2>1. /\ UNCHANGED <<marker, proved>> /\ blobs \subseteq blobs' /\ staged' \subseteq staged
        /\ Answer(h, "mismatch") \/ Answer(h, "error")
    BY <1>4, Zenon DEF RejectStaged
  <2>2. /\ "mismatch" \in {"ok", "mismatch", "missing", "error"} /\ "mismatch" # "ok"
        /\ "error" \in {"ok", "mismatch", "missing", "error"} /\ "error" # "ok"
    OBVIOUS
  <2> QED
    BY <1>2, <2>1, <2>2, AnswerKeeps, Zenon
<1>5. CASE Rename(h)
  <2>1. UNCHANGED <<marker, proved>> /\ verify[h].at = "rename" /\ blobs \subseteq blobs' /\ staged' \subseteq staged
    BY <1>5, Zenon DEF Rename
  <2>2. TrueSize[u.oid] = u.size /\ KeyOf(u)[2] = u.oid
    BY <1>1, <2>1 DEF VerifiesProved, KeyOf
  <2>3. CASE Answer(h, "error")
    <3>1. "error" \in {"ok", "mismatch", "missing", "error"} /\ "error" # "ok"
      OBVIOUS
    <3> QED
      BY <1>2, <2>1, <2>3, <3>1, AnswerKeeps, Zenon
  <2>4. CASE VerifyAt(h, "promoted")
    <3>1. /\ "promoted" \in {"head", "reject", "rename", "mark", "promoted"}
          /\ "promoted" # "mark" /\ "promoted" \notin {"rename", "mark"}
      OBVIOUS
    <3> QED
      BY <1>2, <2>1, <2>4, <3>1, VerifyKeeps, Zenon
  <2>5. CASE VerifyAt(h, "mark") /\ KeyOf(u) \in staged /\ blobs' = blobs \union {KeyOf(u)[2]}
    <3>1. KeyOf(u) \in proved /\ u.oid \in blobs'
      BY <1>1, <2>2, <2>5, Zenon DEF VerifiesProved
    <3> QED
      BY <1>2, <2>1, <2>2, <2>5, <3>1, VerifyKeeps, Zenon
  <2> QED
    BY <1>5, <2>3, <2>4, <2>5, Zenon DEF Rename
<1>6. CASE VerifyPromoted(h)
  <2>1. UNCHANGED <<marker, proved>> /\ blobs \subseteq blobs' /\ staged' \subseteq staged
    BY <1>6, Zenon DEF VerifyPromoted
  <2>2. \E status \in {"ok", "missing"} : Answer(h, status) /\ (status = "ok" => marker[KeyOf(u)] # NotHeld)
    BY <1>6 DEF VerifyPromoted
  <2> QED
    BY <1>2, <2>1, <2>2, AnswerKeeps, Zenon
<1>7. CASE VerifyFails(h)
  <2>1. UNCHANGED <<marker, proved>> /\ blobs \subseteq blobs' /\ staged' \subseteq staged /\ Answer(h, "error")
    BY <1>7, Zenon DEF VerifyFails
  <2>2. "error" \in {"ok", "mismatch", "missing", "error"} /\ "error" # "ok"
    OBVIOUS
  <2> QED
    BY <1>2, <2>1, <2>2, AnswerKeeps, Zenon
<1> QED
  BY <1>3, <1>4, <1>5, <1>6, <1>7, PutMarkerKeeps, Zenon DEF VerifyStep

LEMMA ObjectsInvInit == LfsObjectsInit => ObjectsInv
<1> SUFFICES ASSUME LfsObjectsInit PROVE ObjectsInv
  OBVIOUS
<1>1. \A u \in Upload : client[u].at = "batch" /\ client[u] \in ClientState
  BY DEF LfsObjectsInit, ClientState
<1>2. \A h \in Handler : verify[h].at = "free" /\ verify[h] \in VerifyState
  BY DEF LfsObjectsInit, VerifyState
<1>3. client \in [Upload -> ClientState] /\ verify \in [Handler -> VerifyState]
  <2>1. client = [u \in Upload |-> client[u]] /\ verify = [h \in Handler |-> verify[h]]
    BY Zenon DEF LfsObjectsInit
  <2> QED
    BY <1>1, <1>2, <2>1, Zenon
<1>4. "free" \notin {"rename", "mark"} /\ "free" # "mark" /\ "batch" # "done"
  OBVIOUS
<1>5. ObjectsType
  BY <1>2, <1>3, Zenon DEF ObjectsType, LfsObjectsInit
<1>6. VerifiesProved /\ MarkersProved
  BY <1>2, <1>4, Zenon DEF VerifiesProved, MarkersProved, LfsObjectsInit
<1>7. AnswersKept
  BY <1>1, <1>4, Zenon DEF AnswersKept
<1> QED
  BY <1>5, <1>6, <1>7, Zenon DEF ObjectsInv

(* For any clients, including ones that post a verify for what only another
   repository was given, any handlers and faults: an object a repository holds was
   put through that repository's own staging key and can be read with the size its
   marker records, and a client told 200 is held (Verify reads the staging key of
   the caller's repository and writes the marker last, store.go). *)
THEOREM HeldObjectsAreReal == LfsObjectsSpec => []MarkersBacked
<1>1. ObjectsInv /\ [LfsObjectsNext]_loVars => ObjectsInv'
  <2> SUFFICES ASSUME ObjectsInv, [LfsObjectsNext]_loVars PROVE ObjectsInv'
    OBVIOUS
  <2>1. CASE LfsObjectsNext
    BY <2>1, ClientKeeps, HandlerKeeps, Zenon DEF LfsObjectsNext
  <2>2. CASE UNCHANGED loVars
    <3>1. /\ UNCHANGED staged /\ UNCHANGED blobs /\ UNCHANGED marker /\ UNCHANGED client
          /\ UNCHANGED verify /\ UNCHANGED proved
      BY <2>2 DEF loVars
    <3> QED
      BY <3>1, Zenon DEF ObjectsInv, ObjectsType, VerifiesProved, MarkersProved, AnswersKept
  <2> QED
    BY <2>1, <2>2, Zenon
<1>2. ObjectsInv => MarkersBacked
  <2> SUFFICES ASSUME ObjectsInv PROVE MarkersBacked
    OBVIOUS
  <2>1. ASSUME NEW k \in Keys, DownloadAction(k) = "download"
        PROVE  k \in proved /\ OpenVerified(k, marker[k]) = "body"
    <3>1. marker[k] # NotHeld
      BY <2>1 DEF DownloadAction
    <3>2. k \in proved /\ k[2] \in blobs /\ marker[k] = TrueSize[k[2]]
      BY <2>1, <3>1, Zenon DEF ObjectsInv, MarkersProved
    <3> QED
      BY <3>2, Zenon DEF OpenVerified
  <2> QED
    BY <2>1, Zenon DEF MarkersBacked, ObjectsInv, AnswersKept
<1> QED
  BY <1>1, <1>2, ObjectsInvInit, PTL DEF LfsObjectsSpec
=============================================================================
