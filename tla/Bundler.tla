------------------------------- MODULE Bundler -------------------------------
(***************************************************************************)
(* internal/bundler/bundler.go: items are collected into bundles, bundles  *)
(* are handled by at most HandlerLimit goroutines, Flush waits for         *)
(* everything added before it.                                             *)
(*                                                                         *)
(* Every critical section under b.mu is one step.  Bundles are numbered in *)
(* the order they are created, which is the order they enter the queue, so *)
(* the linked list is the set of queued numbers, its head the least and    *)
(* its tail the greatest.                                                  *)
(***************************************************************************)
EXTENDS Integers, FiniteSets, Sequences, Functions, Collections

CONSTANTS
    Item,             \* what callers add
    Size,             \* the size hint of each item
    Flusher,          \* calls of Flush
    MaxBundles,       \* bound: bundles created
    CountThreshold,   \* BundleCountThreshold
    ByteThreshold,    \* BundleByteThreshold
    ByteLimit,        \* BundleByteLimit, 0 for none
    BufferLimit,      \* BufferedByteLimit
    HandlerLimit

ASSUME BundlerAssumption ==
    /\ Size \in [Item -> Nat]
    /\ MaxBundles \in Nat
    /\ CountThreshold \in Nat /\ ByteThreshold \in Nat
    /\ ByteLimit \in Nat /\ BufferLimit \in Nat
    /\ HandlerLimit \in Nat \ {0}

Bundle == 1 .. MaxBundles
NoBundle == 0

VARIABLES
    item,      \* how far the call that adds each item has come
    within,    \* the bundle each item was put into
    where,     \* what became of each bundle
    bytes,     \* the size of each bundle
    group,     \* the flush WaitGroup each bundle counts in
    created,   \* bundles created so far
    waiters,   \* callers blocked on the semaphore, in order
    acquired,  \* the semaphore's weight in use
    handlers,  \* handlerCount
    timer,     \* flushTimer is set
    late,      \* callbacks of timers stopped too late, still to run
    curFlush,  \* number of the WaitGroup new bundles count in
    mode,      \* Add and AddWait do not mix
    flush,     \* the WaitGroup each Flush call waits for, 0 before the call
    closed,    \* the WaitGroups whose Flush has returned
    before     \* history: what was added before each Flush call

flushing == <<curFlush, flush, closed, before>>
vars == <<item, within, where, bytes, group, created, waiters, acquired, handlers,
          timer, late, curFlush, mode, flush, closed, before>>

TypeOK ==
    /\ item \in [Item -> {"new", "waiting", "admitted", "bundled", "handled", "refused"}]
    /\ within \in [Item -> Bundle \cup {NoBundle}]
    /\ where \in [Bundle -> {"unused", "current", "queued", "running", "done"}]
    /\ bytes \in [Bundle -> Nat]
    /\ group \in [Bundle -> Nat]
    /\ created \in 0 .. MaxBundles
    /\ waiters \in Seq(Item)
    /\ acquired \in Int
    /\ handlers \in 0 .. HandlerLimit
    /\ timer \in BOOLEAN /\ late \in Nat
    /\ curFlush \in Nat \ {0}
    /\ mode \in {"none", "add", "addWait"}
    /\ flush \in [Flusher -> Nat]
    /\ closed \subseteq Nat
    /\ before \in [Flusher -> SUBSET Item]

Init ==
    /\ item = [i \in Item |-> "new"]
    /\ within = [i \in Item |-> NoBundle]
    /\ where = [b \in Bundle |-> "unused"]
    /\ bytes = [b \in Bundle |-> 0]
    /\ group = [b \in Bundle |-> 0]
    /\ created = 0
    /\ waiters = <<>>
    /\ acquired = 0
    /\ handlers = 0
    /\ timer = FALSE /\ late = 0
    /\ curFlush = 1
    /\ mode = "none"
    /\ flush = [f \in Flusher |-> 0]
    /\ closed = {}
    /\ before = [f \in Flusher |-> {}]

-----------------------------------------------------------------------------
(* Bundles. *)

Current == {b \in Bundle : where[b] = "current"}
Queue == {b \in Bundle : where[b] = "queued"}

IsHead(b) == b \in Queue /\ \A c \in Queue : b <= c
IsTail(b) == b \in Queue /\ \A c \in Queue : c <= b

Items(b) == {i \in Item : within[i] = b}

CanFit(b, size) ==
    /\ ByteLimit = 0 \/ bytes[b] + size <= ByteLimit
    /\ CountThreshold = 0 \/ Cardinality(Items(b)) < CountThreshold

(* enqueueCurBundle on the bundles in S (the current one, or none): a free
   handler takes the bundle at once, otherwise it joins the queue. *)
Placed(S, w, h) ==
    [b \in Bundle |-> IF b \notin S THEN w[b]
                      ELSE IF h < HandlerLimit THEN "running" ELSE "queued"]
(* Mutant of Busy: a goroutine for every bundle. *)
BusyUnlimited(S, h) == IF S # {} THEN h + 1 ELSE h

Busy(S, h) == IF S # {} /\ h < HandlerLimit THEN h + 1 ELSE h

(* Mutant of Enqueue: flushTimer is stopped and not forgotten. *)
EnqueueKeepTimer(S) ==
    /\ where' = Placed(S, where, handlers)
    /\ handlers' = Busy(S, handlers)
    /\ UNCHANGED timer

Enqueue(S) ==
    /\ where' = Placed(S, where, handlers)
    /\ handlers' = Busy(S, handlers)
    /\ timer' = (timer /\ S = {})

(* Stop comes in time, or the callback already waits for b.mu. *)
StopTimer(S) == late' \in IF timer /\ S # {} THEN {late, late + 1} ELSE {late}

-----------------------------------------------------------------------------
(* Adding an item: the semaphore first, then b.mu and add. *)

Reject(i) ==
    /\ item' = [item EXCEPT ![i] = "refused"]
    /\ UNCHANGED <<waiters, acquired>>

Oversized(i) == ByteLimit > 0 /\ Size[i] > ByteLimit
Fits(i) == acquired + Size[i] <= BufferLimit

Weigh(i) ==
    /\ item' = [item EXCEPT ![i] = "admitted"]
    /\ acquired' = acquired + Size[i]

(* AddWait blocks in the semaphore's order.  One that asks for more than the
   semaphore has is not queued: it can only be cancelled. *)
AddWait(i) ==
    /\ item[i] = "new"
    /\ mode' = IF mode = "none" THEN "addWait" ELSE mode
    /\ IF mode = "add" \/ Oversized(i) THEN Reject(i)
       ELSE IF waiters = <<>> /\ Fits(i) THEN Weigh(i) /\ UNCHANGED waiters
       ELSE /\ item' = [item EXCEPT ![i] = "waiting"]
            /\ waiters' = IF Size[i] > BufferLimit THEN waiters ELSE Append(waiters, i)
            /\ UNCHANGED acquired
    /\ UNCHANGED <<within, where, bytes, group, created, handlers, timer, late, flushing>>

(* Add takes what is free or fails with ErrOverflow. *)
Add(i) ==
    /\ item[i] = "new"
    /\ mode' = IF mode = "none" THEN "add" ELSE mode
    /\ IF mode = "addWait" \/ Oversized(i) \/ ~Fits(i) THEN Reject(i)
       ELSE Weigh(i) /\ UNCHANGED waiters
    /\ UNCHANGED <<within, where, bytes, group, created, handlers, timer, late, flushing>>

(* The first waiter gets its weight as soon as it fits. *)
Acquire(i) ==
    /\ item[i] = "waiting" /\ waiters # <<>> /\ waiters[1] = i /\ Fits(i)
    /\ Weigh(i)
    /\ waiters' = Tail(waiters)
    /\ UNCHANGED <<within, where, bytes, group, created, handlers, timer, late, mode, flushing>>

(* The caller's context ends while it waits. *)
Cancel(i) ==
    /\ item[i] = "waiting"
    /\ item' = [item EXCEPT ![i] = "refused"]
    /\ waiters' = Kept(waiters, Item \ {i})
    /\ UNCHANGED <<within, where, bytes, group, created, acquired, handlers, timer, late, mode, flushing>>

(* Mutant of JoinTail: the size of the joined bundle is not updated. *)
JoinTailUnweighed(i) ==
    \E b \in Bundle :
        /\ item[i] = "admitted"
        /\ Current = {} /\ IsTail(b) /\ CanFit(b, Size[i])
        /\ item' = [item EXCEPT ![i] = "bundled"]
        /\ within' = [within EXCEPT ![i] = b]
        /\ UNCHANGED <<where, bytes, group, created, waiters, acquired, handlers, timer, late, mode, flushing>>

(* add joins the tail of the queue when there is no current bundle ... *)
JoinTail(i) ==
    \E b \in Bundle :
        /\ item[i] = "admitted"
        /\ Current = {} /\ IsTail(b) /\ CanFit(b, Size[i])
        /\ item' = [item EXCEPT ![i] = "bundled"]
        /\ within' = [within EXCEPT ![i] = b]
        /\ bytes' = [bytes EXCEPT ![b] = @ + Size[i]]
        /\ UNCHANGED <<where, group, created, waiters, acquired, handlers, timer, late, mode, flushing>>

(* A bundle of this size with this many items is due. *)
Due(size, count) == size >= ByteThreshold \/ count = CountThreshold

(* ... or the current bundle if it fits, which may make it due ... *)
JoinCurrent(i) ==
    \E b \in Current :
        LET due == IF Due(bytes[b] + Size[i], Cardinality(Items(b)) + 1) THEN {b} ELSE {} IN
        /\ item[i] = "admitted" /\ CanFit(b, Size[i])
        /\ item' = [item EXCEPT ![i] = "bundled"]
        /\ within' = [within EXCEPT ![i] = b]
        /\ bytes' = [bytes EXCEPT ![b] = @ + Size[i]]
        /\ Enqueue(due) /\ StopTimer(due)
        /\ UNCHANGED <<group, created, waiters, acquired, mode, flushing>>

(* ... or a new one, after the current one was enqueued for want of room. *)
StartBundle(i) ==
    LET b == created + 1
        w == Placed(Current, where, handlers)
        h == Busy(Current, handlers)
        due == Due(Size[i], 1) IN
    /\ item[i] = "admitted" /\ created < MaxBundles
    /\ \A c \in Current : ~CanFit(c, Size[i])
    /\ Current = {} => \A c \in Bundle : IsTail(c) => ~CanFit(c, Size[i])
    /\ created' = b
    /\ item' = [item EXCEPT ![i] = "bundled"]
    /\ within' = [within EXCEPT ![i] = b]
    /\ bytes' = [bytes EXCEPT ![b] = Size[i]]
    /\ group' = [group EXCEPT ![b] = curFlush]
    /\ where' = IF due THEN Placed({b}, w, h) ELSE [w EXCEPT ![b] = "current"]
    /\ handlers' = IF due THEN Busy({b}, h) ELSE h
    /\ timer' = ~due
    /\ StopTimer(Current)
    /\ UNCHANGED <<waiters, acquired, mode, flushing>>

(* The timer of the current bundle fires; the callback of an older one finds
   whatever bundle is current by then, and stops that bundle's timer in time or
   too late. *)
TryHandleBundles ==
    /\ \/ timer /\ UNCHANGED late
       \/ late > 0 /\ late' \in IF timer /\ Current # {} THEN {late - 1, late} ELSE {late - 1}
    /\ Enqueue(Current)
    /\ UNCHANGED <<item, within, bytes, group, created, waiters, acquired, mode, flushing>>

(* Mutant of PostHandle: the goroutine takes the next bundle and counts itself
   out nevertheless. *)
PostHandleCountsOut(b) ==
    /\ where[b] = "running"
    /\ item' = [i \in Item |-> IF within[i] = b THEN "handled" ELSE item[i]]
    /\ acquired' = acquired - bytes[b]
    /\ where' = [c \in Bundle |-> IF c = b THEN "done"
                                  ELSE IF IsHead(c) THEN "running" ELSE where[c]]
    /\ handlers' = handlers - 1
    /\ UNCHANGED <<within, bytes, group, created, waiters, timer, late, mode, flushing>>

(* The handler of bundle b returned: postHandle releases, counts it down and
   takes the next bundle or ends the goroutine. *)
PostHandle(b) ==
    /\ where[b] = "running"
    /\ item' = [i \in Item |-> IF within[i] = b THEN "handled" ELSE item[i]]
    /\ acquired' = acquired - bytes[b]
    /\ where' = [c \in Bundle |-> IF c = b THEN "done"
                                  ELSE IF IsHead(c) THEN "running"
                                  ELSE where[c]]
    /\ handlers' = IF Queue = {} THEN handlers - 1 ELSE handlers
    /\ UNCHANGED <<within, bytes, group, created, waiters, timer, late, mode, flushing>>

-----------------------------------------------------------------------------
(* Flush: enqueue the current bundle and take its WaitGroup under b.mu, wait
   for the previous Flush, then for the group, then let the next one go. *)
FlushBegin(f) ==
    /\ flush[f] = 0
    /\ Enqueue(Current) /\ StopTimer(Current)
    /\ flush' = [flush EXCEPT ![f] = curFlush]
    /\ curFlush' = curFlush + 1
    /\ before' = [before EXCEPT ![f] = {i \in Item : item[i] \in {"bundled", "handled"}}]
    /\ UNCHANGED <<item, within, bytes, group, created, waiters, acquired, mode, closed>>

Outstanding(g) == {b \in Bundle : group[b] = g /\ where[b] # "done"}

(* Mutant of FlushEnd: it does not wait for the Flush before it. *)
FlushEndAlone(f) ==
    /\ flush[f] # 0 /\ flush[f] \notin closed
    /\ Outstanding(flush[f]) = {}
    /\ closed' = closed \cup {flush[f]}
    /\ UNCHANGED <<item, within, where, bytes, group, created, waiters, acquired, handlers,
                   timer, late, curFlush, mode, flush, before>>

(* Mutant of FlushEnd: the first one waits for a predecessor, too. *)
FlushEndChained(f) ==
    /\ flush[f] # 0 /\ flush[f] \notin closed
    /\ flush[f] - 1 \in closed
    /\ Outstanding(flush[f]) = {}
    /\ closed' = closed \cup {flush[f]}
    /\ UNCHANGED <<item, within, where, bytes, group, created, waiters, acquired, handlers,
                   timer, late, curFlush, mode, flush, before>>

FlushEnd(f) ==
    /\ flush[f] # 0 /\ flush[f] \notin closed
    /\ flush[f] = 1 \/ flush[f] - 1 \in closed
    /\ Outstanding(flush[f]) = {}
    /\ closed' = closed \cup {flush[f]}
    /\ UNCHANGED <<item, within, where, bytes, group, created, waiters, acquired, handlers,
                   timer, late, curFlush, mode, flush, before>>

-----------------------------------------------------------------------------
PutItem(i) == JoinTail(i) \/ JoinCurrent(i) \/ StartBundle(i)

Next ==
    \/ \E i \in Item : AddWait(i) \/ Add(i) \/ Acquire(i) \/ Cancel(i) \/ PutItem(i)
    \/ TryHandleBundles
    \/ \E b \in Bundle : PostHandle(b)
    \/ \E f \in Flusher : FlushBegin(f) \/ FlushEnd(f)

(* Goroutines that can run do: granted callers, the timer, handlers (whose
   context has a deadline) and waiting Flush calls.  Nobody has to call. *)
Fairness ==
    /\ WF_vars(\E i \in Item : Acquire(i))
    /\ WF_vars(\E i \in Item : PutItem(i))
    /\ WF_vars(TryHandleBundles)
    /\ WF_vars(\E b \in Bundle : PostHandle(b))
    /\ WF_vars(\E f \in Flusher : FlushEnd(f))

Spec == Init /\ [][Next]_vars /\ Fairness

-----------------------------------------------------------------------------
(* Properties. *)

Returned(f) == flush[f] \in closed

(* A Flush that returned has seen every item added before it was called go
   through the handler, although such an item may have joined a bundle of an
   earlier Flush and later items keep coming. *)
FlushCovers == \A f \in Flusher : Returned(f) => \A i \in before[f] : item[i] = "handled"

(* Bundles queue only while every handler is busy, so a free handler never
   overlooks work, and the count of handlers is the count of bundles being
   handled. *)
QueueOnlyWhenBusy ==
    /\ Queue # {} => handlers = HandlerLimit
    /\ handlers = Cardinality({b \in Bundle : where[b] = "running"})

(* Exactly while a bundle is still being filled is a timer set that will take
   it to the handler: nothing is left behind without Flush. *)
TimerGuardsCurrent == timer <=> Current # {}

(* The weight taken from the semaphore is the weight of the items added and
   not handled: joining a queued bundle late neither leaks nor frees bytes. *)
BytesAccounted ==
    /\ acquired = SumFunctionOnSet(Size, {i \in Item : item[i] \in {"admitted", "bundled"}})
    /\ acquired <= BufferLimit

(* Every accepted item is handled, and every Flush returns, even while others
   block on a full buffer: once the callers are done, so is the Bundler.  A
   caller that asks for more than the whole buffer holds up nobody else. *)
EverythingHandled ==
    <>[](/\ \A i \in Item : \/ item[i] \in {"new", "handled", "refused"}
                            \/ item[i] = "waiting" /\ Size[i] > BufferLimit
         /\ \A f \in Flusher : flush[f] # 0 => Returned(f))
=============================================================================
