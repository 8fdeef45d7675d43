----------------------------- MODULE ReceivePack -----------------------------
(***************************************************************************)
(* Pushes to one repository: the push slots of each daemon, the unpacking  *)
(* of a pack into containers, their upload, the flush before the reference *)
(* update, the update itself and the notification of what landed.          *)
(* cmd/objgitd/receivepack.go and pushlimit.go, and the write side of      *)
(* internal/storage/tigris (packwriter.go, upload.go, refs.go).            *)
(*                                                                         *)
(* The references are the atomic map AtomicRefs, which RefStore refines    *)
(* when there is no legacy loose layer.  Without packed refs they are one  *)
(* object per name, and a push writes them one by one.                     *)
(***************************************************************************)
EXTENDS Naturals, Sequences, FiniteSets

CONSTANTS
    Push,         \* the pushes
    Daemon,       \* the objgitd processes
    Name,         \* reference names
    Value,        \* reference targets
    Absent,       \* no such reference; the zero hash of a command
    Keep, Any,    \* see AtomicRefs
    NoView,       \* the Storer's reference cache is not built
    InitRefs,     \* the references at the start
    Requests,     \* the command lists clients send, each name once
    MaxContainers,\* bound: containers one pack is split into
    MaxPushes,    \* the push limit of each daemon
    PackedFlags   \* the settings of -packed-refs to consider

Command == [name : Name, old : Value \cup {Absent}, new : Value \cup {Absent}]
RefMap == [Name -> Value \cup {Absent}]

ASSUME ReceivePackAssumption ==
    /\ Absent \notin Value /\ Keep \notin Value /\ Any \notin Value
    /\ Absent # Keep /\ Absent # Any
    /\ NoView \notin RefMap
    /\ InitRefs \in RefMap
    /\ IsFiniteSet(Push)
    /\ Requests \subseteq Seq(Command) /\ <<>> \notin Requests
    /\ \A r \in Requests : \A i, j \in 1 .. Len(r) : r[i].name = r[j].name => i = j
    /\ MaxContainers \in Nat /\ MaxPushes \in Nat \ {0}
    /\ PackedFlags \subseteq BOOLEAN

VARIABLES
    packedRefs,  \* -packed-refs, the same on every daemon
    refs,        \* bucket: the references
    bins,        \* bucket: the .bin objects of containers <<push, number>>
    cues,        \* bucket: the .cue objects
    host,        \* the daemon each push was sent to
    pc,          \* where receivePackStreaming is
    req,         \* the commands of the push
    view,        \* the Storer's cached references
    job,         \* upload jobs, one per sealed container
    upErr,       \* uploader.err
    status,      \* cmdStatus
    pos,         \* the next command of updateReferencesOneByOne
    slots,       \* push slots taken at each daemon
    told,        \* updates handed to onUpdated
    landed,      \* history: transitions each push made
    setBy        \* history: the push that last set each reference

bucket == <<refs, bins, cues>>
history == <<landed, setBy>>
vars == <<packedRefs, refs, bins, cues, host, pc, req, view, job, upErr, status, pos,
          slots, told, landed, setBy>>

NoPush == "nobody"
Nowhere == "nowhere"
Holding == {"unpacking", "validating", "flushing", "committing", "cleanup",
            "oneByOne", "looseFlush", "loosePut", "looseDelete", "reporting"}
Over == {"done", "dead"}
Container == 1 .. MaxContainers
JobState == {"none", "queued", "bin", "uploaded", "failed", "lost"}
Status == {"none", "ok", "error"}

TypeOK ==
    /\ packedRefs \in BOOLEAN
    /\ refs \in RefMap
    /\ bins \subseteq Push \X Container /\ cues \subseteq Push \X Container
    /\ pc \in [Push -> {"idle", "queued"} \cup Holding \cup Over]
    /\ host \in [Push -> Daemon \cup {Nowhere}]
    /\ req \in [Push -> Seq(Command)]
    /\ view \in [Push -> RefMap \cup {NoView}]
    /\ job \in [Push -> [Container -> JobState]]
    /\ upErr \in [Push -> BOOLEAN]
    /\ status \in [Push -> [Name -> Status]]
    /\ pos \in [Push -> Nat \ {0}]
    /\ slots \in [Daemon -> 0 .. MaxPushes]
    /\ told \in [Push -> SUBSET Command]
    /\ landed \in [Push -> SUBSET Command]
    /\ setBy \in [Name -> Push \cup {NoPush}]

Init ==
    /\ packedRefs \in PackedFlags
    /\ refs = InitRefs
    /\ bins = {} /\ cues = {}
    /\ pc = [p \in Push |-> "idle"]
    /\ host = [p \in Push |-> Nowhere]
    /\ req = [p \in Push |-> <<>>]
    /\ view = [p \in Push |-> NoView]
    /\ job = [p \in Push |-> [k \in Container |-> "none"]]
    /\ upErr = [p \in Push |-> FALSE]
    /\ status = [p \in Push |-> [n \in Name |-> "none"]]
    /\ pos = [p \in Push |-> 1]
    /\ slots = [d \in Daemon |-> 0]
    /\ told = [p \in Push |-> {}]
    /\ landed = [p \in Push |-> {}]
    /\ setBy = [n \in Name |-> NoPush]

GoTo(p, where) == pc' = [pc EXCEPT ![p] = where]

(* receivePackStreaming returns: the deferred release frees the slot, and the
   request's own data is gone. *)
Forget(P) ==
    /\ req' = [p \in Push |-> IF p \in P THEN <<>> ELSE req[p]]
    /\ view' = [p \in Push |-> IF p \in P THEN NoView ELSE view[p]]
    /\ status' = [p \in Push |-> IF p \in P THEN [n \in Name |-> "none"] ELSE status[p]]
    /\ pos' = [p \in Push |-> IF p \in P THEN 1 ELSE pos[p]]
Finish(p) ==
    /\ GoTo(p, "done")
    /\ slots' = [slots EXCEPT ![host[p]] = @ - 1]
    /\ Forget({p})

-----------------------------------------------------------------------------
(* The request, the push slot and the unpacking. *)

Commands(p) == {req[p][i] : i \in 1 .. Len(req[p])}
NeedPackfile(p) == \E c \in Commands(p) : c.old = Absent \/ c.new # Absent

(* The client was shown the references, by this Storer over SSH (which fills
   its cache) or by an earlier one over HTTP, and sends its commands. *)
Connect(p) ==
    /\ pc[p] = "idle"
    /\ \E d \in Daemon, r \in Requests, v \in {NoView, refs} :
         /\ host' = [host EXCEPT ![p] = d]
         /\ req' = [req EXCEPT ![p] = r]
         /\ view' = [view EXCEPT ![p] = v]
    /\ GoTo(p, "queued")
    /\ UNCHANGED <<packedRefs, bucket, job, upErr, status, pos, slots, told, history>>

(* admit: a slot is free ... *)
Admit(p) ==
    /\ pc[p] = "queued" /\ slots[host[p]] < MaxPushes
    /\ slots' = [slots EXCEPT ![host[p]] = @ + 1]
    /\ GoTo(p, IF NeedPackfile(p) THEN "unpacking" ELSE "validating")
    /\ UNCHANGED <<packedRefs, host, bucket, req, view, job, upErr, status, pos, told, history>>

(* Mutant of Refuse: it releases the slot it never got. *)
RefuseReleases(p) ==
    /\ pc[p] = "queued"
    /\ Finish(p)
    /\ UNCHANGED <<packedRefs, host, bucket, job, upErr, told, history>>

(* ... or the deadline passes, or the client hangs up. *)
Refuse(p) ==
    /\ pc[p] = "queued"
    /\ GoTo(p, "done") /\ Forget({p})
    /\ UNCHANGED <<packedRefs, host, bucket, job, upErr, slots, told, history>>

Sealed(p) == {k \in Container : job[p][k] # "none"}
Settled(p) == \A k \in Container : job[p][k] \notin {"queued", "bin"}

(* A container is full, or it is the last one: seal registers and enqueues it. *)
Seal(p) ==
    /\ pc[p] = "unpacking" /\ Cardinality(Sealed(p)) < MaxContainers
    /\ job' = [job EXCEPT ![p][Cardinality(Sealed(p)) + 1] = "queued"]
    /\ UNCHANGED <<packedRefs, host, bucket, pc, req, view, upErr, status, pos, slots, told, history>>

(* Mutant of UnpackFailed: the error path keeps the slot. *)
UnpackFailedLeaks(p) ==
    /\ pc[p] = "unpacking"
    /\ job' = [job EXCEPT ![p] = [k \in Container |->
                 IF k = Cardinality(Sealed(p)) + 1 THEN "failed" ELSE @[k]]]
    /\ GoTo(p, "done") /\ Forget({p})
    /\ UNCHANGED <<packedRefs, host, bucket, upErr, slots, told, history>>

(* The pack is damaged, a base is missing, or the client is gone while enqueue
   waits for room: the push fails with the containers it sealed so far. *)
UnpackFailed(p) ==
    /\ pc[p] = "unpacking"
    /\ job' = [job EXCEPT ![p] = [k \in Container |->
                 IF k = Cardinality(Sealed(p)) + 1 THEN "failed" ELSE @[k]]]
    /\ Finish(p)
    /\ UNCHANGED <<packedRefs, host, bucket, upErr, told, history>>

Unpacked(p) ==
    /\ pc[p] = "unpacking"
    /\ GoTo(p, "validating")
    /\ UNCHANGED <<packedRefs, host, bucket, req, view, job, upErr, status, pos, slots, told, history>>

(* Without report-status the push ends here and updates no reference. *)
NoReport(p) ==
    /\ pc[p] = "validating"
    /\ Finish(p)
    /\ UNCHANGED <<packedRefs, host, bucket, job, upErr, told, history>>

-----------------------------------------------------------------------------
(* Uploads: handleBundle runs packJob.run and then packJob.done, in goroutines
   that outlive the push. *)

(* Mutant of PutBin: a failed .bin PUT goes unnoticed. *)
PutBinUnchecked(p, k) ==
    /\ job[p][k] = "queued"
    /\ bins' \in {bins, bins \cup {<<p, k>>}}
    /\ job' = [job EXCEPT ![p][k] = "bin"]
    /\ UNCHANGED <<packedRefs, host, refs, cues, pc, req, view, upErr, status, pos, slots, told, history>>

PutBin(p, k) ==
    /\ job[p][k] = "queued"
    /\ bins' = bins \cup {<<p, k>>}
    /\ job' = [job EXCEPT ![p][k] = "bin"]
    /\ UNCHANGED <<packedRefs, host, refs, cues, pc, req, view, upErr, status, pos, slots, told, history>>

PutCue(p, k) ==
    /\ job[p][k] = "bin"
    /\ cues' = cues \cup {<<p, k>>}
    /\ job' = [job EXCEPT ![p][k] = "uploaded"]
    /\ UNCHANGED <<packedRefs, host, refs, bins, pc, req, view, upErr, status, pos, slots, told, history>>

(* Either PUT fails, or its answer is lost after it landed. *)
UploadFailed(p, k) ==
    /\ job[p][k] \in {"queued", "bin"}
    /\ \/ UNCHANGED <<bins, cues>>
       \/ job[p][k] = "queued" /\ bins' = bins \cup {<<p, k>>} /\ UNCHANGED cues
       \/ job[p][k] = "bin" /\ cues' = cues \cup {<<p, k>>} /\ UNCHANGED bins
    /\ job' = [job EXCEPT ![p][k] = "failed"]
    /\ upErr' = [upErr EXCEPT ![p] = TRUE]
    /\ UNCHANGED <<packedRefs, host, refs, pc, req, view, status, pos, slots, told, history>>

-----------------------------------------------------------------------------
(* The reference update with packed refs: updateReferencesBatched. *)

Valid(c, v) == v[c.name] = c.old /\ {c.old, c.new} # {Absent}
Cached(p) == IF view[p] = NoView THEN refs ELSE view[p]

SetStatus(p, S, x) ==
    status' = [status EXCEPT ![p] = [n \in Name |-> IF n \in S THEN x ELSE @[n]]]

Names(C) == {c.name : c \in C}

(* Reads that fail leave the cache unbuilt, so it is the first few that do. *)
Unread(p, k) == {req[p][i] : i \in 1 .. k}
MayFail(p) == IF view[p] = NoView THEN 0 .. Len(req[p]) ELSE {0}
ViewAfter(p, k) == IF k = Len(req[p]) THEN view[p] ELSE Cached(p)

(* Every command is compared with the Storer's view; the rest is staged. *)
Validate(p) ==
    /\ packedRefs /\ pc[p] = "validating"
    /\ \E k \in MayFail(p) :
         LET bad == Unread(p, k) \cup {c \in Commands(p) : ~Valid(c, Cached(p))} IN
         /\ view' = [view EXCEPT ![p] = ViewAfter(p, k)]
         /\ SetStatus(p, Names(bad), "error")
         /\ GoTo(p, IF bad = Commands(p) THEN "reporting" ELSE "flushing")
    /\ UNCHANGED <<packedRefs, host, bucket, req, job, upErr, pos, slots, told, history>>

Staged(p) == {c \in Commands(p) : status[p][c.name] # "error"}

(* Mutants of Flush: it reads the error before the last job is done ... *)
FlushEarly(p) ==
    /\ pc[p] = "flushing"
    /\ upErr' = [upErr EXCEPT ![p] = FALSE]
    /\ IF upErr[p] THEN SetStatus(p, Names(Staged(p)), "error") /\ GoTo(p, "reporting")
                   ELSE GoTo(p, "committing") /\ UNCHANGED status
    /\ UNCHANGED <<packedRefs, host, bucket, req, view, job, pos, slots, told, history>>

(* ... or a failed job is never counted down. *)
FlushHangs(p) ==
    /\ pc[p] = "flushing" /\ \A k \in Container : job[p][k] \in {"none", "uploaded"}
    /\ GoTo(p, "committing")
    /\ UNCHANGED <<packedRefs, host, bucket, req, view, job, upErr, status, pos, slots, told, history>>

(* uploader.flush: wait for every job, then take the error and clear it. *)
Flush(p) ==
    /\ pc[p] = "flushing" /\ Settled(p)
    /\ upErr' = [upErr EXCEPT ![p] = FALSE]
    /\ IF upErr[p] THEN SetStatus(p, Names(Staged(p)), "error") /\ GoTo(p, "reporting")
                   ELSE GoTo(p, "committing") /\ UNCHANGED status
    /\ UNCHANGED <<packedRefs, host, bucket, req, view, job, pos, slots, told, history>>

Refs == INSTANCE AtomicRefs WITH Batches <- {}

(* Mutant of BatchOf: UpdateReferences instead of UpdateReferencesChecked. *)
BatchUnchecked(p) ==
    [upd    |-> [n \in Name |-> IF \E c \in Staged(p) : c.name = n
                                THEN (CHOOSE c \in Staged(p) : c.name = n).new ELSE Keep],
     expect |-> [n \in Name |-> Any],
     strict |-> FALSE]

(* The batch of the staged commands; a zero old hash demands absence. *)
BatchOf(p) ==
    [upd    |-> [n \in Name |-> IF \E c \in Staged(p) : c.name = n
                                THEN (CHOOSE c \in Staged(p) : c.name = n).new ELSE Keep],
     expect |-> [n \in Name |-> IF \E c \in Staged(p) : c.name = n
                                THEN (CHOOSE c \in Staged(p) : c.name = n).old ELSE Any],
     strict |-> TRUE]

(* What this step did to the references, for the record. *)
Record(p) ==
    LET moved == {c \in Command : refs[c.name] = c.old /\ refs'[c.name] = c.new /\ c.old # c.new} IN
    /\ landed' = [landed EXCEPT ![p] = @ \cup moved]
    /\ setBy' = [n \in Name |-> IF n \in Names(moved) THEN p ELSE setBy[n]]

(* UpdateReferencesChecked: the batch lands, and all went well, or the loose
   cleanup failed, or the answer was lost ... *)
CommitLands(p) ==
    /\ pc[p] = "committing"
    /\ Refs!Update(BatchOf(p))
    /\ Record(p)
    /\ \/ /\ SetStatus(p, Names(Staged(p)), "ok") /\ GoTo(p, "reporting")
          /\ view' = [view EXCEPT ![p] = refs']
       \/ GoTo(p, "cleanup") /\ view' = [view EXCEPT ![p] = NoView] /\ UNCHANGED status
       \/ /\ SetStatus(p, Names(Staged(p)), "error") /\ GoTo(p, "reporting")
          /\ UNCHANGED view
    /\ UNCHANGED <<packedRefs, host, bins, cues, req, job, upErr, pos, slots, told>>

(* ... or it does not: a value changed, contention, or an error. *)
CommitRefused(p) ==
    /\ pc[p] = "committing"
    /\ SetStatus(p, Names(Staged(p)), "error")
    /\ GoTo(p, "reporting")
    /\ UNCHANGED <<packedRefs, host, bucket, req, view, job, upErr, pos, slots, told, history>>

(* After a failed cleanup only the commands that show are reported. *)
CheckVisible(p) ==
    /\ pc[p] = "cleanup"
    /\ \E k \in MayFail(p) :
         /\ status' = [status EXCEPT ![p] = [n \in Name |->
              IF n \notin Names(Staged(p)) THEN @[n]
              ELSE IF n \notin Names(Unread(p, k)) /\ refs[n] = BatchOf(p).upd[n] THEN "ok"
              ELSE "error"]]
         /\ view' = [view EXCEPT ![p] = ViewAfter(p, k)]
    /\ GoTo(p, "reporting")
    /\ UNCHANGED <<packedRefs, host, bucket, req, job, upErr, pos, slots, told, history>>

-----------------------------------------------------------------------------
(* The reference update without packed refs: updateReferencesOneByOne. *)

Now(p) == req[p][pos[p]]

Answer(p, x) ==
    /\ SetStatus(p, {Now(p).name}, x)
    /\ pos' = [pos EXCEPT ![p] = @ + 1]
    /\ GoTo(p, IF pos[p] = Len(req[p]) THEN "reporting" ELSE "oneByOne")

StartOneByOne(p) ==
    /\ ~packedRefs /\ pc[p] = "validating"
    /\ GoTo(p, "oneByOne")
    /\ UNCHANGED <<packedRefs, host, bucket, req, view, job, upErr, status, pos, slots, told, history>>

ValidateNext(p) ==
    /\ pc[p] = "oneByOne"
    /\ \/ /\ view[p] = NoView
          /\ Answer(p, "error")
          /\ UNCHANGED view
       \/ /\ view' = [view EXCEPT ![p] = Cached(p)]
          /\ IF ~Valid(Now(p), Cached(p)) THEN Answer(p, "error")
             ELSE /\ GoTo(p, IF Now(p).new = Absent THEN "looseDelete" ELSE "looseFlush")
                  /\ UNCHANGED <<status, pos>>
    /\ UNCHANGED <<packedRefs, host, bucket, req, job, upErr, slots, told, history>>

(* setLooseReference flushes first; RemoveReference does not. *)
LooseFlush(p) ==
    /\ pc[p] = "looseFlush" /\ Settled(p)
    /\ upErr' = [upErr EXCEPT ![p] = FALSE]
    /\ IF upErr[p] THEN Answer(p, "error")
                   ELSE GoTo(p, "loosePut") /\ UNCHANGED <<status, pos>>
    /\ UNCHANGED <<packedRefs, host, bucket, req, view, job, slots, told, history>>

(* The PUT or DELETE of one reference object succeeds, fails, or lands with its
   answer lost. *)
LooseWrite(p) ==
    /\ pc[p] \in {"loosePut", "looseDelete"}
    /\ \/ /\ refs' = [refs EXCEPT ![Now(p).name] = Now(p).new]
          /\ Record(p)
          /\ \/ Answer(p, "ok") /\ view' = [view EXCEPT ![p] = NoView]
             \/ Answer(p, "error") /\ UNCHANGED view
       \/ /\ Answer(p, "error")
          /\ UNCHANGED <<refs, view, history>>
    /\ UNCHANGED <<packedRefs, host, bins, cues, req, job, upErr, slots, told>>

-----------------------------------------------------------------------------
(* The report, the callback with the successful updates, and the end.  A report
   that cannot be sent changes nothing of it. *)

SuccessfulRefUpdates(p) ==
    {c \in Commands(p) : status[p][c.name] = "ok" /\ c.old # c.new}

Report(p) ==
    /\ pc[p] = "reporting"
    /\ told' = [told EXCEPT ![p] = SuccessfulRefUpdates(p)]
    /\ Finish(p)
    /\ UNCHANGED <<packedRefs, host, bucket, job, upErr, history>>

(* A daemon dies with its pushes and its uploads. *)
Crash(d) ==
    LET mine == {p \in Push : host[p] = d} IN
    /\ \E p \in mine : pc[p] \notin Over \/ ~Settled(p)
    /\ pc' = [p \in Push |-> IF p \in mine /\ pc[p] \notin Over THEN "dead" ELSE pc[p]]
    /\ job' = [p \in Push |-> [k \in Container |->
                 IF p \in mine /\ job[p][k] \in {"queued", "bin"} THEN "lost" ELSE job[p][k]]]
    /\ slots' = [slots EXCEPT ![d] = 0]
    /\ Forget(mine)
    /\ UNCHANGED <<packedRefs, host, bucket, upErr, told, history>>

-----------------------------------------------------------------------------
(* What the daemon does by itself.  Unpacking reads from the client's
   connection, which has no deadline, and goes on or fails when the client does
   something. *)
Proceed(p) ==
    \/ Admit(p) \/ NoReport(p)
    \/ Validate(p) \/ Flush(p) \/ CommitLands(p) \/ CommitRefused(p) \/ CheckVisible(p)
    \/ StartOneByOne(p) \/ ValidateNext(p) \/ LooseFlush(p) \/ LooseWrite(p)
    \/ Report(p)

Serve(p) == Proceed(p) \/ Unpacked(p) \/ UnpackFailed(p)

Upload(p, k) == PutBin(p, k) \/ PutCue(p, k) \/ UploadFailed(p, k)

Next ==
    \/ \E p \in Push : Connect(p) \/ Refuse(p) \/ Seal(p) \/ Serve(p)
    \/ \E p \in Push, k \in Container : Upload(p, k)
    \/ \E d \in Daemon : Crash(d)

(* A push that can go on without its client does, and an upload has a deadline.
   Neither the rest of a pack nor the end of the wait for a slot is assumed. *)
Spec ==
    /\ Init /\ [][Next]_vars
    /\ \A p \in Push : WF_vars(Proceed(p))
    /\ \A p \in Push, k \in Container : WF_vars(Upload(p, k))

-----------------------------------------------------------------------------
(* Properties. *)

(* A reference never points into a pack of which a container is not, or not
   completely, in the bucket. *)
RefsDurable ==
    \A n \in Name : setBy[n] # NoPush /\ refs[n] # Absent =>
        \A k \in Sealed(setBy[n]) : <<setBy[n], k>> \in bins \cap cues

(* With packed refs it holds whatever uploads fail and however many references
   a push sets. *)
PackedRefsDurable == packedRefs => RefsDurable

(* A .cue in the bucket has its .bin, whatever fails or dies between the two. *)
CueHasBin == cues \subseteq bins

(* What onUpdated is told are transitions this push really made, from the old
   value it names, however pushes interleave and whatever answers are lost. *)
ToldWhatLanded == packedRefs => \A p \in Push : told[p] \subseteq landed[p]

(* Slots are taken exactly by the pushes past admit, on every way out. *)
SlotsAccounted ==
    \A d \in Daemon : slots[d] = Cardinality({p \in Push : host[p] = d /\ pc[p] \in Holding})

(* A push whose client sends no more of its pack, and one that queues where such
   pushes hold every slot. *)
Stalled(p) == pc[p] = "unpacking"
Outwaited(p) ==
    /\ pc[p] = "queued"
    /\ Cardinality({q \in Push : host[q] = host[p] /\ Stalled(q)}) = MaxPushes

(* In the end every upload settles and every push is over, except where a client
   stopped sending: such a push keeps its slot, and others wait for it.  Nobody
   waits for a flush for ever, and a slot that was given up reaches whoever waits
   for it (admit, uploader.flush). *)
PushesEnd ==
    <>[]\A p \in Push :
        /\ Settled(p)
        /\ pc[p] \in {"idle"} \cup Over \/ Stalled(p) \/ Outwaited(p)
=============================================================================
