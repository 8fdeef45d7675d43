------------------------------ MODULE PushProofs ------------------------------
(***************************************************************************)
(* Proofs about pushes, for any number of pushes, daemons, names, values   *)
(* and containers.  The argument for the references runs along the path of *)
(* one push: an upload that fails leaves upErr set until Flush takes it,   *)
(* so a push that gets to "committing" has only complete containers, and   *)
(* from there on it seals no more.  The argument for the event of a push   *)
(* is about the stack of collectNew: its frames descend from the new       *)
(* target, and what a frame is past is listed or was reachable before.     *)
(***************************************************************************)
EXTENDS ReceivePack, PushEvents, TLAPS, FiniteSetTheorems

(* The part of the state the arguments below speak of. *)
Shape ==
    /\ packedRefs \in BOOLEAN
    /\ pc \in [Push -> {"idle", "queued"} \cup Holding \cup Over]
    /\ req \in [Push -> Requests \cup {<<>>}]
    /\ job \in [Push -> [Container -> JobState]]
    /\ upErr \in [Push -> BOOLEAN]
    /\ status \in [Push -> [Name -> Status]]
    /\ told \in [Push -> SUBSET Command]
    /\ landed \in [Push -> SUBSET Command]
    /\ setBy \in [Name -> Push \cup {NoPush}]

(* A job past its .bin has it in the bucket, one that is done has both. *)
UploadsInOrder ==
    /\ cues \subseteq bins
    /\ \A p \in Push, k \in Container :
         /\ job[p][k] \in {"bin", "uploaded"} => <<p, k>> \in bins
         /\ job[p][k] = "uploaded" => <<p, k>> \in cues

Early == {"idle", "queued", "unpacking", "validating", "flushing"}
Loose == {"oneByOne", "looseFlush", "loosePut", "looseDelete"}
Complete(p) == \A k \in Container : job[p][k] \in {"none", "uploaded"}

(* Why a push that commits has flushed everything it sealed. *)
FlushedFirst ==
    /\ \A p \in Push : pc[p] \notin Loose
    /\ \A p \in Push : pc[p] \in {"committing", "cleanup"} => Complete(p)
    /\ \A p \in Push, k \in Container :
         /\ job[p][k] = "failed" /\ pc[p] \in Early => upErr[p]
         /\ job[p][k] = "lost" => pc[p] \in Over
    /\ \A n \in Name, q \in Push : setBy[n] = q /\ q # NoPush =>
         /\ Complete(q)
         /\ pc[q] \in {"cleanup", "reporting"} \cup Over

-----------------------------------------------------------------------------
(* The commands of a push name each reference once. *)
LEMMA CommandsDistinct ==
    ASSUME Shape, NEW p \in Push
    PROVE  /\ Commands(p) \subseteq Command
           /\ \A c, d \in Commands(p) : c.name = d.name => c = d
<1>1. req[p] \in Requests \cup {<<>>}
  BY Zenon DEF Shape
<1>2. CASE req[p] = <<>>
  BY <1>2 DEF Commands
<1>3. CASE req[p] \in Requests
  <2>1. req[p] \in Seq(Command)
    BY <1>3, ReceivePackAssumption, Zenon
  <2>2. Commands(p) \subseteq Command
    BY <2>1 DEF Commands
  <2>3. \A i, j \in 1 .. Len(req[p]) : req[p][i].name = req[p][j].name => i = j
    BY <1>3, ReceivePackAssumption, Zenon
  <2> QED
    BY <2>2, <2>3, Zenon DEF Commands
<1> QED
  BY <1>1, <1>2, <1>3, Zenon

(* The state has its shape at the start. *)
LEMMA ShapeInit == Init => Shape
BY ReceivePackAssumption DEF Init, Shape, JobState, Status

(* Forgetting keeps the shape of what is forgotten. *)
LEMMA ForgetShape ==
    ASSUME Shape, NEW P, Forget(P)
    PROVE  /\ req' \in [Push -> Requests \cup {<<>>}]
           /\ status' \in [Push -> [Name -> Status]]
           /\ \A p \in Push : IF p \in P THEN \A n \in Name : status'[p][n] = "none"
                                         ELSE req'[p] = req[p] /\ status'[p] = status[p]
BY Zenon DEF Shape, Forget, Status

(* Setting the status of some names gives a status for every name. *)
LEMMA SetStatusShape ==
    ASSUME Shape, NEW p \in Push, NEW S, NEW x \in Status, SetStatus(p, S, x)
    PROVE  /\ status' \in [Push -> [Name -> Status]]
           /\ \A q \in Push \ {p} : status'[q] = status[q]
           /\ \A n \in Name : status'[p][n] = IF n \in S THEN x ELSE status[p][n]
BY Zenon DEF Shape, SetStatus, Status

(* The history stays a record of pushes and commands. *)
LEMMA RecordShape ==
    ASSUME Shape, NEW p \in Push, Record(p)
    PROVE  /\ landed' \in [Push -> SUBSET Command]
           /\ setBy' \in [Name -> Push \cup {NoPush}]
           /\ \A q \in Push : landed[q] \subseteq landed'[q]
           /\ \A n \in Name : setBy'[n] \in {p, setBy[n]}
BY Zenon DEF Shape, Record

(* Every step keeps the shape of the state. *)
LEMMA ShapeNext == Shape /\ [Next]_vars => Shape'
<1> SUFFICES ASSUME Shape, [Next]_vars PROVE Shape'
  BY Zenon
<1> USE DEF bucket, history
<1>1. ASSUME NEW p \in Push, Connect(p) PROVE Shape'
  BY <1>1 DEF Shape, Connect, GoTo, Holding
<1>2. ASSUME NEW p \in Push, Refuse(p) PROVE Shape'
  BY <1>2, ForgetShape, Zenon DEF Shape, Refuse, GoTo, Over
<1>3. ASSUME NEW p \in Push, Seal(p) PROVE Shape'
  BY <1>3, Zenon DEF Shape, Seal, JobState
<1>4. ASSUME NEW p \in Push, Admit(p) \/ Unpacked(p) \/ StartOneByOne(p) PROVE Shape'
  BY <1>4, Zenon DEF Shape, Admit, Unpacked, StartOneByOne, GoTo, Holding
<1>5. ASSUME NEW p \in Push, UnpackFailed(p) PROVE Shape'
  <2>1. job' \in [Push -> [Container -> JobState]]
    BY <1>5, Zenon DEF Shape, UnpackFailed, JobState
  <2> QED
    BY <1>5, <2>1, ForgetShape, Zenon DEF Shape, UnpackFailed, Finish, GoTo, Over
<1>6. ASSUME NEW p \in Push, NoReport(p) PROVE Shape'
  BY <1>6, ForgetShape, Zenon DEF Shape, NoReport, Finish, GoTo, Over
<1>7. ASSUME NEW p \in Push, Validate(p) PROVE Shape'
  <2>1. PICK S : SetStatus(p, S, "error")
    BY <1>7, Zenon DEF Validate
  <2>2. status' \in [Push -> [Name -> Status]]
    BY <2>1, SetStatusShape, Zenon DEF Status
  <2> QED
    BY <1>7, <2>2, Zenon DEF Shape, Validate, GoTo, Holding
<1>8. ASSUME NEW p \in Push, Flush(p) PROVE Shape'
  <2>1. status' = status \/ SetStatus(p, Names(Staged(p)), "error")
    BY <1>8, Zenon DEF Flush
  <2>2. status' \in [Push -> [Name -> Status]]
    BY <2>1, SetStatusShape, Zenon DEF Status, Shape
  <2> QED
    BY <1>8, <2>2, Zenon DEF Shape, Flush, GoTo, Holding
<1>9. ASSUME NEW p \in Push, CommitLands(p) PROVE Shape'
  <2>1. status' = status \/ \E x \in Status : SetStatus(p, Names(Staged(p)), x)
    BY <1>9, Zenon DEF CommitLands, Status
  <2>2. status' \in [Push -> [Name -> Status]]
    BY <2>1, SetStatusShape, Zenon DEF Shape
  <2>3. pc' \in [Push -> {"idle", "queued"} \cup Holding \cup Over]
    BY <1>9, Zenon DEF Shape, CommitLands, GoTo, Holding
  <2> QED
    BY <1>9, <2>2, <2>3, RecordShape, Zenon DEF Shape, CommitLands
<1>10. ASSUME NEW p \in Push, CommitRefused(p) PROVE Shape'
  <2>1. status' \in [Push -> [Name -> Status]]
    BY <1>10, SetStatusShape, Zenon DEF CommitRefused, Status
  <2> QED
    BY <1>10, <2>1, Zenon DEF Shape, CommitRefused, GoTo, Holding
<1>11. ASSUME NEW p \in Push, CheckVisible(p) PROVE Shape'
  <2>1. status' \in [Push -> [Name -> Status]]
    BY <1>11 DEF CheckVisible, Status, Shape
  <2> QED
    BY <1>11, <2>1, Zenon DEF Shape, CheckVisible, GoTo, Holding
<1>12. ASSUME NEW p \in Push, NEW x \in Status, Answer(p, x)
       PROVE  /\ status' \in [Push -> [Name -> Status]]
              /\ pc' \in [Push -> {"idle", "queued"} \cup Holding \cup Over]
  <2>1. status' \in [Push -> [Name -> Status]]
    BY <1>12, SetStatusShape, Zenon DEF Answer
  <2> QED
    BY <1>12, <2>1, Zenon DEF Answer, GoTo, Holding, Shape
<1>13. ASSUME NEW p \in Push, ValidateNext(p) PROVE Shape'
  <2>1. Answer(p, "error") \/ (GoTo(p, IF Now(p).new = Absent THEN "looseDelete" ELSE "looseFlush") /\ status' = status)
    BY <1>13, Zenon DEF ValidateNext
  <2>2. /\ status' \in [Push -> [Name -> Status]]
        /\ pc' \in [Push -> {"idle", "queued"} \cup Holding \cup Over]
    BY <2>1, <1>12, Zenon DEF Status, GoTo, Holding, Shape
  <2> QED
    BY <1>13, <2>2, Zenon DEF Shape, ValidateNext
<1>14. ASSUME NEW p \in Push, LooseFlush(p) PROVE Shape'
  <2>1. Answer(p, "error") \/ (GoTo(p, "loosePut") /\ status' = status)
    BY <1>14, Zenon DEF LooseFlush
  <2>2. /\ status' \in [Push -> [Name -> Status]]
        /\ pc' \in [Push -> {"idle", "queued"} \cup Holding \cup Over]
    BY <2>1, <1>12, Zenon DEF Status, GoTo, Holding, Shape
  <2> QED
    BY <1>14, <2>2, Zenon DEF Shape, LooseFlush
<1>15. ASSUME NEW p \in Push, LooseWrite(p) PROVE Shape'
  <2>1. Answer(p, "error") \/ Answer(p, "ok")
    BY <1>15, Zenon DEF LooseWrite
  <2>2. /\ status' \in [Push -> [Name -> Status]]
        /\ pc' \in [Push -> {"idle", "queued"} \cup Holding \cup Over]
    BY <2>1, <1>12, Zenon DEF Status
  <2>3. Record(p) \/ UNCHANGED history
    BY <1>15, Zenon DEF LooseWrite
  <2>4. /\ landed' \in [Push -> SUBSET Command]
        /\ setBy' \in [Name -> Push \cup {NoPush}]
    BY <2>3, RecordShape, Zenon DEF Shape
  <2>5. UNCHANGED <<packedRefs, req, job, upErr, told>>
    BY <1>15, Zenon DEF LooseWrite
  <2> QED
    BY <2>2, <2>4, <2>5, Zenon DEF Shape
<1>16. ASSUME NEW p \in Push, Report(p) PROVE Shape'
  <2>1. SuccessfulRefUpdates(p) \subseteq Command
    BY CommandsDistinct, Zenon DEF SuccessfulRefUpdates
  <2> QED
    BY <1>16, <2>1, ForgetShape, Zenon DEF Shape, Report, Finish, GoTo, Over
<1>17. ASSUME NEW p \in Push, NEW k \in Container, Upload(p, k) PROVE Shape'
  <2>1. PutBin(p, k) \/ PutCue(p, k) \/ UploadFailed(p, k)
    BY <1>17, Zenon DEF Upload
  <2>2. job' \in [Push -> [Container -> JobState]]
    <3>1. PICK x \in JobState : job' = [job EXCEPT ![p][k] = x]
      BY <2>1, Zenon DEF PutBin, PutCue, UploadFailed, JobState
    <3> QED
      BY <3>1, Zenon DEF Shape
  <2>3. upErr' \in [Push -> BOOLEAN]
    BY <2>1, Zenon DEF Shape, PutBin, PutCue, UploadFailed
  <2>4. UNCHANGED <<packedRefs, pc, req, status, told, landed, setBy>>
    BY <2>1, Zenon DEF PutBin, PutCue, UploadFailed
  <2> QED
    BY <2>2, <2>3, <2>4, Zenon DEF Shape
<1>18. ASSUME NEW d \in Daemon, Crash(d) PROVE Shape'
  <2>1. job' \in [Push -> [Container -> JobState]]
    BY <1>18, Zenon DEF Shape, Crash, JobState
  <2>2. pc' \in [Push -> {"idle", "queued"} \cup Holding \cup Over]
    BY <1>18, Zenon DEF Shape, Crash, Over
  <2>3. PICK P : Forget(P)
    BY <1>18, Zenon DEF Crash
  <2> QED
    BY <1>18, <2>1, <2>2, <2>3, ForgetShape, Zenon DEF Shape, Crash
<1>19. CASE UNCHANGED vars
  BY <1>19, Zenon DEF Shape, vars
<1> QED
  BY <1>1, <1>2, <1>3, <1>4, <1>5, <1>6, <1>7, <1>8, <1>9, <1>10, <1>11, <1>13, <1>14,
     <1>15, <1>16, <1>17, <1>18, <1>19 DEF Next, Serve, Proceed

-----------------------------------------------------------------------------
(* Uploads. *)

(* Every step keeps the order of the two uploads. *)
LEMMA UploadsNext == Shape /\ UploadsInOrder /\ [Next]_vars => UploadsInOrder'
<1> SUFFICES ASSUME Shape, UploadsInOrder, [Next]_vars PROVE UploadsInOrder'
  BY Zenon
<1> USE DEF bucket
<1>1. ASSUME NEW p \in Push, Seal(p) PROVE UploadsInOrder'
  BY <1>1, Zenon DEF Seal, UploadsInOrder, Shape
<1>2. ASSUME NEW p \in Push, UnpackFailed(p) PROVE UploadsInOrder'
  <2>1. \A q \in Push, k \in Container : job'[q][k] \in {job[q][k], "failed"}
    BY <1>2, Zenon DEF UnpackFailed, Shape
  <2> QED
    BY <1>2, <2>1, Zenon DEF UnpackFailed, UploadsInOrder
<1>3. ASSUME NEW p \in Push, NEW k \in Container, Upload(p, k) PROVE UploadsInOrder'
  <2>1. CASE PutBin(p, k)
    BY <2>1, Zenon DEF PutBin, UploadsInOrder, Shape
  <2>2. CASE PutCue(p, k)
    BY <2>2, Zenon DEF PutCue, UploadsInOrder, Shape
  <2>3. CASE UploadFailed(p, k)
    <3>1. bins \subseteq bins' /\ cues \subseteq cues' /\ cues' \subseteq bins'
      BY <2>3, Zenon DEF UploadFailed, UploadsInOrder
    <3>2. \A q \in Push, i \in Container : job'[q][i] \in {job[q][i], "failed"}
      BY <2>3, Zenon DEF UploadFailed, Shape
    <3> QED
      BY <3>1, <3>2, Zenon DEF UploadsInOrder
  <2> QED
    BY <1>3, <2>1, <2>2, <2>3, Zenon DEF Upload
<1>4. ASSUME NEW d \in Daemon, Crash(d) PROVE UploadsInOrder'
  <2>1. \A q \in Push, k \in Container : job'[q][k] \in {job[q][k], "lost"}
    BY <1>4, Zenon DEF Crash
  <2> QED
    BY <1>4, <2>1, Zenon DEF Crash, UploadsInOrder
<1>5. CASE UNCHANGED <<bins, cues, job>>
  BY <1>5, Zenon DEF UploadsInOrder
<1>6. ASSUME NEW p \in Push,
             Connect(p) \/ Refuse(p) \/ (Serve(p) /\ ~UnpackFailed(p))
      PROVE  UNCHANGED <<bins, cues, job>>
  BY <1>6, Zenon DEF Connect, Refuse, Serve, Proceed, Admit, Unpacked, NoReport, Validate, Flush, CommitLands,
     CommitRefused, CheckVisible, StartOneByOne, ValidateNext, LooseFlush, LooseWrite, Report
<1>7. CASE UNCHANGED vars
  BY <1>5, <1>7, Zenon DEF vars
<1> QED
  BY <1>1, <1>2, <1>3, <1>4, <1>5, <1>6, <1>7, Zenon DEF Next

(* For every number of containers and however uploads fail or daemons die, a .cue
   in the bucket has its .bin: packJob.run puts the .bin first. *)
THEOREM CuesHaveBins == Spec => []CueHasBin
<1>1. Init => UploadsInOrder
  BY DEF Init, UploadsInOrder
<1>2. UploadsInOrder => CueHasBin
  BY Zenon DEF UploadsInOrder, CueHasBin
<1> QED
  BY ShapeInit, ShapeNext, UploadsNext, <1>1, <1>2, PTL DEF Spec

-----------------------------------------------------------------------------
(* The flush. *)

(* A push moves on without touching uploads: fine unless it moves to or from the
   wrong place. *)
LEMMA MoveKeepsFlushed ==
    ASSUME Shape, FlushedFirst, NEW p \in Push, NEW where, GoTo(p, where),
           UNCHANGED <<job, upErr, setBy>>,
           where \notin Loose,
           where \in {"committing", "cleanup"} => Complete(p),
           where \in Early => pc[p] \in Early,
           pc[p] \in {"cleanup", "reporting"} \cup Over => where \in {"cleanup", "reporting"} \cup Over,
           pc[p] \in Over => where \in Over
    PROVE  FlushedFirst'
<1>1. \A q \in Push : pc'[q] = IF q = p THEN where ELSE pc[q]
  BY Zenon DEF GoTo, Shape
<1>2. \A q \in Push : Complete(q)' <=> Complete(q)
  BY Zenon DEF Complete
<1> QED
  BY <1>1, <1>2 DEF FlushedFirst

(* Every step keeps what flush established before the reference update. *)
LEMMA FlushNext == packedRefs /\ Shape /\ FlushedFirst /\ [Next]_vars => FlushedFirst'
<1> SUFFICES ASSUME packedRefs, Shape, FlushedFirst, [Next]_vars PROVE FlushedFirst'
  BY Zenon
<1> USE DEF bucket, history
<1>1. ASSUME NEW p \in Push, Connect(p) \/ Refuse(p) \/ Admit(p) \/ Unpacked(p) \/ NoReport(p)
      PROVE  FlushedFirst'
  <2>1. PICK where \in {"queued", "done", "unpacking", "validating"} :
          /\ GoTo(p, where)
          /\ UNCHANGED <<job, upErr, setBy>>
          /\ pc[p] \in Early
    BY <1>1, Zenon DEF Connect, Refuse, Admit, Unpacked, NoReport, Finish, Early
  <2> QED
    BY <2>1, MoveKeepsFlushed, Zenon DEF Early, Loose, Over
<1>2. ASSUME NEW p \in Push, Seal(p) PROVE FlushedFirst'
  <2>1. \A q \in Push, k \in Container : job'[q][k] = job[q][k] \/ (q = p /\ job'[q][k] = "queued")
    BY <1>2, Zenon DEF Seal, Shape
  <2>2. \A q \in Push \ {p} : Complete(q) => Complete(q)'
    BY <2>1, Zenon DEF Complete
  <2>3. \A n \in Name : p # NoPush => setBy[n] # p
    BY <1>2, Zenon DEF Seal, FlushedFirst, Over
  <2>4. UNCHANGED <<pc, upErr, setBy>>
    BY <1>2, Zenon DEF Seal
  <2>5. pc[p] = "unpacking"
    BY <1>2, Zenon DEF Seal
  <2> QED
    BY <2>1, <2>2, <2>3, <2>4, <2>5 DEF FlushedFirst
<1>3. ASSUME NEW p \in Push, UnpackFailed(p) PROVE FlushedFirst'
  <2>1. \A q \in Push, k \in Container : job'[q][k] = job[q][k] \/ (q = p /\ job'[q][k] = "failed")
    BY <1>3, Zenon DEF UnpackFailed, Shape
  <2>2. \A q \in Push \ {p} : Complete(q) => Complete(q)'
    BY <2>1, Zenon DEF Complete
  <2>3. \A n \in Name : p # NoPush => setBy[n] # p
    BY <1>3, Zenon DEF UnpackFailed, FlushedFirst, Over
  <2>4. UNCHANGED <<upErr, setBy>> /\ \A q \in Push : pc'[q] = IF q = p THEN "done" ELSE pc[q]
    BY <1>3, Zenon DEF UnpackFailed, Finish, GoTo, Shape
  <2> QED
    BY <2>1, <2>2, <2>3, <2>4 DEF FlushedFirst, Early, Loose, Over
<1>4. ASSUME NEW p \in Push, Validate(p) \/ CommitRefused(p) \/ CheckVisible(p) \/ Report(p)
      PROVE  FlushedFirst'
  <2>1. PICK where \in {"flushing", "reporting", "done"} :
          /\ GoTo(p, where)
          /\ UNCHANGED <<job, upErr, setBy>>
          /\ where = "flushing" => pc[p] \in Early
          /\ where = "reporting" => pc[p] \in {"validating", "committing", "cleanup"}
    BY <1>4, Zenon DEF Validate, CommitRefused, CheckVisible, Report, Finish, Early
  <2> QED
    BY <2>1, MoveKeepsFlushed, Zenon DEF Early, Loose, Over
<1>5. ASSUME NEW p \in Push, Flush(p) PROVE FlushedFirst'
  <2>1. /\ pc[p] = "flushing"
        /\ UNCHANGED <<job, setBy>>
        /\ \A q \in Push : pc'[q] = IF q = p THEN IF upErr[p] THEN "reporting" ELSE "committing"
                                             ELSE pc[q]
        /\ \A q \in Push \ {p} : upErr'[q] = upErr[q]
    BY <1>5, Zenon DEF Flush, GoTo, Shape
  <2>2. ASSUME ~upErr[p], NEW k \in Container PROVE job[p][k] \in {"none", "uploaded"}
    <3>1. job[p][k] \in JobState /\ job[p][k] \notin {"queued", "bin"}
      BY <1>5, Zenon DEF Flush, Settled, Shape
    <3>2. job[p][k] # "failed" /\ job[p][k] # "lost"
      BY <2>1, <2>2, Zenon DEF FlushedFirst, Early, Over
    <3> QED
      BY <3>1, <3>2, Zenon DEF JobState
  <2>3. \A q \in Push : Complete(q)' <=> Complete(q)
    BY <2>1, Zenon DEF Complete
  <2>4. \A n \in Name : p # NoPush => setBy[n] # p
    BY <2>1, Zenon DEF FlushedFirst, Over
  <2>5. ~upErr[p] => Complete(p)
    BY <2>2, Zenon DEF Complete
  <2> QED
    BY <2>1, <2>3, <2>4, <2>5 DEF FlushedFirst, Early, Loose, Over
<1>6. ASSUME NEW p \in Push, CommitLands(p) PROVE FlushedFirst'
  <2>1. PICK where \in {"cleanup", "reporting"} : GoTo(p, where)
    BY <1>6, Zenon DEF CommitLands
  <2>2. \A q \in Push : pc'[q] = IF q = p THEN where ELSE pc[q]
    BY <2>1, Zenon DEF GoTo, Shape
  <2>3. pc[p] = "committing" /\ Complete(p) /\ UNCHANGED <<job, upErr>>
    BY <1>6, Zenon DEF CommitLands, FlushedFirst
  <2>4. \A n \in Name : setBy'[n] \in {p, setBy[n]}
    BY ZenonT(30), <1>6, RecordShape DEF CommitLands
  <2>5. \A q \in Push : Complete(q)' <=> Complete(q)
    BY <2>3, Zenon DEF Complete
  <2>6. \A n \in Name, q \in Push : setBy'[n] = q /\ q # NoPush =>
          Complete(q)' /\ pc'[q] \in {"cleanup", "reporting"} \cup Over
    BY <2>2, <2>3, <2>4, <2>5 DEF FlushedFirst
  <2> QED
    BY <2>2, <2>3, <2>5, <2>6, Zenon DEF FlushedFirst, Early, Loose, Over
<1>7. ASSUME NEW p \in Push, NEW k \in Container, Upload(p, k) PROVE FlushedFirst'
  <2>1. PutBin(p, k) \/ PutCue(p, k) \/ UploadFailed(p, k)
    BY <1>7, Zenon DEF Upload
  <2>2. PICK x \in {"bin", "uploaded", "failed"} :
          /\ job' = [job EXCEPT ![p][k] = x]
          /\ job[p][k] \in {"queued", "bin"}
          /\ UNCHANGED <<pc, setBy>>
          /\ \/ x # "failed" /\ UNCHANGED upErr
             \/ upErr' = [upErr EXCEPT ![p] = TRUE]
    BY <2>1, Zenon DEF PutBin, PutCue, UploadFailed
  <2>6. \A q \in Push, i \in Container : job'[q][i] = IF q = p /\ i = k THEN x ELSE job[q][i]
    BY <2>2, Zenon DEF Shape
  <2>7. /\ \A q \in Push : upErr[q] => upErr'[q]
        /\ x = "failed" => upErr'[p]
    BY <2>2, Zenon DEF Shape
  <2>3. ~Complete(p)
    BY <2>2, Zenon DEF Complete
  <2>4. \A q \in Push : Complete(q) => Complete(q)'
    BY <2>3, <2>6, Zenon DEF Complete
  <2> QED
    BY <2>2, <2>4, <2>6, <2>7 DEF FlushedFirst
<1>8. ASSUME NEW d \in Daemon, Crash(d) PROVE FlushedFirst'
  <2>1. /\ UNCHANGED <<upErr, setBy>>
        /\ \A q \in Push : pc'[q] = pc[q] \/ pc'[q] = "dead"
        /\ \A q \in Push, k \in Container :
             job'[q][k] = job[q][k] \/ (/\ job'[q][k] = "lost" /\ pc'[q] \in Over
                                        /\ job[q][k] \in {"queued", "bin"})
    BY <1>8, Zenon DEF Crash, Over
  <2>2. \A q \in Push : Complete(q) => Complete(q)'
    BY <2>1, Zenon DEF Complete
  <2> QED
    BY <2>1, <2>2 DEF FlushedFirst, Early, Loose, Over
<1>9. ASSUME NEW p \in Push, StartOneByOne(p) \/ ValidateNext(p) \/ LooseFlush(p) \/ LooseWrite(p)
      PROVE  FALSE
  BY <1>9, Zenon DEF StartOneByOne, ValidateNext, LooseFlush, LooseWrite, FlushedFirst, Loose
<1>10. CASE UNCHANGED vars
  BY <1>10, Zenon DEF vars, FlushedFirst, Complete
<1> QED
  BY <1>1, <1>2, <1>3, <1>4, <1>5, <1>6, <1>7, <1>8, <1>9, <1>10, Zenon DEF Next, Serve, Proceed

(* The setting of -packed-refs does not change. *)
LEMMA FlagFixed == [Next]_vars => packedRefs' = packedRefs
BY ZenonT(30) DEF Next, vars, Serve, Proceed, Upload, Connect, Refuse, Seal, Admit, Unpacked, UnpackFailed, NoReport,
   Validate, Flush, CommitLands, CommitRefused, CheckVisible, StartOneByOne, ValidateNext,
   LooseFlush, LooseWrite, Report, PutBin, PutCue, UploadFailed, Crash

(* With packed refs, however many containers a push has, whatever uploads fail and
   however pushes interleave: a reference is set only to what is completely in the
   bucket (flush before UpdateReferencesChecked). *)
THEOREM PackedRefsAreDurable == Spec => []PackedRefsDurable
<1> DEFINE Inv == Shape /\ UploadsInOrder /\ (packedRefs => FlushedFirst)
<1>1. Init => Inv
  <2> SUFFICES ASSUME Init PROVE UploadsInOrder /\ FlushedFirst
    BY ShapeInit, Zenon
  <2> QED
    BY Zenon DEF Init, UploadsInOrder, FlushedFirst, Loose, Early, Over, Complete
<1>2. Inv /\ [Next]_vars => Inv'
  BY ShapeNext, UploadsNext, FlushNext, FlagFixed, Zenon
<1>3. Inv => PackedRefsDurable
  <2> SUFFICES ASSUME Inv, packedRefs, NEW n \in Name, setBy[n] # NoPush, NEW k \in Sealed(setBy[n])
               PROVE  <<setBy[n], k>> \in bins \cap cues
    BY Zenon DEF PackedRefsDurable, RefsDurable
  <2>1. setBy[n] \in Push /\ k \in Container /\ job[setBy[n]][k] # "none"
    BY Zenon DEF Shape, Sealed
  <2>2. Complete(setBy[n])
    BY <2>1, Zenon DEF FlushedFirst
  <2>3. job[setBy[n]][k] = "uploaded"
    BY <2>1, <2>2, Zenon DEF Complete
  <2> QED
    BY <2>1, <2>3, Zenon DEF UploadsInOrder
<1> HIDE DEF Inv
<1> QED
  BY <1>1, <1>2, <1>3, PTL DEF Spec
-----------------------------------------------------------------------------
(***************************************************************************)
(* What a push reports, and its slot.                                      *)
(***************************************************************************)

(* Why a status of "ok" stands for a transition. *)
Honest(p) ==
    /\ pc[p] \notin Loose
    /\ pc[p] \in Early \cup {"committing", "cleanup"} => \A n \in Name : status[p][n] # "ok"
    /\ pc[p] = "cleanup" => \A c \in Staged(p) : c.old # c.new => c \in landed[p]
    /\ pc[p] = "reporting" => SuccessfulRefUpdates(p) \subseteq landed[p]
    /\ told[p] \subseteq landed[p]

(* A push that does not move stays honest: the record only grows. *)
LEMMA OthersHonest ==
    ASSUME NEW q \in Push, Honest(q),
           pc'[q] = pc[q], status'[q] = status[q], req'[q] = req[q], told'[q] = told[q],
           landed[q] \subseteq landed'[q]
    PROVE  Honest(q)'
<1>1. Staged(q)' = Staged(q) /\ SuccessfulRefUpdates(q)' = SuccessfulRefUpdates(q)
  BY Zenon DEF Staged, SuccessfulRefUpdates, Commands
<1> QED
  BY <1>1, Zenon DEF Honest

(* A batch that lands makes the transition of every command it holds. *)
LEMMA StagedLands ==
    ASSUME Shape, NEW p \in Push, CommitLands(p), NEW c \in Staged(p), c.old # c.new
    PROVE  c \in landed'[p]
<1>1. c \in Command /\ \A d \in Staged(p) : d.name = c.name => d = c
  BY CommandsDistinct, Zenon DEF Staged
<1>2. (CHOOSE d \in Staged(p) : d.name = c.name) = c
  BY <1>1, Zenon
<1>3. c.name \in Name /\ c.old \in Value \cup {Absent} /\ c.new \in Value \cup {Absent}
  BY <1>1, Zenon DEF Command
<1>4. /\ BatchOf(p).upd[c.name] = c.new
      /\ BatchOf(p).expect[c.name] = c.old
      /\ BatchOf(p).strict = TRUE
  BY <1>2, <1>3, Zenon DEF BatchOf
<1>5. Refs!Update(BatchOf(p)) /\ Record(p)
  BY Zenon DEF CommitLands
<1>6. refs[c.name] = c.old
  BY <1>3, <1>4, <1>5, ReceivePackAssumption DEF Refs!Update, Refs!Current
<1>7. refs'[c.name] = c.new
  BY <1>3, <1>4, <1>5, ReceivePackAssumption DEF Refs!Update
<1> QED
  BY <1>1, <1>5, <1>6, <1>7, Zenon DEF Record, Shape

(* Every step keeps the statuses of a push true. *)
LEMMA HonestNext ==
    ASSUME packedRefs, Shape, \A p \in Push : Honest(p), [Next]_vars, NEW q \in Push
    PROVE  Honest(q)'
<1> USE DEF bucket, history
<1>0. Honest(q)
  BY Zenon
<1>1. ASSUME NEW p \in Push, Connect(p) \/ Admit(p) \/ Unpacked(p) PROVE Honest(q)'
  <2>1. /\ pc[p] \in Early /\ UNCHANGED <<status, told, landed>>
        /\ pc' = [pc EXCEPT ![p] = pc'[p]] /\ pc'[p] \in Early
        /\ \A r \in Push \ {p} : req'[r] = req[r]
    BY <1>1, Zenon DEF Connect, Admit, Unpacked, GoTo, Early, Shape
  <2>2. CASE q = p
    BY <1>0, <2>1, <2>2, Zenon DEF Honest, Early, Loose
  <2>3. CASE q # p
    BY <1>0, <2>1, <2>3, OthersHonest, Zenon DEF Shape
  <2> QED
    BY <2>2, <2>3, Zenon
<1>2. ASSUME NEW p \in Push, Refuse(p) \/ UnpackFailed(p) \/ NoReport(p) PROVE Honest(q)'
  <2>1. Forget({p}) /\ GoTo(p, "done") /\ UNCHANGED <<told, landed>>
    BY <1>2, Zenon DEF Refuse, UnpackFailed, NoReport, Finish
  <2>2. CASE q = p
    BY <1>0, <2>1, <2>2, Zenon DEF Honest, GoTo, Early, Loose, Shape
  <2>3. CASE q # p
    <3>1. pc'[q] = pc[q] /\ status'[q] = status[q] /\ req'[q] = req[q]
      BY <2>1, <2>3, ForgetShape DEF GoTo, Shape
    <3> QED
      BY <1>0, <2>1, <3>1, OthersHonest, Zenon
  <2> QED
    BY <2>2, <2>3, Zenon
<1>3. ASSUME NEW p \in Push, Validate(p) \/ Flush(p) \/ CommitRefused(p) PROVE Honest(q)'
  <2>1. PICK S : status' = status \/ SetStatus(p, S, "error")
    BY <1>3, Zenon DEF Validate, Flush, CommitRefused
  <2>2. PICK where \in {"flushing", "committing", "reporting"} : GoTo(p, where)
    BY <1>3, Zenon DEF Validate, Flush, CommitRefused
  <2>3. pc[p] \in Early \cup {"committing"} /\ UNCHANGED <<req, told, landed>>
    BY <1>3, Zenon DEF Validate, Flush, CommitRefused, Early
  <2>4. \A n \in Name : status[p][n] # "ok" /\ status'[p][n] # "ok"
    BY <2>1, <2>3, SetStatusShape DEF Honest, Status, Shape
  <2>5. CASE q = p
    <3>1. pc'[p] = where
      BY <2>2, Zenon DEF GoTo, Shape
    <3>2. SuccessfulRefUpdates(p)' = {}
      <4>1. \A c \in Commands(p) : c.name \in Name
        BY CommandsDistinct, Zenon DEF Command
      <4>2. Commands(p)' = Commands(p)
        BY <2>3, Zenon DEF Commands
      <4> QED
        BY <2>4, <4>1, <4>2, Zenon DEF SuccessfulRefUpdates
    <3> QED
      BY <1>0, <2>3, <2>4, <2>5, <3>1, <3>2, Zenon DEF Honest, Loose
  <2>6. CASE q # p
    <3>1. pc'[q] = pc[q] /\ status'[q] = status[q]
      BY <2>1, <2>2, <2>6, SetStatusShape DEF GoTo, Shape, Status
    <3> QED
      BY <1>0, <2>3, <3>1, OthersHonest, Zenon
  <2> QED
    BY <2>5, <2>6, Zenon
<1>4. ASSUME NEW p \in Push, CommitLands(p) PROVE Honest(q)'
  <2>1. UNCHANGED <<req, told>> /\ pc[p] = "committing" /\ Record(p)
    BY <1>4, Zenon DEF CommitLands
  <2>2. \A r \in Push : landed[r] \subseteq landed'[r]
    BY <2>1, RecordShape, Zenon
  <2>3. Commands(p)' = Commands(p) /\ \A c \in Commands(p) : c.name \in Name
    BY <2>1, CommandsDistinct DEF Command, Commands
  <2>4. \A n \in Name : status[p][n] # "ok"
    BY <2>1, Zenon DEF Honest
  <2>5. CASE q = p
    <3>1. CASE GoTo(p, "cleanup") /\ UNCHANGED status
      <4>1. pc'[p] = "cleanup"
        BY <3>1, Zenon DEF GoTo, Shape
      <4>2. Staged(p)' = Staged(p)
        BY <2>3, <3>1, Zenon DEF Staged
      <4>3. \A c \in Staged(p) : c.old # c.new => c \in landed'[p]
        BY <1>4, StagedLands, Zenon
      <4> QED
        BY <1>0, <2>1, <2>2, <2>4, <2>5, <3>1, <4>1, <4>2, <4>3, Zenon DEF Honest, Loose
    <3>2. CASE /\ GoTo(p, "reporting")
               /\ SetStatus(p, Names(Staged(p)), "ok") \/ SetStatus(p, Names(Staged(p)), "error")
      <4>1. pc'[p] = "reporting"
        BY <3>2, Zenon DEF GoTo, Shape
      <4>2. \A n \in Name : status'[p][n] = "ok" => n \in Names(Staged(p))
        BY <2>4, <3>2, SetStatusShape DEF Status
      <4>3. ASSUME NEW c \in SuccessfulRefUpdates(p)' PROVE c \in landed'[p]
        <5>1. c \in Commands(p) /\ c.old # c.new /\ c.name \in Names(Staged(p))
          BY <2>3, <4>2, Zenon DEF SuccessfulRefUpdates
        <5>2. c \in Staged(p)
          BY <5>1, CommandsDistinct, Zenon DEF Names, Staged
        <5> QED
          BY <1>4, <5>1, <5>2, StagedLands, Zenon
      <4> QED
        BY <1>0, <2>1, <2>2, <2>5, <4>1, <4>3, Zenon DEF Honest, Early, Loose
    <3> QED
      BY <1>4, <3>1, <3>2, Zenon DEF CommitLands
  <2>6. CASE q # p
    <3>1. \/ status' = status
          \/ \E x \in Status : SetStatus(p, Names(Staged(p)), x)
      BY <1>4, Zenon DEF CommitLands, Status
    <3>2. status'[q] = status[q]
      BY <2>6, <3>1, SetStatusShape
    <3>3. pc'[q] = pc[q]
      BY <1>4, <2>6, Zenon DEF CommitLands, GoTo, Shape
    <3> QED
      BY <1>0, <2>1, <2>2, <3>2, <3>3, OthersHonest, Zenon
  <2> QED
    BY <2>5, <2>6, Zenon
<1>5. ASSUME NEW p \in Push, CheckVisible(p) PROVE Honest(q)'
  <2>1. /\ UNCHANGED <<req, told, landed>> /\ pc[p] = "cleanup"
        /\ \A r \in Push : pc'[r] = IF r = p THEN "reporting" ELSE pc[r]
    BY <1>5, Zenon DEF CheckVisible, GoTo, Shape
  <2>2. /\ \A r \in Push \ {p} : status'[r] = status[r]
        /\ \A n \in Name : n \notin Names(Staged(p)) => status'[p][n] = status[p][n]
    BY <1>5 DEF CheckVisible, Shape
  <2>3. CASE q = p
    <3>1. ASSUME NEW c \in SuccessfulRefUpdates(p)' PROVE c \in landed[p]
      <4>1. c \in Commands(p) /\ c.old # c.new /\ status'[p][c.name] = "ok"
        BY <2>1, Zenon DEF SuccessfulRefUpdates, Commands
      <4>2. c.name \in Name
        BY <4>1, CommandsDistinct, Zenon DEF Command
      <4>3. c.name \in Names(Staged(p))
        BY <2>1, <2>2, <4>1, <4>2 DEF Honest
      <4>4. c \in Staged(p)
        BY <4>1, <4>3, CommandsDistinct, Zenon DEF Names, Staged
      <4> QED
        BY <2>1, <4>1, <4>4, Zenon DEF Honest
    <3> QED
      BY <1>0, <2>1, <2>3, <3>1, Zenon DEF Honest, Early, Loose
  <2>4. CASE q # p
    BY <1>0, <2>1, <2>2, <2>4, OthersHonest, Zenon
  <2> QED
    BY <2>3, <2>4, Zenon
<1>6. ASSUME NEW p \in Push, Report(p) PROVE Honest(q)'
  <2>1. /\ Forget({p}) /\ pc[p] = "reporting" /\ UNCHANGED landed
        /\ \A r \in Push : pc'[r] = IF r = p THEN "done" ELSE pc[r]
        /\ \A r \in Push : told'[r] = IF r = p THEN SuccessfulRefUpdates(p) ELSE told[r]
    BY <1>6, Zenon DEF Report, Finish, GoTo, Shape
  <2>2. CASE q = p
    BY <1>0, <2>1, <2>2, Zenon DEF Honest, Early, Loose
  <2>3. CASE q # p
    BY <1>0, <2>1, <2>3, ForgetShape, OthersHonest
  <2> QED
    BY <2>2, <2>3, Zenon
<1>7. ASSUME NEW p \in Push, Seal(p) PROVE Honest(q)'
  BY <1>0, <1>7, OthersHonest, Zenon DEF Seal
<1>8. ASSUME NEW p \in Push, NEW k \in Container, Upload(p, k) PROVE Honest(q)'
  <2>1. UNCHANGED <<pc, req, status, told, landed>>
    BY <1>8, Zenon DEF Upload, PutBin, PutCue, UploadFailed
  <2> QED
    BY <1>0, <2>1, OthersHonest, Zenon
<1>9. ASSUME NEW d \in Daemon, Crash(d) PROVE Honest(q)'
  <2> DEFINE mine == {p \in Push : host[p] = d}
  <2>1. /\ Forget(mine) /\ UNCHANGED <<told, landed>>
        /\ pc'[q] = IF q \in mine /\ pc[q] \notin Over THEN "dead" ELSE pc[q]
    BY <1>9, Zenon DEF Crash
  <2>2. CASE q \in mine
    <3>1. pc'[q] \in Over
      BY <2>1, <2>2, Zenon DEF Over
    <3> QED
      BY <1>0, <2>1, <3>1, Zenon DEF Honest, Early, Loose, Over
  <2>3. CASE q \notin mine
    <3> HIDE DEF mine
    <3>1. status'[q] = status[q] /\ req'[q] = req[q]
      BY <2>1, <2>3, ForgetShape, Zenon
    <3> QED
      BY <1>0, <2>1, <2>3, <3>1, OthersHonest, Zenon
  <2> QED
    BY <2>2, <2>3, Zenon
<1>10. ASSUME NEW p \in Push, StartOneByOne(p) \/ ValidateNext(p) \/ LooseFlush(p) \/ LooseWrite(p)
       PROVE  FALSE
  BY <1>10, Zenon DEF StartOneByOne, ValidateNext, LooseFlush, LooseWrite, Honest, Loose
<1>11. CASE UNCHANGED vars
  BY <1>0, <1>11, OthersHonest, Zenon DEF vars
<1> QED
  BY <1>1, <1>2, <1>3, <1>4, <1>5, <1>6, <1>7, <1>8, <1>9, <1>10, <1>11 DEF Next, Serve, Proceed

(* With packed refs, what a push tells the webhooks and snapshots happened, from
   the value it names: the batch is conditional on every old value. *)
THEOREM ToldIsTrue == Spec => []ToldWhatLanded
<1> DEFINE Inv == Shape /\ (packedRefs => \A p \in Push : Honest(p))
<1>1. Init => Inv
  <2> SUFFICES ASSUME Init, NEW p \in Push PROVE Honest(p)
    BY ShapeInit, Zenon
  <2> QED
    BY Zenon DEF Init, Honest, Loose, Early
<1>2. Inv /\ [Next]_vars => Inv'
  <2> SUFFICES ASSUME Inv, [Next]_vars, packedRefs, NEW p \in Push PROVE Honest(p)'
    BY ShapeNext, FlagFixed, Zenon
  <2> QED
    BY HonestNext, Zenon
<1>3. Inv => ToldWhatLanded
  BY Zenon DEF Honest, ToldWhatLanded
<1> HIDE DEF Inv
<1> QED
  BY <1>1, <1>2, <1>3, PTL DEF Spec

-----------------------------------------------------------------------------
(* The push slots. *)

Holders(d) == {p \in Push : host[p] = d /\ pc[p] \in Holding}

SlotsHeld ==
    /\ host \in [Push -> Daemon \cup {Nowhere}]
    /\ slots \in [Daemon -> 0 .. MaxPushes]
    /\ \A p \in Push : pc[p] \in Holding \cup {"queued"} => host[p] \in Daemon
    /\ \A d \in Daemon : slots[d] = Cardinality(Holders(d))

(* The pushes that hold a slot can be counted. *)
LEMMA HoldersFinite == \A d : IsFiniteSet(Holders(d)) /\ Cardinality(Holders(d)) \in Nat
<1> SUFFICES ASSUME NEW d PROVE IsFiniteSet(Holders(d)) /\ Cardinality(Holders(d)) \in Nat
  BY Zenon
<1>1. IsFiniteSet(Holders(d))
  BY ReceivePackAssumption, FS_Subset, Zenon DEF Holders
<1> QED
  BY <1>1, FS_CardinalityType, Zenon

(* A step that moves one push without changing whether it holds a slot. *)
LEMMA StayKeepsSlots ==
    ASSUME Shape, SlotsHeld, NEW p \in Push, NEW where, GoTo(p, where), UNCHANGED <<host, slots>>,
           pc[p] \in Holding <=> where \in Holding, where = "queued" => pc[p] = "queued"
    PROVE  SlotsHeld'
<1>1. \A q \in Push : pc'[q] = IF q = p THEN where ELSE pc[q]
  BY Zenon DEF GoTo, Shape
<1>2. \A d \in Daemon : Holders(d)' = Holders(d)
  BY <1>1, Zenon DEF Holders
<1> QED
  BY <1>1, <1>2, Zenon DEF SlotsHeld

(* A push that ends gives its slot back. *)
LEMMA FinishFreesSlot ==
    ASSUME Shape, SlotsHeld, NEW p \in Push, Finish(p), UNCHANGED host, pc[p] \in Holding
    PROVE  SlotsHeld'
<1>1. \A q \in Push : pc'[q] = IF q = p THEN "done" ELSE pc[q]
  BY Zenon DEF Finish, GoTo, Shape
<1>2. host[p] \in Daemon
  BY Zenon DEF SlotsHeld
<1>3. \A d \in Daemon : slots'[d] = IF d = host[p] THEN slots[d] - 1 ELSE slots[d]
  BY <1>2, Zenon DEF Finish, SlotsHeld
<1>4. ASSUME NEW d \in Daemon
      PROVE  slots'[d] = Cardinality(Holders(d))' /\ slots'[d] \in 0 .. MaxPushes
  <2>1. slots[d] \in 0 .. MaxPushes /\ slots[d] = Cardinality(Holders(d))
    BY Zenon DEF SlotsHeld
  <2>2. CASE d = host[p]
    <3>1. p \in Holders(d)
      BY <2>2, Zenon DEF Holders
    <3>2. Holders(d)' = Holders(d) \ {p}
      BY <1>1, Zenon DEF Holders, Holding
    <3>3. Cardinality(Holders(d) \ {p}) = Cardinality(Holders(d)) - 1
      BY <3>1, HoldersFinite, FS_RemoveElement, Zenon
    <3>4. Cardinality(Holders(d) \ {p}) \in Nat
      BY HoldersFinite, FS_RemoveElement, FS_CardinalityType, Zenon
    <3> QED
      BY <1>3, <2>1, <2>2, <3>2, <3>3, <3>4, ReceivePackAssumption
  <2>3. CASE d # host[p]
    <3>1. Holders(d)' = Holders(d)
      BY <1>1, <2>3, Zenon DEF Holders
    <3> QED
      BY <1>3, <2>1, <2>3, <3>1, Zenon
  <2> QED
    BY <2>2, <2>3, Zenon
<1>5. slots' \in [Daemon -> 0 .. MaxPushes]
  BY <1>4, Zenon DEF Finish, SlotsHeld
<1> QED
  BY <1>1, <1>4, <1>5, Zenon DEF SlotsHeld, Holding

(* No push holds a slot at the start. *)
LEMMA SlotsInit == Init => SlotsHeld
<1> SUFFICES ASSUME Init PROVE SlotsHeld
  BY Zenon
<1>1. \A d \in Daemon : Holders(d) = {}
  BY Zenon DEF Init, Holders, Holding
<1>2. \A d \in Daemon : slots[d] = Cardinality(Holders(d))
  BY <1>1, FS_EmptySet, Zenon DEF Init
<1> QED
  BY <1>2, ReceivePackAssumption DEF Init, SlotsHeld, Holding

(* Every step keeps the slots and their holders in agreement. *)
LEMMA SlotsNext == Shape /\ SlotsHeld /\ [Next]_vars => SlotsHeld'
<1> SUFFICES ASSUME Shape, SlotsHeld, [Next]_vars PROVE SlotsHeld'
  BY Zenon
<1> USE DEF bucket
<1>1. ASSUME NEW p \in Push, Connect(p) PROVE SlotsHeld'
  <2>1. /\ UNCHANGED slots /\ pc[p] = "idle"
        /\ \A q \in Push : pc'[q] = IF q = p THEN "queued" ELSE pc[q]
    BY <1>1, Zenon DEF Connect, GoTo, Shape
  <2>2. PICK d \in Daemon : host' = [host EXCEPT ![p] = d]
    BY <1>1, Zenon DEF Connect
  <2>3. \A q \in Push : host'[q] = IF q = p THEN d ELSE host[q]
    BY <2>2, Zenon DEF SlotsHeld
  <2>4. \A e \in Daemon : Holders(e)' = Holders(e)
    BY <2>1, <2>3, Zenon DEF Holders, Holding
  <2> QED
    BY <2>1, <2>2, <2>3, <2>4, Zenon DEF SlotsHeld
<1>2. ASSUME NEW p \in Push, Admit(p) PROVE SlotsHeld'
  <2>1. PICK where \in {"unpacking", "validating"} : GoTo(p, where)
    BY <1>2, Zenon DEF Admit
  <2>2. /\ pc[p] = "queued" /\ UNCHANGED host
        /\ \A q \in Push : pc'[q] = IF q = p THEN where ELSE pc[q]
    BY <1>2, <2>1, Zenon DEF Admit, GoTo, Shape
  <2>3. host[p] \in Daemon /\ slots[host[p]] < MaxPushes
    BY <1>2, <2>2, Zenon DEF Admit, SlotsHeld
  <2>4. \A d \in Daemon : slots'[d] = IF d = host[p] THEN slots[d] + 1 ELSE slots[d]
    BY <1>2, <2>3, Zenon DEF Admit, SlotsHeld
  <2>5. ASSUME NEW d \in Daemon
        PROVE  slots'[d] = Cardinality(Holders(d))' /\ slots'[d] \in 0 .. MaxPushes
    <3>1. slots[d] \in 0 .. MaxPushes /\ slots[d] = Cardinality(Holders(d))
      BY Zenon DEF SlotsHeld
    <3>2. CASE d = host[p]
      <4>1. p \notin Holders(d)
        BY <2>2, Zenon DEF Holders, Holding
      <4>2. Holders(d)' = Holders(d) \cup {p}
        BY <2>2, <3>2, Zenon DEF Holders, Holding
      <4>3. Cardinality(Holders(d) \cup {p}) = Cardinality(Holders(d)) + 1
        BY <4>1, HoldersFinite, FS_AddElement, Zenon
      <4> QED
        BY <2>3, <2>4, <3>1, <3>2, <4>2, <4>3, ReceivePackAssumption
    <3>3. CASE d # host[p]
      <4>1. Holders(d)' = Holders(d)
        BY <2>2, <3>3, Zenon DEF Holders
      <4> QED
        BY <2>4, <3>1, <3>3, <4>1, Zenon
    <3> QED
      BY <3>2, <3>3, Zenon
  <2>6. slots' \in [Daemon -> 0 .. MaxPushes]
    BY <1>2, <2>5, Zenon DEF Admit, SlotsHeld
  <2> QED
    BY <2>2, <2>3, <2>5, <2>6, Zenon DEF SlotsHeld
<1>3. ASSUME NEW p \in Push, Refuse(p) PROVE SlotsHeld'
  BY <1>3, StayKeepsSlots, Zenon DEF Refuse, Holding
<1>4. ASSUME NEW p \in Push, UnpackFailed(p) \/ NoReport(p) \/ Report(p) PROVE SlotsHeld'
  BY <1>4, FinishFreesSlot, Zenon DEF UnpackFailed, NoReport, Report, Holding
<1>5. ASSUME NEW p \in Push,
             \/ Unpacked(p) \/ Validate(p) \/ Flush(p) \/ CommitLands(p) \/ CommitRefused(p)
             \/ CheckVisible(p) \/ StartOneByOne(p) \/ ValidateNext(p) \/ LooseFlush(p) \/ LooseWrite(p)
      PROVE  SlotsHeld'
  <2>1. UNCHANGED <<host, slots>> /\ pc[p] \in Holding
    BY <1>5, Zenon DEF Unpacked, Validate, Flush, CommitLands, CommitRefused, CheckVisible, StartOneByOne,
       ValidateNext, LooseFlush, LooseWrite, Holding
  <2>2. PICK where \in Holding : GoTo(p, where)
    BY <1>5, Zenon DEF Unpacked, Validate, Flush, CommitLands, CommitRefused, CheckVisible, StartOneByOne,
       ValidateNext, LooseFlush, LooseWrite, Answer, Holding
  <2> QED
    BY <2>1, <2>2, StayKeepsSlots, Zenon DEF Holding
<1>6. ASSUME NEW d \in Daemon, Crash(d) PROVE SlotsHeld'
  <2>1. /\ UNCHANGED host
        /\ \A q \in Push : pc'[q] = IF host[q] = d /\ pc[q] \notin Over THEN "dead" ELSE pc[q]
        /\ \A e \in Daemon : slots'[e] = IF e = d THEN 0 ELSE slots[e]
    BY <1>6, Zenon DEF Crash, SlotsHeld
  <2>2. Holders(d)' = {}
    BY <2>1, Zenon DEF Holders, Holding, Over
  <2>3. \A e \in Daemon \ {d} : Holders(e)' = Holders(e)
    BY <2>1, Zenon DEF Holders
  <2>4. slots' \in [Daemon -> 0 .. MaxPushes]
    BY <1>6, ReceivePackAssumption DEF Crash, SlotsHeld
  <2>5. \A e \in Daemon : slots'[e] = Cardinality(Holders(e))'
    BY <2>1, <2>2, <2>3, FS_EmptySet, Zenon DEF SlotsHeld
  <2> QED
    BY <2>1, <2>4, <2>5, Zenon DEF SlotsHeld, Holding
<1>7. CASE UNCHANGED <<host, slots, pc>>
  BY <1>7, Zenon DEF SlotsHeld, Holders
<1>8. ASSUME NEW p \in Push, Seal(p) PROVE UNCHANGED <<host, slots, pc>>
  BY <1>8, Zenon DEF Seal
<1>9. ASSUME NEW p \in Push, NEW k \in Container, Upload(p, k) PROVE UNCHANGED <<host, slots, pc>>
  BY <1>9, Zenon DEF Upload, PutBin, PutCue, UploadFailed
<1>10. UNCHANGED vars => UNCHANGED <<host, slots, pc>>
  BY Zenon DEF vars
<1> QED
  BY <1>1, <1>2, <1>3, <1>4, <1>5, <1>6, <1>7, <1>8, <1>9, <1>10, Zenon DEF Next, Serve, Proceed

(* For any number of pushes and daemons: every slot taken belongs to a push that is
   past admit, so no way out of receivePackStreaming leaks or frees one too many. *)
THEOREM NoSlotLost == Spec => []SlotsAccounted
<1>1. SlotsHeld => SlotsAccounted
  BY Zenon DEF SlotsHeld, SlotsAccounted, Holders
<1> QED
  BY ShapeInit, ShapeNext, SlotsInit, SlotsNext, <1>1, PTL DEF Spec

-----------------------------------------------------------------------------
(* What TypeOK says beyond Shape and SlotsHeld, and why the index of
   updateReferencesOneByOne stays inside the commands: a push under way has a
   request, its index starts at the first command, and the loop leaves at the last. *)
CursorInv ==
    /\ refs \in RefMap
    /\ bins \subseteq Push \X Container /\ cues \subseteq Push \X Container
    /\ view \in [Push -> RefMap \cup {NoView}]
    /\ pos \in [Push -> Nat \ {0}]
    /\ \A p \in Push :
         /\ pc[p] \in Holding \cup {"queued"} => req[p] \in Requests
         /\ pc[p] \notin Loose \cup {"reporting"} => pos[p] = 1
         /\ pc[p] \in Loose => pos[p] <= Len(req[p])

(* A step that moves one push and keeps its request and its index. *)
LEMMA StayKeepsCursor ==
    ASSUME Shape, CursorInv, NEW p \in Push, NEW where \in Holding, GoTo(p, where),
           UNCHANGED <<bins, cues, req, pos>>, refs' \in RefMap,
           view' \in [Push -> RefMap \cup {NoView}],
           pc[p] \in Holding \cup {"queued"},
           where \in Loose \cup {"reporting"} \/ pc[p] \notin Loose \cup {"reporting"},
           where \in Loose => pos[p] <= Len(req[p])
    PROVE  CursorInv'
<1>1. \A q \in Push : pc'[q] = IF q = p THEN where ELSE pc[q]
  BY Zenon DEF GoTo, Shape
<1> QED
  BY <1>1, Zenon DEF CursorInv

(* An answered command moves the index on, or ends the loop. *)
LEMMA AnswerKeepsCursor ==
    ASSUME Shape, CursorInv, NEW p \in Push, NEW x, Answer(p, x), pc[p] \in Loose,
           UNCHANGED <<bins, cues, req>>, refs' \in RefMap,
           view' \in [Push -> RefMap \cup {NoView}]
    PROVE  CursorInv'
<1>1. \A q \in Push : /\ pc'[q] = IF q = p THEN (IF pos[p] = Len(req[p]) THEN "reporting" ELSE "oneByOne")
                                            ELSE pc[q]
                      /\ pos'[q] = IF q = p THEN pos[p] + 1 ELSE pos[q]
  BY Zenon DEF Answer, GoTo, Shape, CursorInv
<1>2. req[p] \in Requests /\ pos[p] \in Nat \ {0} /\ pos[p] <= Len(req[p])
  BY Zenon DEF CursorInv, Loose, Holding
<1>3. Len(req[p]) \in Nat
  BY <1>2, ReceivePackAssumption
<1>4. pos' \in [Push -> Nat \ {0}]
  BY <1>2 DEF Answer, CursorInv
<1>5. pc'[p] \in Loose => pos'[p] <= Len(req'[p])
  BY <1>1, <1>2, <1>3 DEF Loose
<1>6. pc'[p] \in Loose \cup {"reporting"}
  BY <1>1, Zenon DEF Loose
<1> QED
  BY <1>1, <1>2, <1>4, <1>5, <1>6, Zenon DEF CursorInv

(* A push that is over has forgotten its request. *)
LEMMA ForgetKeepsCursor ==
    ASSUME Shape, CursorInv, NEW P, Forget(P), UNCHANGED bucket,
           \A q \in Push : IF q \in P THEN pc'[q] \in Over ELSE pc'[q] = pc[q]
    PROVE  CursorInv'
<1>1. view' \in [Push -> RefMap \cup {NoView}] /\ pos' \in [Push -> Nat \ {0}]
  BY DEF Forget, CursorInv
<1>2. \A q \in Push : q \in P => pos'[q] = 1
  BY Zenon DEF Forget
<1>3. \A q \in Push : q \notin P => pos'[q] = pos[q] /\ req'[q] = req[q]
  BY Zenon DEF Forget
<1> QED
  BY <1>1, <1>2, <1>3, Zenon DEF CursorInv, bucket, Over, Holding, Loose

(* The batch of a push gives every name it sets a target or removes it. *)
LEMMA LandedIsRefMap ==
    ASSUME Shape, CursorInv, NEW p \in Push, Refs!Update(BatchOf(p))
    PROVE  refs' \in RefMap
<1>1. Staged(p) \subseteq Command
  BY CommandsDistinct, Zenon DEF Staged
<1>2. ASSUME NEW n \in Name PROVE BatchOf(p).upd[n] \in Value \cup {Absent, Keep}
  <2>1. CASE \E c \in Staged(p) : c.name = n
    <3> DEFINE d == CHOOSE c \in Staged(p) : c.name = n
    <3>1. d \in Command
      BY <1>1, <2>1, Zenon
    <3>2. d.new \in Value \cup {Absent}
      BY <3>1, Zenon DEF Command
    <3>3. BatchOf(p).upd[n] = d.new
      BY <2>1, Zenon DEF BatchOf
    <3> QED
      BY <3>2, <3>3, Zenon
  <2>2. CASE ~ \E c \in Staged(p) : c.name = n
    BY <2>2, Zenon DEF BatchOf
  <2> QED
    BY <2>1, <2>2, Zenon
<1> QED
  BY <1>2, Zenon DEF Refs!Update, CursorInv, RefMap

(* The view a push is left with is a map of references, or none. *)
LEMMA ViewsAreMaps ==
    ASSUME CursorInv, NEW p \in Push
    PROVE  /\ Cached(p) \in RefMap
           /\ \A k : ViewAfter(p, k) \in RefMap \cup {NoView}
BY Zenon DEF Cached, ViewAfter, CursorInv

(* Every step keeps the index of a push inside its commands. *)
LEMMA CursorNext == Shape /\ CursorInv /\ [Next]_vars => CursorInv'
<1> SUFFICES ASSUME Shape, CursorInv, [Next]_vars PROVE CursorInv'
  BY Zenon
<1> USE DEF bucket, history
<1>1. ASSUME NEW p \in Push, Connect(p) PROVE CursorInv'
  <2>1. /\ \A q \in Push : pc'[q] = IF q = p THEN "queued" ELSE pc[q]
        /\ pc[p] = "idle" /\ UNCHANGED <<refs, bins, cues, pos>>
    BY <1>1, Zenon DEF Connect, GoTo, Shape
  <2>2. PICK r \in Requests, v \in {NoView, refs} :
            req' = [req EXCEPT ![p] = r] /\ view' = [view EXCEPT ![p] = v]
    BY <1>1, Zenon DEF Connect
  <2>3. \A q \in Push : req'[q] = IF q = p THEN r ELSE req[q]
    BY <2>2, Zenon DEF Shape
  <2>4. view' \in [Push -> RefMap \cup {NoView}]
    BY <2>2, Zenon DEF CursorInv
  <2>5. pos[p] = 1
    BY <2>1, Zenon DEF CursorInv, Loose
  <2> QED
    BY <2>1, <2>3, <2>4, <2>5, Zenon DEF CursorInv, Loose
<1>2. ASSUME NEW p \in Push, Refuse(p) \/ UnpackFailed(p) \/ NoReport(p) \/ Report(p)
      PROVE  CursorInv'
  <2>1. GoTo(p, "done") /\ Forget({p}) /\ UNCHANGED bucket
    BY <1>2, Zenon DEF Refuse, UnpackFailed, NoReport, Report, Finish
  <2>2. \A q \in Push : IF q \in {p} THEN pc'[q] \in Over ELSE pc'[q] = pc[q]
    BY <2>1, Zenon DEF GoTo, Shape, Over
  <2> QED
    BY <2>1, <2>2, ForgetKeepsCursor, Zenon
<1>3. ASSUME NEW p \in Push, Admit(p) \/ Unpacked(p) \/ Flush(p) \/ CommitRefused(p)
      PROVE  CursorInv'
  <2>1. /\ UNCHANGED <<refs, bins, cues, req, pos, view>>
        /\ pc[p] \in Holding \cup {"queued"} /\ pc[p] \notin Loose \cup {"reporting"}
    BY <1>3, Zenon DEF Admit, Unpacked, Flush, CommitRefused, Holding, Loose
  <2>2. PICK where \in Holding \ Loose : GoTo(p, where)
    BY <1>3, Zenon DEF Admit, Unpacked, Flush, CommitRefused, Holding, Loose
  <2>3. refs' \in RefMap /\ view' \in [Push -> RefMap \cup {NoView}]
    BY <2>1, Zenon DEF CursorInv
  <2> QED
    BY <2>1, <2>2, <2>3, StayKeepsCursor, Zenon
<1>4. ASSUME NEW p \in Push, Validate(p) \/ CheckVisible(p) PROVE CursorInv'
  <2>1. /\ UNCHANGED <<refs, bins, cues, req, pos>>
        /\ pc[p] \in Holding /\ pc[p] \notin Loose \cup {"reporting"}
    BY <1>4, Zenon DEF Validate, CheckVisible, Holding, Loose
  <2>2. PICK where \in Holding \ Loose : GoTo(p, where)
    BY <1>4, Zenon DEF Validate, CheckVisible, Holding, Loose
  <2>3. PICK k : view' = [view EXCEPT ![p] = ViewAfter(p, k)]
    BY <1>4, Zenon DEF Validate, CheckVisible
  <2>4. refs' \in RefMap /\ view' \in [Push -> RefMap \cup {NoView}]
    BY <2>1, <2>3, ViewsAreMaps, Zenon DEF CursorInv
  <2> QED
    BY <2>1, <2>2, <2>4, StayKeepsCursor, Zenon
<1>5. ASSUME NEW p \in Push, CommitLands(p) PROVE CursorInv'
  <2>1. /\ UNCHANGED <<bins, cues, req, pos>> /\ Refs!Update(BatchOf(p))
        /\ pc[p] \in Holding /\ pc[p] \notin Loose \cup {"reporting"}
    BY <1>5, Zenon DEF CommitLands, Holding, Loose
  <2>2. PICK where \in Holding \ Loose : GoTo(p, where)
    BY <1>5, Zenon DEF CommitLands, Holding, Loose
  <2>3. refs' \in RefMap
    BY <2>1, LandedIsRefMap, Zenon
  <2>4. view' \in [Push -> RefMap \cup {NoView}]
    BY <1>5, <2>3, Zenon DEF CommitLands, CursorInv
  <2> QED
    BY <2>1, <2>2, <2>3, <2>4, StayKeepsCursor, Zenon
<1>6. ASSUME NEW p \in Push, StartOneByOne(p) PROVE CursorInv'
  <2>1. /\ UNCHANGED <<refs, bins, cues, req, pos, view>> /\ GoTo(p, "oneByOne")
        /\ pc[p] \in Holding /\ pc[p] \notin Loose \cup {"reporting"}
    BY <1>6, Zenon DEF StartOneByOne, Holding, Loose
  <2>2. req[p] \in Requests /\ pos[p] = 1
    BY <2>1, Zenon DEF CursorInv
  <2>3. req[p] \in Seq(Command) /\ req[p] # <<>>
    BY <2>2, ReceivePackAssumption, Zenon
  <2>4. pos[p] <= Len(req[p])
    BY <2>2, <2>3
  <2>5. refs' \in RefMap /\ view' \in [Push -> RefMap \cup {NoView}]
    BY <2>1, Zenon DEF CursorInv
  <2>6. "oneByOne" \in Holding /\ "oneByOne" \in Loose
    BY Zenon DEF Holding, Loose
  <2> QED
    BY <2>1, <2>4, <2>5, <2>6, StayKeepsCursor, Zenon
<1>7. ASSUME NEW p \in Push, ValidateNext(p) \/ LooseFlush(p) PROVE CursorInv'
  <2>1. /\ UNCHANGED <<refs, bins, cues, req>> /\ pc[p] \in Loose /\ pc[p] \in Holding
    BY <1>7, Zenon DEF ValidateNext, LooseFlush, Loose, Holding
  <2>2. view' = view \/ view' = [view EXCEPT ![p] = Cached(p)]
    BY <1>7, Zenon DEF ValidateNext, LooseFlush
  <2>3. refs' \in RefMap /\ view' \in [Push -> RefMap \cup {NoView}]
    BY <2>1, <2>2, ViewsAreMaps, Zenon DEF CursorInv
  <2>4. Answer(p, "error") \/ \E where \in Loose : GoTo(p, where) /\ UNCHANGED pos
    BY <1>7, Zenon DEF ValidateNext, LooseFlush, Loose
  <2>5. CASE Answer(p, "error")
    BY <2>1, <2>3, <2>5, AnswerKeepsCursor, Zenon
  <2>6. CASE \E where \in Loose : GoTo(p, where) /\ UNCHANGED pos
    <3>1. PICK where \in Loose : GoTo(p, where) /\ UNCHANGED pos
      BY <2>6, Zenon
    <3>2. where \in Holding /\ pos[p] <= Len(req[p])
      BY <2>1, Zenon DEF CursorInv, Loose, Holding
    <3> QED
      BY <2>1, <2>3, <3>1, <3>2, StayKeepsCursor, Zenon
  <2> QED
    BY <2>4, <2>5, <2>6, Zenon
<1>8. ASSUME NEW p \in Push, LooseWrite(p) PROVE CursorInv'
  <2>1. /\ UNCHANGED <<bins, cues, req>> /\ pc[p] \in Loose
        /\ Answer(p, "ok") \/ Answer(p, "error")
    BY <1>8, Zenon DEF LooseWrite, Loose
  <2>2. refs' = refs \/ refs' = [refs EXCEPT ![Now(p).name] = Now(p).new]
    BY <1>8, Zenon DEF LooseWrite
  <2>3. Now(p) \in Command
    <3>1. req[p] \in Requests /\ pos[p] \in Nat \ {0} /\ pos[p] <= Len(req[p])
      BY <2>1, Zenon DEF CursorInv, Loose, Holding
    <3>2. req[p] \in Seq(Command)
      BY <3>1, ReceivePackAssumption, Zenon
    <3> QED
      BY <3>1, <3>2 DEF Now
  <2>4. Now(p).new \in Value \cup {Absent}
    BY <2>3, Zenon DEF Command
  <2>5. refs' \in RefMap
    BY <2>2, <2>4, Zenon DEF CursorInv, RefMap
  <2>6. view' = view \/ view' = [view EXCEPT ![p] = NoView]
    BY <1>8, Zenon DEF LooseWrite
  <2>7. view' \in [Push -> RefMap \cup {NoView}]
    BY <2>6, Zenon DEF CursorInv
  <2> QED
    BY <2>1, <2>5, <2>7, AnswerKeepsCursor, Zenon
<1>9. ASSUME NEW p \in Push, NEW k \in Container, Upload(p, k) PROVE CursorInv'
  <2>1. UNCHANGED <<refs, pc, req, view, pos>>
    BY <1>9, Zenon DEF Upload, PutBin, PutCue, UploadFailed
  <2>2. bins' \subseteq bins \cup {<<p, k>>} /\ cues' \subseteq cues \cup {<<p, k>>}
    BY <1>9, Zenon DEF Upload, PutBin, PutCue, UploadFailed
  <2>3. <<p, k>> \in Push \X Container
    BY Zenon
  <2>4. bins' \subseteq Push \X Container /\ cues' \subseteq Push \X Container
    BY <2>2, <2>3, Zenon DEF CursorInv
  <2> QED
    BY <2>1, <2>4, Zenon DEF CursorInv
<1>10. ASSUME NEW d \in Daemon, Crash(d) PROVE CursorInv'
  <2> DEFINE mine == {p \in Push : host[p] = d}
  <2>1. Forget(mine) /\ UNCHANGED bucket
    BY <1>10, Zenon DEF Crash
  <2>2. \A q \in Push : IF q \in mine THEN pc'[q] \in Over ELSE pc'[q] = pc[q]
    BY <1>10, Zenon DEF Crash, Over
  <2> HIDE DEF mine
  <2> QED
    BY <2>1, <2>2, ForgetKeepsCursor, Zenon
<1>11. CASE UNCHANGED <<refs, bins, cues, pc, req, view, pos>>
  BY <1>11, Zenon DEF CursorInv
<1>12. ASSUME NEW p \in Push, Seal(p) PROVE UNCHANGED <<refs, bins, cues, pc, req, view, pos>>
  BY <1>12, Zenon DEF Seal
<1>13. UNCHANGED vars => UNCHANGED <<refs, bins, cues, pc, req, view, pos>>
  BY Zenon DEF vars
<1> QED
  BY <1>1, <1>2, <1>3, <1>4, <1>5, <1>6, <1>7, <1>8, <1>9, <1>10, <1>11, <1>12, <1>13, Zenon
     DEF Next, Serve, Proceed

(* For any number of pushes, daemons and commands: every variable keeps its type.
   Behind it, updateReferencesOneByOne never reads past the commands it was sent, and
   what a push writes under a reference name is a target or the removal of one. *)
THEOREM PushesAreTyped == Spec => []TypeOK
<1>1. Init => CursorInv
  BY ReceivePackAssumption DEF Init, CursorInv, Holding, Loose
<1>2. Shape /\ SlotsHeld /\ CursorInv => TypeOK
  <2> SUFFICES ASSUME Shape, SlotsHeld, CursorInv PROVE TypeOK
    BY Zenon
  <2>1. <<>> \in Seq(Command)
    OBVIOUS
  <2>2. req \in [Push -> Seq(Command)]
    BY <2>1, ReceivePackAssumption, Zenon DEF Shape
  <2> QED
    BY <2>2, Zenon DEF Shape, SlotsHeld, CursorInv, TypeOK
<1> QED
  BY ShapeInit, ShapeNext, SlotsInit, SlotsNext, CursorNext, <1>1, <1>2, PTL DEF Spec
-----------------------------------------------------------------------------
(* The event of a push: PushEvents.  First the history. *)

LEMMA ParentsIn ==
    ASSUME NEW c \in Commits
    PROVE  /\ Parents[c] \in Seq(Commits) /\ Range(Parents[c]) \subseteq Commits /\ Len(Parents[c]) \in Nat
           /\ \A n \in 1 .. Len(Parents[c]) : Parents[c][n] \in Range(Parents[c])
<1>1. Parents[c] \in Seq(Commits)
  BY HistoryAssumption, Zenon
<1> DEFINE q == Parents[c]
<1> HIDE DEF q
<1>2. q \in Seq(Commits)
  BY <1>1, Zenon DEF q
<1>3. Range(q) \subseteq Commits /\ Len(q) \in Nat /\ \A n \in 1 .. Len(q) : q[n] \in Range(q)
  BY <1>2 DEF Range
<1> QED
  BY <1>1, <1>3, Zenon DEF q

(* What a commit reaches: itself, and the parents of what it reaches; nothing
   more. *)
LEMMA ReachFacts ==
    ASSUME NEW c \in Commits
    PROVE  c \in Reach(c) /\ Reach(c) \subseteq Commits /\ Ancestral(Reach(c))
<1>1. c \in Reach(c) /\ Reach(c) \subseteq Commits
  BY Zenon DEF Reach
<1>2. ASSUME NEW d \in Reach(c), NEW p \in Range(Parents[d]) PROVE p \in Reach(c)
  <2>1. p \in Commits
    BY <1>1, <1>2, ParentsIn, Zenon
  <2>2. ASSUME NEW S \in SUBSET Commits, c \in S, Ancestral(S) PROVE p \in S
    <3>1. d \in S
      BY <1>2, <2>2, Zenon DEF Reach
    <3> QED
      BY <1>2, <2>2, <3>1, Zenon DEF Ancestral
  <2> QED
    BY <2>1, <2>2, Zenon DEF Reach
<1> QED
  BY <1>1, <1>2, Zenon DEF Ancestral

LEMMA ReachLeast ==
    ASSUME NEW c, NEW S \in SUBSET Commits, c \in S, Ancestral(S)
    PROVE  Reach(c) \subseteq S
  BY Zenon DEF Reach

LEMMA ReachParent ==
    ASSUME NEW c \in Commits, NEW d \in Reach(c), NEW p \in Range(Parents[d])
    PROVE  p \in Reach(c)
  BY ReachFacts, Zenon DEF Ancestral

LEMMA ReachStep ==
    ASSUME NEW d \in Commits, NEW c \in Reach(d), c # d
    PROVE  \E p \in Range(Parents[d]) : c \in Reach(p)
<1> DEFINE S == {d} \cup UNION {Reach(p) : p \in Range(Parents[d])}
<1>1. \A p \in Range(Parents[d]) : p \in Commits
  BY ParentsIn, Zenon
<1>2. S \in SUBSET Commits
  BY <1>1, ReachFacts, Zenon
<1>3. ASSUME NEW e \in S, NEW p \in Range(Parents[e]) PROVE p \in S
  <2>1. CASE e = d
    BY <1>1, <1>3, <2>1, ReachFacts, Zenon
  <2>2. CASE e # d
    <3>1. PICK q \in Range(Parents[d]) : e \in Reach(q)
      BY <1>3, <2>2, Zenon
    <3>2. p \in Reach(q)
      BY <1>1, <1>3, <3>1, ReachParent, Zenon
    <3> QED
      BY <3>2, Zenon
  <2> QED
    BY <2>1, <2>2, Zenon
<1>4. Ancestral(S)
  BY <1>3, Zenon DEF Ancestral
<1>5. d \in S
  BY Zenon
<1> HIDE DEF S
<1>6. c \in S
  BY <1>2, <1>4, <1>5, ReachLeast, Zenon
<1> QED
  BY <1>6, Zenon DEF S

(* No commit is a parent of what it reaches. *)
LEMMA NoCycle ==
    ASSUME NEW c \in Commits, NEW d \in Reach(c)
    PROVE  c \notin Range(Parents[d])
<1> SUFFICES ASSUME c \in Range(Parents[d]) PROVE FALSE
  BY Zenon
<1> DEFINE S == {e \in Reach(c) : d \in Reach(e)}
<1>1. Reach(c) \subseteq Commits /\ d \in Commits /\ c \in Reach(c) /\ d \in Reach(d)
  BY ReachFacts, Zenon
<1>2. S \in SUBSET Commits /\ S # {}
  <2>1. d \in S
    BY <1>1, Zenon
  <2> QED
    BY <1>1, <2>1, Zenon
<1>3. PICK e \in S : Range(Parents[e]) \cap S = {}
  <2> HIDE DEF S
  <2> QED
    BY <1>2, HistoryAssumption, Zenon
<1>4. e \in Commits /\ e \in Reach(c) /\ d \in Reach(e)
  BY <1>1, <1>3, Zenon
<1>5. CASE e = d
  <2>1. c \in S
    BY <1>1, Zenon
  <2> QED
    BY <1>3, <1>5, <2>1, Zenon
<1>6. CASE e # d
  <2>1. PICK p \in Range(Parents[e]) : d \in Reach(p)
    BY <1>4, <1>6, ReachStep, Zenon
  <2>2. p \in Reach(c)
    BY <1>4, ReachParent, Zenon
  <2> QED
    BY <1>3, <2>1, <2>2, Zenon
<1> QED
  BY <1>5, <1>6, Zenon

-----------------------------------------------------------------------------
(* The two walks. *)

(* reachable: what is seen or on its stack is reached, and the parents of what
   is seen are seen or on the stack. *)
OldWalk(old, w, sn) ==
    /\ w \in Seq(Commits) /\ sn \subseteq Commits
    /\ old # Zero => old \in Commits /\ (old \in sn \/ old \in Range(w))
    /\ sn \subseteq Reach(old) /\ Range(w) \subseteq Reach(old)
    /\ \A c \in sn : \A p \in Range(Parents[c]) : p \in sn \/ p \in Range(w)

(* collectNew.  Its stack is a path of the history.  What it listed or has on
   its stack is what it has seen, and the tip.  The parents of a listed commit
   are listed before it, or excluded; those a frame is past are excluded, listed
   or further up the stack. *)
Frames == [commit : Commits, next : Nat \ {0}]
OnStack(w) == {w[k].commit : k \in DOMAIN w}
Descends(w) == \A k, m \in DOMAIN w : k <= m => w[m].commit \in Reach(w[k].commit)
Distinct(w) == \A k, m \in DOMAIN w : w[k].commit = w[m].commit => k = m
Parted(new, w, sn, od) == Range(od) \cup OnStack(w) = sn \cup {new} /\ Range(od) \cap OnStack(w) = {}
Listed(od, R) ==
    /\ IsInjective(od)
    /\ \A j \in DOMAIN od : \A p \in Range(Parents[od[j]]) : p \in R \/ \E i \in DOMAIN od : i < j /\ od[i] = p
Finished(w, od, R, k, p) == p \in R \/ p \in Range(od) \/ \E m \in DOMAIN w : k < m /\ w[m].commit = p
Past(f, p) == \E n \in DOMAIN Parents[f.commit] : n < f.next /\ p = Parents[f.commit][n]
Visited(w, od, R) == \A k \in DOMAIN w : \A p \in Commits : Past(w[k], p) => Finished(w, od, R, k, p)
Unseen(old, w, od) ==
    /\ \A c \in Range(od) : c # old /\ old \notin Range(Parents[c])
    /\ \A k \in DOMAIN w : ~Past(w[k], old)

NewWalk(new, old, w, sn, od, fl) ==
    /\ w \in Seq(Frames) /\ sn \subseteq Reach(new) /\ od \in Seq(Commits)
    /\ sn \cap Reach(old) = {} /\ new \notin sn
    /\ Descends(w) /\ Distinct(w) /\ Parted(new, w, sn, od) /\ Listed(od, Reach(old)) /\ Visited(w, od, Reach(old))
    /\ fl \in BOOLEAN /\ (fl => old \in Reach(new)) /\ (~fl => Unseen(old, w, od))

(* The inductive invariant of Build. *)
EventInv ==
    /\ building \in {"idle", "old", "new", "built", "failed"}
    /\ building \in {"idle", "old"} => ordered = <<>> /\ oldIsAncestor = FALSE
    /\ building = "idle" => walk = <<>> /\ seen = {}
    /\ building \in {"old", "new"} => update.new \in Commits /\ CommitAt(update.old)
    /\ building = "old" => OldWalk(update.old, walk, seen)
    /\ building = "new" => /\ update.new # update.old /\ oldReachable = Reach(update.old)
                           /\ NewWalk(update.new, update.old, walk, seen, ordered, oldIsAncestor)
    /\ building = "built" => CommitsInOrder

(* The stack. *)
LEMMA PopParts ==
    ASSUME NEW S, NEW w \in Seq(S), w # <<>>
    PROVE  /\ TopOf(w) \in S /\ Pop(w) \in Seq(S) /\ Len(w) \in Nat \ {0} /\ Len(Pop(w)) = Len(w) - 1
           /\ TopOf(w) = w[Len(w)] /\ \A k \in 1 .. (Len(w) - 1) : Pop(w)[k] = w[k]
           /\ Range(w) = Range(Pop(w)) \cup {TopOf(w)}
<1>1. Len(w) \in Nat \ {0} /\ DOMAIN w = 1 .. Len(w) /\ TopOf(w) = w[Len(w)]
  BY DEF TopOf
<1> DEFINE n == Len(w) - 1
           v == SubSeq(w, 1, n)
<1>2. n \in Nat /\ Len(w) = n + 1
  BY <1>1
<1>3. v \in Seq(S) /\ Len(v) = n /\ DOMAIN v = 1 .. n /\ \A k \in 1 .. n : v[k] = w[k]
  <2> HIDE DEF n
  <2> QED
    BY <1>2
<1>4. TopOf(w) \in S
  BY <1>1
<1> HIDE DEF n, v
<1>5. 1 .. Len(w) = 1 .. n \cup {Len(w)}
  BY <1>2
<1>6. Range(w) = Range(v) \cup {TopOf(w)}
  <2>1. \A x : x \in Range(w) <=> \E k \in 1 .. Len(w) : x = w[k]
    BY <1>1, Zenon DEF Range
  <2>2. \A x : x \in Range(v) <=> \E k \in 1 .. n : x = w[k]
    BY <1>3, Zenon DEF Range
  <2>3. \A k : k \in 1 .. Len(w) <=> k \in 1 .. n \/ k = Len(w)
    BY <1>5, Zenon
  <2>4. \A x : x \in Range(w) <=> x \in Range(v) \/ x = TopOf(w)
    BY <1>1, <2>1, <2>2, <2>3, Zenon
  <2> QED
    BY <2>4, Zenon
<1> QED
  <2>1. Pop(w) = v /\ Len(w) - 1 = n
    BY Zenon DEF Pop, n, v
  <2> QED
    BY <1>1, <1>3, <1>4, <1>6, <2>1, Zenon

LEMMA RangeConcat ==
    ASSUME NEW S, NEW s \in Seq(S), NEW t \in Seq(S)
    PROVE  s \o t \in Seq(S) /\ Range(s \o t) = Range(s) \cup Range(t)
<1> DEFINE u == s \o t
<1>1. /\ u \in Seq(S) /\ Len(s) \in Nat /\ Len(t) \in Nat
      /\ DOMAIN u = 1 .. (Len(s) + Len(t)) /\ DOMAIN s = 1 .. Len(s) /\ DOMAIN t = 1 .. Len(t)
  OBVIOUS
<1>2. /\ \A i \in 1 .. Len(s) : u[i] = s[i]
      /\ \A i \in 1 .. Len(t) : u[Len(s) + i] = t[i]
  OBVIOUS
<1> HIDE DEF u
<1>3. \A i \in 1 .. (Len(s) + Len(t)) : i \in 1 .. Len(s) \/ \E j \in 1 .. Len(t) : i = Len(s) + j
  <2> TAKE i \in 1 .. (Len(s) + Len(t))
  <2>1. CASE i > Len(s)
    <3>1. i - Len(s) \in 1 .. Len(t) /\ i = Len(s) + (i - Len(s))
      BY <1>1, <2>1
    <3> QED
      BY <3>1, Zenon
  <2>2. CASE ~(i > Len(s))
    BY <1>1, <2>2
  <2> QED
    BY <2>1, <2>2, Zenon
<1>4. /\ \A i \in 1 .. Len(s) : i \in DOMAIN u
      /\ \A j \in 1 .. Len(t) : Len(s) + j \in DOMAIN u
  BY <1>1
<1>5. \A x : x \in Range(u) <=> x \in Range(s) \/ x \in Range(t)
  <2>1. /\ \A x : x \in Range(u) <=> \E k \in DOMAIN u : x = u[k]
        /\ \A x : x \in Range(s) <=> \E k \in 1 .. Len(s) : x = s[k]
        /\ \A x : x \in Range(t) <=> \E k \in 1 .. Len(t) : x = t[k]
    BY <1>1, Zenon DEF Range
  <2>2. ASSUME NEW k \in 1 .. Len(s) PROVE s[k] \in Range(u)
    BY <1>2, <1>4, <2>1, <2>2
  <2>3. ASSUME NEW k \in 1 .. Len(t) PROVE t[k] \in Range(u)
    BY <1>2, <1>4, <2>1, <2>3
  <2>4. ASSUME NEW k \in DOMAIN u PROVE u[k] \in Range(s) \/ u[k] \in Range(t)
    <3>1. CASE k \in 1 .. Len(s)
      BY <1>2, <2>1, <3>1
    <3>2. CASE \E j \in 1 .. Len(t) : k = Len(s) + j
      BY <1>2, <2>1, <3>2
    <3> QED
      BY <1>1, <1>3, <3>1, <3>2, Zenon
  <2> QED
    BY <2>1, <2>2, <2>3, <2>4, Zenon
<1> QED
  BY <1>1, <1>5, Zenon DEF u

(* A turn of reachable. *)
LEMMA OldWalkPop ==
    ASSUME NEW old, NEW w, NEW sn, OldWalk(old, w, sn), w # <<>>, TopOf(w) \in sn
    PROVE  OldWalk(old, Pop(w), sn)
<1>1. Pop(w) \in Seq(Commits) /\ Range(w) = Range(Pop(w)) \cup {TopOf(w)}
  BY PopParts, Zenon DEF OldWalk
<1> QED
  BY <1>1, Zenon DEF OldWalk

LEMMA OldWalkVisit ==
    ASSUME NEW old, NEW w, NEW sn, OldWalk(old, w, sn), w # <<>>
    PROVE  OldWalk(old, Pop(w) \o Parents[TopOf(w)], sn \cup {TopOf(w)})
<1> DEFINE h == TopOf(w)
           v == Pop(w)
           u == v \o Parents[h]
<1>1. h \in Commits /\ v \in Seq(Commits) /\ Range(w) = Range(v) \cup {h}
  BY PopParts, Zenon DEF OldWalk
<1>2. Parents[h] \in Seq(Commits) /\ Range(Parents[h]) \subseteq Commits
  BY <1>1, ParentsIn, Zenon
<1>3. u \in Seq(Commits) /\ Range(u) = Range(v) \cup Range(Parents[h])
  <2> DEFINE q == Parents[h]
  <2>1. v \in Seq(Commits) /\ q \in Seq(Commits)
    BY <1>1, <1>2, Zenon
  <2> HIDE DEF v, q
  <2>2. v \o q \in Seq(Commits) /\ Range(v \o q) = Range(v) \cup Range(q)
    BY <2>1, RangeConcat
  <2> QED
    BY <2>2, Zenon DEF q
<1>4. h \in Reach(old) /\ old \in Commits
  BY <1>1, Zenon DEF OldWalk, Reach
<1>5. Range(Parents[h]) \subseteq Reach(old)
  BY <1>4, ReachParent, Zenon
<1> HIDE DEF u, v, h
<1>6. OldWalk(old, u, sn \cup {h})
  BY <1>1, <1>3, <1>4, <1>5, Zenon DEF OldWalk
<1> QED
  BY <1>6, Zenon DEF u, v, h

(* At its end it has seen what the old target reaches. *)
LEMMA OldWalkEnd ==
    ASSUME NEW old, NEW sn, CommitAt(old), OldWalk(old, <<>>, sn)
    PROVE  sn = Reach(old)
<1>1. Range(<<>>) = {}
  BY DEF Range
<1>2. sn \subseteq Reach(old) /\ sn \in SUBSET Commits /\ Ancestral(sn) /\ (old # Zero => old \in sn)
  BY <1>1, Zenon DEF OldWalk, Ancestral
<1>3. CASE old = Zero
  BY <1>2, <1>3, HistoryAssumption, Zenon DEF Reach
<1>4. CASE old # Zero
  BY <1>2, <1>4, ReachLeast, Zenon
<1> QED
  BY <1>3, <1>4, Zenon

(* collectNew's frame at the top, and what it has not visited. *)
LEMMA TopFrame ==
    ASSUME NEW new \in Commits, NEW old, NEW w, NEW sn, NEW od, NEW fl, NewWalk(new, old, w, sn, od, fl), w # <<>>
    PROVE  /\ TopOf(w) \in Frames /\ TopOf(w) = w[Len(w)] /\ Len(w) \in DOMAIN w /\ Len(w) \in Nat
           /\ DOMAIN w = 1 .. Len(w)
           /\ TopOf(w).commit \in Commits /\ TopOf(w).next \in Nat \ {0}
           /\ TopOf(w).commit \in OnStack(w) /\ OnStack(w) \subseteq Reach(new)
<1>1. w \in Seq(Frames)
  BY Zenon DEF NewWalk
<1>2. TopOf(w) \in Frames /\ TopOf(w) = w[Len(w)] /\ Len(w) \in Nat \ {0}
  BY <1>1, PopParts, Zenon
<1>3. DOMAIN w = 1 .. Len(w) /\ Len(w) \in 1 .. Len(w)
  BY <1>1, <1>2
<1>4. TopOf(w).commit \in Commits /\ TopOf(w).next \in Nat \ {0}
  BY <1>2 DEF Frames
<1>5. TopOf(w).commit \in OnStack(w)
  BY <1>2, <1>3, Zenon DEF OnStack
<1>6. OnStack(w) \subseteq Reach(new)
  <2>1. OnStack(w) \subseteq sn \cup {new} /\ sn \subseteq Reach(new)
    BY Zenon DEF NewWalk, Parted
  <2> QED
    BY <2>1, ReachFacts, Zenon
<1> QED
  BY <1>2, <1>3, <1>4, <1>5, <1>6, Zenon

(* The top frame moves on by one parent. *)
Moved(w) == Append(Pop(w), [TopOf(w) EXCEPT !.next = @ + 1])
Moves(w, v) ==
    /\ v \in Seq(Frames) /\ v # <<>> /\ Len(v) = Len(w) /\ DOMAIN v = DOMAIN w
    /\ \A k \in DOMAIN w : v[k].commit = w[k].commit /\ (k # Len(w) => v[k] = w[k])
    /\ v[Len(w)].next = w[Len(w)].next + 1
LEMMA MovedMoves ==
    ASSUME NEW w \in Seq(Frames), w # <<>>
    PROVE  Moves(w, Moved(w))
<1> DEFINE t == TopOf(w)
           f == [t EXCEPT !.next = @ + 1]
           u == Pop(w)
           v == Append(u, f)
<1>1. /\ t \in Frames /\ u \in Seq(Frames) /\ Len(w) \in Nat \ {0} /\ Len(u) = Len(w) - 1
      /\ t = w[Len(w)] /\ \A k \in 1 .. (Len(w) - 1) : u[k] = w[k]
  BY PopParts, Zenon
<1> HIDE DEF t, u
<1>2. f \in Frames /\ f.commit = t.commit /\ f.next = t.next + 1
  BY <1>1 DEF Frames
<1> HIDE DEF f
<1>3. v \in Seq(Frames) /\ Len(v) = Len(w) /\ DOMAIN v = 1 .. Len(w) /\ v # <<>>
  BY <1>1, <1>2
<1>4. v[Len(w)] = f /\ \A k \in 1 .. Len(w) : k # Len(w) => v[k] = w[k]
  BY <1>1, <1>2
<1>5. DOMAIN w = 1 .. Len(w)
  OBVIOUS
<1> HIDE DEF v
<1>6. \A k \in 1 .. Len(w) : v[k].commit = w[k].commit /\ (k # Len(w) => v[k] = w[k])
  BY <1>1, <1>2, <1>4, Zenon
<1>7. v[Len(w)].next = w[Len(w)].next + 1
  BY <1>1, <1>2, <1>4, Zenon
<1>8. Moves(w, v)
  BY <1>3, <1>5, <1>6, <1>7, Zenon DEF Moves
<1> QED
  BY <1>8, Zenon DEF v, u, f, t, Moved

LEMMA FrameIn ==
    ASSUME NEW w \in Seq(Frames), NEW k \in DOMAIN w
    PROVE  w[k] \in Frames /\ w[k].commit \in Commits
<1>1. w[k] \in Frames
  OBVIOUS
<1> QED
  BY <1>1 DEF Frames
LEMMA PastIn ==
    ASSUME NEW f, f.commit \in Commits, NEW p, Past(f, p)
    PROVE  p \in Commits
<1>1. DOMAIN Parents[f.commit] = 1 .. Len(Parents[f.commit])
  BY ParentsIn
<1> QED
  BY <1>1, ParentsIn, Zenon DEF Past

(* What a frame that moved is past: what it was past, and one parent. *)
LEMMA MovedPast ==
    ASSUME NEW w \in Seq(Frames), w # <<>>, NEW v, Moves(w, v), TopOf(w).next <= Len(Parents[TopOf(w).commit])
    PROVE  /\ OnStack(v) = OnStack(w)
           /\ \A k \in DOMAIN w, p \in Commits :
                 Past(v[k], p) => Past(w[k], p) \/ (k = Len(w) /\ p = Parents[TopOf(w).commit][TopOf(w).next])
<1>1. OnStack(v) = OnStack(w)
  BY Zenon DEF OnStack, Moves
<1>2. /\ TopOf(w) = w[Len(w)] /\ TopOf(w).next \in Nat \ {0} /\ TopOf(w).commit \in Commits
      /\ Len(w) \in DOMAIN w
  <2>1. TopOf(w) \in Frames /\ TopOf(w) = w[Len(w)] /\ Len(w) \in Nat \ {0}
    BY PopParts, Zenon
  <2> QED
    BY <2>1 DEF Frames
<1>3. ASSUME NEW k \in DOMAIN w, NEW p \in Commits, Past(v[k], p)
      PROVE  Past(w[k], p) \/ (k = Len(w) /\ p = Parents[TopOf(w).commit][TopOf(w).next])
  <2>1. CASE k # Len(w)
    BY <1>3, <2>1, Zenon DEF Moves
  <2>2. CASE k = Len(w)
    <3>1. v[k].commit = TopOf(w).commit /\ v[k].next = TopOf(w).next + 1
      BY <1>2, <2>2, Zenon DEF Moves
    <3>2. PICK n \in DOMAIN Parents[TopOf(w).commit] : n < TopOf(w).next + 1 /\ p = Parents[TopOf(w).commit][n]
      BY <1>3, <3>1, Zenon DEF Past
    <3>3. n \in Nat
      BY <1>2, ParentsIn
    <3>4. n < TopOf(w).next \/ n = TopOf(w).next
      BY <1>2, <3>2, <3>3
    <3> QED
      BY <1>2, <2>2, <3>2, <3>4, Zenon DEF Past
  <2> QED
    BY <2>1, <2>2, Zenon
<1> QED
  BY <1>1, <1>3, Zenon

(* A parent that is excluded or seen is passed over: if it was seen it is listed,
   for on the stack it would be its own ancestor. *)
LEMMA NewWalkSkip ==
    ASSUME NEW new \in Commits, NEW old, NEW w, NEW sn, NEW od, NEW fl, NewWalk(new, old, w, sn, od, fl), w # <<>>,
           NEW p, TopOf(w).next <= Len(Parents[TopOf(w).commit]), p = Parents[TopOf(w).commit][TopOf(w).next],
           p \in Reach(old) \/ p \in sn
    PROVE  NewWalk(new, old, Moved(w), sn, od, fl \/ old \in {TopOf(w).commit, p})
<1> DEFINE t == TopOf(w)
           v == Moved(w)
           g == fl \/ old \in {t.commit, p}
<1>1. /\ t \in Frames /\ t = w[Len(w)] /\ Len(w) \in DOMAIN w /\ DOMAIN w = 1 .. Len(w) /\ Len(w) \in Nat
      /\ t.commit \in Commits /\ t.next \in Nat \ {0} /\ t.commit \in OnStack(w) /\ OnStack(w) \subseteq Reach(new)
  BY TopFrame, Zenon
<1>2. w \in Seq(Frames) /\ Moves(w, v)
  BY MovedMoves, Zenon DEF NewWalk
<1>3. p \in Range(Parents[t.commit]) /\ p \in Commits
  <2>1. t.next \in 1 .. Len(Parents[t.commit])
    BY <1>1, ParentsIn
  <2> QED
    BY <1>1, <2>1, ParentsIn, Zenon
<1>4. p \in Reach(new)
  BY <1>1, <1>3, ReachParent, Zenon
<1> HIDE DEF v, t
<1>5. /\ OnStack(v) = OnStack(w)
      /\ \A k \in DOMAIN w, q \in Commits : Past(v[k], q) => Past(w[k], q) \/ (k = Len(w) /\ q = p)
  BY <1>2, MovedPast, Zenon DEF t
<1>6. DOMAIN v = DOMAIN w /\ v \in Seq(Frames) /\ \A k \in DOMAIN w : v[k].commit = w[k].commit
  BY <1>2, Zenon DEF Moves
<1>7. Descends(v) /\ Distinct(v) /\ Parted(new, v, sn, od)
  BY <1>5, <1>6, Zenon DEF NewWalk, Descends, Distinct, Parted
<1>8. p \in Reach(old) \/ p \in Range(od)
  <2> SUFFICES ASSUME p \in sn, p \notin Range(od) PROVE FALSE
    BY Zenon
  <2>1. p \in OnStack(w)
    BY Zenon DEF NewWalk, Parted
  <2>2. PICK k \in DOMAIN w : p = w[k].commit
    BY <2>1, Zenon DEF OnStack
  <2>3. k <= Len(w)
    BY <1>1
  <2>4. t.commit \in Reach(p)
    BY <1>1, <2>2, <2>3, Zenon DEF NewWalk, Descends
  <2> QED
    BY <1>3, <2>4, NoCycle, Zenon
<1>9. Visited(v, od, Reach(old))
  <2> SUFFICES ASSUME NEW k \in DOMAIN w, NEW q \in Commits, Past(v[k], q) PROVE Finished(v, od, Reach(old), k, q)
    BY <1>6, Zenon DEF Visited
  <2>1. CASE Past(w[k], q)
    <3>1. Finished(w, od, Reach(old), k, q)
      BY <2>1, Zenon DEF NewWalk, Visited
    <3> QED
      BY <1>6, <3>1, Zenon DEF Finished
  <2>2. CASE q = p
    BY <1>8, <2>2, Zenon DEF Finished
  <2> QED
    BY <1>5, <2>1, <2>2, Zenon
<1>10. g \in BOOLEAN /\ (g => old \in Reach(new))
  BY <1>1, <1>4, Zenon DEF NewWalk
<1>11. ASSUME ~g PROVE Unseen(old, v, od)
  <2>1. ~fl /\ old # p
    BY <1>11, Zenon
  <2>2. Unseen(old, w, od)
    BY <2>1, Zenon DEF NewWalk
  <2>3. ASSUME NEW k \in DOMAIN w, Past(v[k], old) PROVE FALSE
    <3>1. v[k] \in Frames /\ v[k].commit \in Commits
      BY <1>6, <2>3, FrameIn, Zenon
    <3>2. old \in Commits
      BY <2>3, <3>1, PastIn, Zenon
    <3> QED
      BY <1>5, <2>1, <2>2, <2>3, <3>2, Zenon DEF Unseen
  <2> QED
    BY <1>6, <2>2, <2>3, Zenon DEF Unseen
<1> HIDE DEF g
<1>12. NewWalk(new, old, v, sn, od, g)
  BY <1>6, <1>7, <1>9, <1>10, <1>11, Zenon DEF NewWalk
<1> QED
  BY <1>12, Zenon DEF v, g, t

(* Another one is visited next. *)
LEMMA NewWalkPush ==
    ASSUME NEW new \in Commits, NEW old, NEW w, NEW sn, NEW od, NEW fl, NewWalk(new, old, w, sn, od, fl), w # <<>>,
           NEW p, TopOf(w).next <= Len(Parents[TopOf(w).commit]), p = Parents[TopOf(w).commit][TopOf(w).next],
           p \notin Reach(old), p \notin sn
    PROVE  NewWalk(new, old, Append(Moved(w), [commit |-> p, next |-> 1]), sn \cup {p}, od,
                   fl \/ old \in {TopOf(w).commit, p})
<1> DEFINE t == TopOf(w)
           u == Moved(w)
           f == [commit |-> p, next |-> 1]
           v == Append(u, f)
           g == fl \/ old \in {t.commit, p}
<1>1. /\ t \in Frames /\ t = w[Len(w)] /\ Len(w) \in DOMAIN w /\ DOMAIN w = 1 .. Len(w) /\ Len(w) \in Nat
      /\ t.commit \in Commits /\ t.next \in Nat \ {0} /\ t.commit \in OnStack(w) /\ OnStack(w) \subseteq Reach(new)
  BY TopFrame, Zenon
<1>2. w \in Seq(Frames) /\ Moves(w, u)
  BY MovedMoves, Zenon DEF NewWalk
<1>3. p \in Range(Parents[t.commit]) /\ p \in Commits
  <2>1. t.next \in 1 .. Len(Parents[t.commit])
    BY <1>1, ParentsIn
  <2> QED
    BY <1>1, <2>1, ParentsIn, Zenon
<1>4. p \in Reach(new) /\ p # new
  BY <1>1, <1>3, ReachParent, NoCycle, Zenon
<1>14. OnStack(w) \subseteq sn \cup {new} /\ Range(od) \subseteq sn \cup {new}
  BY Zenon DEF NewWalk, Parted
<1> HIDE DEF u, t
<1>5. /\ OnStack(u) = OnStack(w)
      /\ \A k \in DOMAIN w, q \in Commits : Past(u[k], q) => Past(w[k], q) \/ (k = Len(w) /\ q = p)
  BY <1>2, MovedPast, Zenon DEF t
<1>15. DOMAIN u = DOMAIN w /\ Len(u) = Len(w) /\ u \in Seq(Frames) /\ \A k \in DOMAIN w : u[k].commit = w[k].commit
  BY <1>2, Zenon DEF Moves
<1> DEFINE L == Len(w) + 1
<1>6. /\ f \in Frames /\ f.commit = p /\ f.next = 1
  BY <1>3 DEF Frames
<1> HIDE DEF f
<1>16. v \in Seq(Frames) /\ DOMAIN v = 1 .. L /\ v[L] = f /\ \A k \in 1 .. Len(w) : v[k] = u[k]
  BY <1>1, <1>6, <1>15
<1>17. L \notin DOMAIN w /\ (\A k : k \in 1 .. L <=> k \in DOMAIN w \/ k = L) /\ (\A k \in DOMAIN w : k < L /\ ~(L <= k)) /\ L <= L
  BY <1>1
<1> HIDE DEF v, L
<1>18. (\A k \in DOMAIN w : v[k] = u[k] /\ v[k].commit = w[k].commit) /\ v[L].commit = p
  BY <1>1, <1>6, <1>15, <1>16, Zenon
<1>19. \A k : k \in DOMAIN v <=> k \in DOMAIN w \/ k = L
  BY <1>16, <1>17, Zenon
<1>7. OnStack(v) = OnStack(w) \cup {p}
  <2>1. \A x : x \in OnStack(v) <=> \E k \in DOMAIN v : x = v[k].commit
    BY Zenon DEF OnStack
  <2>2. \A x : x \in OnStack(w) <=> \E k \in DOMAIN w : x = w[k].commit
    BY Zenon DEF OnStack
  <2>3. ASSUME NEW k \in DOMAIN w PROVE w[k].commit \in OnStack(v)
    <3>1. k \in DOMAIN v /\ v[k].commit = w[k].commit
      BY <1>18, <1>19, <2>3, Zenon
    <3> QED
      BY <2>1, <3>1, Zenon
  <2>4. p \in OnStack(v)
    BY <1>18, <1>19, <2>1
  <2>5. ASSUME NEW k \in DOMAIN v PROVE v[k].commit \in OnStack(w) \cup {p}
    <3>1. CASE k \in DOMAIN w
      BY <1>18, <2>2, <3>1, Zenon
    <3> QED
      BY <1>18, <1>19, <2>5, <3>1, Zenon
  <2>6. OnStack(v) \subseteq OnStack(w) \cup {p}
    BY <2>1, <2>5
  <2>7. OnStack(w) \subseteq OnStack(v)
    BY <2>2, <2>3
  <2> QED
    BY <2>4, <2>6, <2>7, Zenon
<1>8. Parted(new, v, sn \cup {p}, od)
  BY <1>4, <1>7, <1>14, Zenon DEF NewWalk, Parted
<1>9. Descends(v)
  <2> SUFFICES ASSUME NEW k \in DOMAIN v, NEW m \in DOMAIN v, k <= m PROVE v[m].commit \in Reach(v[k].commit)
    BY Zenon DEF Descends
  <2>1. CASE k \in DOMAIN w /\ m \in DOMAIN w
    BY <1>18, <2>1, Zenon DEF NewWalk, Descends
  <2>2. CASE k \in DOMAIN w /\ m = L
    <3>1. k <= Len(w)
      BY <1>1, <2>2
    <3>2. t.commit \in Reach(w[k].commit)
      BY <1>1, <2>2, <3>1, Zenon DEF NewWalk, Descends
    <3>3. w[k].commit \in Commits
      BY <1>2, <2>2, FrameIn, Zenon
    <3>4. p \in Reach(w[k].commit)
      BY <1>3, <3>2, <3>3, ReachParent, Zenon
    <3> QED
      BY <1>18, <2>2, <3>4, Zenon
  <2>3. CASE k = L /\ m = L
    BY <1>3, <1>18, <2>3, ReachFacts, Zenon
  <2> QED
    BY <1>17, <1>19, <2>1, <2>2, <2>3, Zenon
<1>10. Distinct(v)
  <2>1. p \notin OnStack(w)
    BY <1>4, <1>14, Zenon
  <2>2. \A k \in DOMAIN w : w[k].commit # p
    BY <2>1, Zenon DEF OnStack
  <2>3. Distinct(w)
    BY Zenon DEF NewWalk
  <2> SUFFICES ASSUME NEW k \in DOMAIN v, NEW m \in DOMAIN v, v[k].commit = v[m].commit PROVE k = m
    BY Zenon DEF Distinct
  <2>4. CASE k = L
    BY <1>18, <1>19, <2>2, <2>4, Zenon
  <2>5. CASE m = L
    BY <1>18, <1>19, <2>2, <2>5, Zenon
  <2>6. CASE k \in DOMAIN w /\ m \in DOMAIN w
    BY <1>18, <2>3, <2>6, Zenon DEF Distinct
  <2> QED
    BY <1>19, <2>4, <2>5, <2>6, Zenon
<1>11. \A q : ~Past(v[L], q)
  <2>1. \A n \in DOMAIN Parents[p] : ~(n < 1)
    BY <1>3, ParentsIn
  <2> QED
    BY <1>6, <1>16, <2>1, Zenon DEF Past
<1>12. Visited(v, od, Reach(old))
  <2> SUFFICES ASSUME NEW k \in DOMAIN w, NEW q \in Commits, Past(u[k], q) PROVE Finished(v, od, Reach(old), k, q)
    BY <1>11, <1>18, <1>19, Zenon DEF Visited
  <2>1. CASE Past(w[k], q)
    <3>1. Finished(w, od, Reach(old), k, q)
      BY <2>1, Zenon DEF NewWalk, Visited
    <3> QED
      BY <1>18, <1>19, <3>1, Zenon DEF Finished
  <2>2. CASE q = p
    BY <1>17, <1>18, <1>19, <2>2, Zenon DEF Finished
  <2> QED
    BY <1>5, <2>1, <2>2, Zenon
<1>20. g \in BOOLEAN /\ (g => old \in Reach(new))
  BY <1>1, <1>4, Zenon DEF NewWalk
<1>21. ASSUME ~g PROVE Unseen(old, v, od)
  <2>1. ~fl /\ old # p
    BY <1>21, Zenon
  <2>2. Unseen(old, w, od)
    BY <2>1, Zenon DEF NewWalk
  <2>3. ASSUME NEW k \in DOMAIN w, Past(u[k], old) PROVE FALSE
    <3>1. u[k] \in Frames /\ u[k].commit \in Commits
      BY <1>15, <2>3, FrameIn, Zenon
    <3>2. old \in Commits
      BY <2>3, <3>1, PastIn, Zenon
    <3> QED
      BY <1>5, <2>1, <2>2, <2>3, <3>2, Zenon DEF Unseen
  <2> QED
    BY <1>11, <1>18, <1>19, <2>2, <2>3, Zenon DEF Unseen
<1> HIDE DEF g
<1>22. NewWalk(new, old, v, sn \cup {p}, od, g)
  BY <1>4, <1>8, <1>9, <1>10, <1>12, <1>16, <1>20, <1>21, Zenon DEF NewWalk
<1> QED
  BY <1>22, Zenon DEF v, u, f, g, t

(* A frame past its last parent is listed. *)
LEMMA NewWalkFinish ==
    ASSUME NEW new \in Commits, NEW old, NEW w, NEW sn, NEW od, NEW fl, NewWalk(new, old, w, sn, od, fl), w # <<>>,
           ~(TopOf(w).next <= Len(Parents[TopOf(w).commit]))
    PROVE  NewWalk(new, old, Pop(w), sn, Append(od, TopOf(w).commit), fl \/ old = TopOf(w).commit)
<1> DEFINE t == TopOf(w)
           c == t.commit
           v == Pop(w)
           e == Append(od, c)
           g == fl \/ old = c
           R == Reach(old)
<1>1. /\ t = w[Len(w)] /\ Len(w) \in DOMAIN w /\ DOMAIN w = 1 .. Len(w) /\ Len(w) \in Nat
      /\ c \in Commits /\ t.next \in Nat \ {0} /\ c \in OnStack(w) /\ OnStack(w) \subseteq Reach(new)
  BY TopFrame, Zenon
<1>2. w \in Seq(Frames) /\ od \in Seq(Commits)
  BY Zenon DEF NewWalk
<1>3. v \in Seq(Frames) /\ Len(v) = Len(w) - 1 /\ \A k \in 1 .. (Len(w) - 1) : v[k] = w[k]
  BY <1>2, PopParts, Zenon
<1>4. \A p \in Range(Parents[c]) : p \in Commits /\ Past(w[Len(w)], p)
  <2> SUFFICES ASSUME NEW n \in DOMAIN Parents[c] PROVE Parents[c][n] \in Commits /\ Past(w[Len(w)], Parents[c][n])
    BY Zenon DEF Range
  <2>1. n \in 1 .. Len(Parents[c]) /\ n < t.next
    BY <1>1, ParentsIn
  <2>2. Parents[c][n] \in Commits
    BY <1>1, <2>1, ParentsIn, Zenon
  <2> QED
    BY <1>1, <2>1, <2>2, Zenon DEF Past
<1> HIDE DEF v, t
<1>5. (\A k : k \in DOMAIN v <=> k \in DOMAIN w /\ k # Len(w)) /\ \A k \in DOMAIN v : v[k] = w[k]
  <2>1. DOMAIN v = 1 .. (Len(w) - 1)
    BY <1>1, <1>3
  <2>2. \A k : k \in 1 .. (Len(w) - 1) <=> k \in 1 .. Len(w) /\ k # Len(w)
    BY <1>1
  <2> QED
    BY <1>1, <1>3, <2>1, <2>2, Zenon
<1> DEFINE L == Len(od) + 1
<1>6. e \in Seq(Commits) /\ DOMAIN e = 1 .. L /\ e[L] = c /\ \A j \in 1 .. Len(od) : e[j] = od[j]
  BY <1>1, <1>2
<1>7. /\ DOMAIN od = 1 .. Len(od) /\ L \notin DOMAIN od /\ (\A j : j \in 1 .. L <=> j \in DOMAIN od \/ j = L)
      /\ \A j \in DOMAIN od : j < L /\ ~(L < j)
  BY <1>2
<1> HIDE DEF e, c, L
<1>8. (\A j : j \in DOMAIN e <=> j \in DOMAIN od \/ j = L) /\ (\A j \in DOMAIN od : e[j] = od[j]) /\ e[L] = c
  BY <1>6, <1>7, Zenon
<1>9. Range(e) = Range(od) \cup {c}
  <2>1. ASSUME NEW j \in DOMAIN e PROVE e[j] \in Range(od) \cup {c}
    <3>1. CASE j \in DOMAIN od
      BY <1>8, <3>1, Zenon DEF Range
    <3> QED
      BY <1>8, <2>1, <3>1, Zenon
  <2>2. Range(e) \subseteq Range(od) \cup {c}
    BY <2>1, Zenon DEF Range
  <2>3. ASSUME NEW j \in DOMAIN od PROVE od[j] \in Range(e)
    <3>1. j \in DOMAIN e /\ e[j] = od[j]
      BY <1>8, <2>3, Zenon
    <3> QED
      BY <3>1, Zenon DEF Range
  <2>4. Range(od) \subseteq Range(e)
    BY <2>3, Zenon DEF Range
  <2>5. L \in DOMAIN e
    BY <1>8, Zenon
  <2>6. c \in Range(e)
    BY <1>8, <2>5, Zenon DEF Range
  <2> QED
    BY <2>2, <2>4, <2>6, Zenon
<1>10. c \notin Range(od) /\ c \notin OnStack(v) /\ OnStack(w) = OnStack(v) \cup {c}
  <2>1. c \notin Range(od)
    BY <1>1, Zenon DEF NewWalk, Parted
  <2>2. ASSUME NEW k \in DOMAIN v PROVE v[k].commit # c
    <3>1. Distinct(w)
      BY Zenon DEF NewWalk
    <3>2. k \in DOMAIN w /\ k # Len(w) /\ v[k] = w[k]
      BY <1>5, <2>2, Zenon
    <3> QED
      BY <1>1, <3>1, <3>2, Zenon DEF Distinct, c
  <2>3. c \notin OnStack(v)
    BY <2>2, Zenon DEF OnStack
  <2>4. ASSUME NEW k \in DOMAIN w PROVE w[k].commit \in OnStack(v) \cup {c}
    <3>1. CASE k = Len(w)
      BY <1>1, <3>1, Zenon DEF c
    <3>2. CASE k # Len(w)
      <4>1. k \in DOMAIN v /\ v[k] = w[k]
        BY <1>5, <2>4, <3>2, Zenon
      <4> QED
        BY <4>1, Zenon DEF OnStack
    <3> QED
      BY <3>1, <3>2, Zenon
  <2>5. OnStack(w) \subseteq OnStack(v) \cup {c}
    BY <2>4, Zenon DEF OnStack
  <2>6. ASSUME NEW k \in DOMAIN v PROVE v[k].commit \in OnStack(w)
    BY <1>5, <2>6, Zenon DEF OnStack
  <2>7. OnStack(v) \subseteq OnStack(w)
    BY <2>6, Zenon DEF OnStack
  <2> QED
    BY <1>1, <2>1, <2>3, <2>5, <2>7, Zenon
<1>11. Parted(new, v, sn, e)
  <2>1. Parted(new, w, sn, od)
    BY Zenon DEF NewWalk
  <2> QED
    BY <1>9, <1>10, <2>1, Zenon DEF Parted
<1>12. Descends(v) /\ Distinct(v)
  <2>1. Descends(w) /\ Distinct(w)
    BY Zenon DEF NewWalk
  <2> QED
    BY <1>5, <2>1, Zenon DEF Descends, Distinct
<1>13. \A p \in Range(Parents[c]) : p \in R \/ p \in Range(od)
  <2> SUFFICES ASSUME NEW p \in Range(Parents[c]) PROVE p \in R \/ p \in Range(od)
    BY Zenon
  <2>1. Finished(w, od, R, Len(w), p)
    BY <1>1, <1>4, Zenon DEF NewWalk, Visited
  <2>2. \A m \in DOMAIN w : ~(Len(w) < m)
    BY <1>1
  <2> QED
    BY <2>1, <2>2, Zenon DEF Finished
<1>14. Listed(e, R)
  <2>1. Listed(od, R)
    BY Zenon DEF NewWalk
  <2>2. \A j \in DOMAIN od : od[j] # c
    BY <1>10, Zenon DEF Range
  <2>3. IsInjective(e)
    <3> SUFFICES ASSUME NEW i \in DOMAIN e, NEW j \in DOMAIN e, e[i] = e[j] PROVE i = j
      BY Zenon DEF IsInjective
    <3>1. CASE i = L
      BY <1>8, <2>2, <3>1, Zenon
    <3>2. CASE j = L
      BY <1>8, <2>2, <3>2, Zenon
    <3>3. CASE i \in DOMAIN od /\ j \in DOMAIN od
      BY <1>8, <2>1, <3>3, Zenon DEF Listed, IsInjective
    <3> QED
      BY <1>8, <3>1, <3>2, <3>3, Zenon
  <2>4. ASSUME NEW j \in DOMAIN e, NEW p \in Range(Parents[e[j]]), p \notin R
        PROVE  \E i \in DOMAIN e : i < j /\ e[i] = p
    <3>1. CASE j = L
      <4>1. PICK i \in DOMAIN od : od[i] = p
        BY <1>8, <1>13, <2>4, <3>1, Zenon DEF Range
      <4> QED
        BY <1>7, <1>8, <3>1, <4>1, Zenon
    <3>2. CASE j \in DOMAIN od
      <4>1. PICK i \in DOMAIN od : i < j /\ od[i] = p
        BY <1>8, <2>1, <2>4, <3>2, Zenon DEF Listed
      <4> QED
        BY <1>8, <4>1, Zenon
    <3> QED
      BY <1>8, <2>4, <3>1, <3>2, Zenon
  <2> QED
    BY <2>3, <2>4, Zenon DEF Listed
<1>15. Visited(v, e, R)
  <2> SUFFICES ASSUME NEW k \in DOMAIN v, NEW q \in Commits, Past(v[k], q) PROVE Finished(v, e, R, k, q)
    BY Zenon DEF Visited
  <2>1. k \in DOMAIN w /\ Past(w[k], q)
    BY <1>5, Zenon
  <2>2. Finished(w, od, R, k, q)
    BY <2>1, Zenon DEF NewWalk, Visited
  <2>3. CASE q \in R \/ q \in Range(od)
    BY <1>9, <2>3, Zenon DEF Finished
  <2>4. ASSUME NEW m \in DOMAIN w, k < m, w[m].commit = q PROVE Finished(v, e, R, k, q)
    <3>1. CASE m = Len(w)
      BY <1>1, <1>9, <2>4, <3>1, Zenon DEF Finished, c
    <3>2. CASE m # Len(w)
      BY <1>5, <2>4, <3>2, Zenon DEF Finished
    <3> QED
      BY <3>1, <3>2, Zenon
  <2> QED
    BY <2>2, <2>3, <2>4, Zenon DEF Finished
<1>16. g \in BOOLEAN /\ (g => old \in Reach(new))
  BY <1>1, Zenon DEF NewWalk
<1>17. ASSUME ~g PROVE Unseen(old, v, e)
  <2>1. ~fl /\ old # c
    BY <1>17, Zenon
  <2>2. Unseen(old, w, od)
    BY <2>1, Zenon DEF NewWalk
  <2>3. old \notin Range(Parents[c])
    BY <1>1, <1>4, <2>2, Zenon DEF Unseen
  <2>4. ASSUME NEW x \in Range(e) PROVE x # old /\ old \notin Range(Parents[x])
    <3>1. CASE x = c
      BY <2>1, <2>3, <3>1, Zenon
    <3>2. CASE x # c
      <4>1. x \in Range(od)
        BY <1>9, <2>4, <3>2, Zenon
      <4> QED
        BY <2>2, <4>1, Zenon DEF Unseen
    <3> QED
      BY <3>1, <3>2, Zenon
  <2>5. ASSUME NEW k \in DOMAIN v PROVE ~Past(v[k], old)
    BY <1>5, <2>2, <2>5, Zenon DEF Unseen
  <2> QED
    BY <2>4, <2>5, Zenon DEF Unseen
<1> HIDE DEF g, R
<1>18. NewWalk(new, old, v, sn, e, g)
  BY <1>3, <1>6, <1>11, <1>12, <1>14, <1>15, <1>16, <1>17, Zenon DEF NewWalk, R
<1> QED
  BY <1>18, Zenon DEF v, e, g, c, t

(* The walk begins. *)
LEMMA NewWalkStart ==
    ASSUME NEW new \in Commits, NEW old
    PROVE  NewWalk(new, old, <<[commit |-> new, next |-> 1]>>, {}, <<>>, FALSE)
<1> DEFINE f == [commit |-> new, next |-> 1]
           w == <<f>>
<1>1. f \in Frames /\ f.commit = new /\ f.next = 1
  BY DEF Frames
<1> HIDE DEF f
<1>2. w \in Seq(Frames) /\ DOMAIN w = {1} /\ w[1] = f
  BY <1>1
<1> HIDE DEF w
<1>3. \A p : ~Past(f, p)
  <2>1. \A n \in DOMAIN Parents[new] : ~(n < 1)
    BY ParentsIn
  <2> QED
    BY <1>1, <2>1, Zenon DEF Past
<1>4. OnStack(w) = {new}
  BY <1>1, <1>2, Zenon DEF OnStack
<1>5. <<>> \in Seq(Commits) /\ DOMAIN <<>> = {} /\ Range(<<>>) = {}
  BY DEF Range
<1>6. Descends(w) /\ Distinct(w) /\ Visited(w, <<>>, Reach(old))
  BY <1>1, <1>2, <1>3, ReachFacts, Zenon DEF Descends, Distinct, Visited
<1>7. Parted(new, w, {}, <<>>)
  BY <1>4, <1>5, Zenon DEF Parted
<1>8. Listed(<<>>, Reach(old))
  BY <1>5, Zenon DEF Listed, IsInjective
<1>9. Unseen(old, w, <<>>)
  BY <1>2, <1>3, <1>5, Zenon DEF Unseen
<1>10. NewWalk(new, old, w, {}, <<>>, FALSE)
  BY <1>2, <1>5, <1>6, <1>7, <1>8, <1>9, Zenon DEF NewWalk
<1> QED
  BY <1>10, Zenon DEF w, f

(* At its end the list is what the new target adds. *)
LEMMA NewWalkEnd ==
    ASSUME NEW new \in Commits, NEW old, CommitAt(old), new # old, NEW sn, NEW od, NEW fl,
           NewWalk(new, old, <<>>, sn, od, fl)
    PROVE  /\ new \notin Reach(old) => Range(od) = Reach(new) \ Reach(old)
           /\ IsInjective(od)
           /\ \A i, j \in DOMAIN od : od[i] \in Range(Parents[od[j]]) => i < j
           /\ fl <=> old \in Reach(new)
<1> DEFINE D == Range(od)
           R == Reach(old)
<1>1. DOMAIN <<>> = {} /\ OnStack(<<>>) = {}
  BY DEF OnStack
<1>2. /\ D = sn \cup {new} /\ sn \subseteq Reach(new) /\ sn \cap R = {} /\ new \in Reach(new)
      /\ Reach(new) \subseteq Commits /\ R \subseteq Commits
  <2>1. D = sn \cup {new}
    BY <1>1, Zenon DEF NewWalk, Parted
  <2>2. R \subseteq Commits
    BY Zenon DEF Reach
  <2> QED
    BY <2>1, <2>2, ReachFacts, Zenon DEF NewWalk
<1>3. Listed(od, R)
  BY Zenon DEF NewWalk
<1>4. ASSUME NEW d \in D, NEW p \in Range(Parents[d]) PROVE p \in R \/ p \in D
  <2>1. PICK j \in DOMAIN od : od[j] = d
    BY <1>4, Zenon DEF Range
  <2> QED
    BY <1>3, <1>4, <2>1, Zenon DEF Listed, Range
<1>5. ASSUME NEW d \in R, NEW p \in Range(Parents[d]) PROVE p \in R /\ p # old
  <2>1. old \in Commits
    BY <1>5, Zenon DEF Reach
  <2> QED
    BY <1>5, <2>1, ReachParent, NoCycle, Zenon
<1>6. Reach(new) \subseteq D \cup R
  <2> DEFINE S == D \cup R
  <2>1. S \in SUBSET Commits /\ new \in S
    BY <1>2, Zenon
  <2>2. Ancestral(S)
    BY <1>4, <1>5, Zenon DEF Ancestral
  <2> HIDE DEF S
  <2>3. Reach(new) \subseteq S
    BY <2>1, <2>2, ReachLeast, Zenon
  <2> QED
    BY <2>3, Zenon DEF S
<1>7. new \notin R => D = Reach(new) \ R
  BY <1>2, <1>6, Zenon
<1>8. ASSUME NEW i \in DOMAIN od, NEW j \in DOMAIN od, od[i] \in Range(Parents[od[j]]) PROVE i < j
  <2>1. od[i] \in D /\ od[j] \in D /\ od[j] \in Reach(new)
    BY <1>2, <1>8, Zenon DEF Range
  <2>2. od[i] # new
    BY <1>8, <2>1, NoCycle, Zenon
  <2>3. od[i] \notin R
    BY <1>2, <2>1, <2>2, Zenon
  <2>4. PICK k \in DOMAIN od : k < j /\ od[k] = od[i]
    BY <1>3, <1>8, <2>3, Zenon DEF Listed
  <2> QED
    BY <1>3, <2>4, Zenon DEF Listed, IsInjective
<1>9. ASSUME old \in Reach(new), ~fl PROVE FALSE
  <2>1. Unseen(old, <<>>, od)
    BY <1>9, Zenon DEF NewWalk
  <2>2. \A d \in D : d # old /\ old \notin Range(Parents[d])
    BY <2>1, Zenon DEF Unseen
  <2> DEFINE S == D \cup (R \ {old})
  <2>3. S \in SUBSET Commits /\ new \in S
    BY <1>2, Zenon
  <2>4. ASSUME NEW d \in S, NEW p \in Range(Parents[d]) PROVE p \in S
    <3>1. CASE d \in D
      BY <1>4, <2>2, <2>4, <3>1, Zenon
    <3>2. CASE d \in R
      BY <1>5, <2>4, <3>2, Zenon
    <3> QED
      BY <2>4, <3>1, <3>2, Zenon
  <2>5. Ancestral(S)
    BY <2>4, Zenon DEF Ancestral
  <2>6. old \notin S
    BY <2>2, Zenon
  <2> HIDE DEF S
  <2> QED
    BY <1>9, <2>3, <2>5, <2>6, ReachLeast, Zenon
<1>10. fl <=> old \in Reach(new)
  BY <1>9, Zenon DEF NewWalk
<1> QED
  BY <1>3, <1>7, <1>8, <1>10, Zenon DEF Listed

-----------------------------------------------------------------------------
LEMMA EventInvInit == PushEventsInit => EventInv
  BY Zenon DEF PushEventsInit, EventInv

LEMMA BuildKeeps == ASSUME EventInv, NEW old, NEW new, Build([old |-> old, new |-> new]) PROVE EventInv'
<1> DEFINE u == [old |-> old, new |-> new]
<1>1. u.old = old /\ u.new = new
  OBVIOUS
<1> HIDE DEF u
<1>2. /\ building = "idle" /\ walk = <<>> /\ seen = {} /\ update' = u /\ seen' = seen
      /\ ordered = <<>> /\ ordered' = <<>> /\ oldIsAncestor = FALSE /\ oldIsAncestor' = FALSE
  BY Zenon DEF Build, EventInv, u
<1>3. CASE building' = "failed"
  BY <1>3, Zenon DEF EventInv
<1>4. CASE building' = "built" /\ (~CommitAt(old) \/ ~CommitAt(new) \/ new = Zero)
  <2>1. ~(update'.new \in Commits /\ CommitAt(update'.old))
    BY <1>1, <1>2, <1>4, HistoryAssumption, Zenon DEF CommitAt
  <2>2. CommitsInOrder'
    BY <2>1, Zenon DEF CommitsInOrder, CommitAt
  <2> QED
    BY <1>4, <2>2, Zenon DEF EventInv
<1>5. CASE /\ CommitAt(old) /\ CommitAt(new) /\ new # Zero
           /\ building' = "old" /\ walk' = IF old = Zero THEN <<>> ELSE <<old>>
  <2>1. new \in Commits
    BY <1>5, Zenon DEF CommitAt
  <2>2. OldWalk(old, walk', {})
    <3>1. CASE old = Zero
      <4>1. walk' = <<>> /\ <<>> \in Seq(Commits) /\ Range(<<>>) = {}
        BY <1>5, <3>1 DEF Range
      <4> QED
        BY <3>1, <4>1, Zenon DEF OldWalk
    <3>2. CASE old # Zero
      <4>1. old \in Commits
        BY <1>5, <3>2, Zenon DEF CommitAt
      <4>2. walk' = <<old>> /\ <<old>> \in Seq(Commits) /\ Range(<<old>>) = {old}
        BY <1>5, <3>2, <4>1 DEF Range
      <4>3. old \in Reach(old)
        BY <4>1, ReachFacts, Zenon
      <4> QED
        BY <4>1, <4>2, <4>3, Zenon DEF OldWalk
    <3> QED
      BY <3>1, <3>2, Zenon
  <2> QED
    BY <1>1, <1>2, <1>5, <2>1, <2>2, Zenon DEF EventInv, CommitAt
<1> QED
  BY <1>1, <1>3, <1>4, <1>5, Zenon DEF Build, u

LEMMA WalkOldKeeps == ASSUME EventInv, WalkOld PROVE EventInv'
<1>1. /\ building = "old" /\ building' = "old" /\ walk # <<>> /\ OldWalk(update.old, walk, seen) /\ update' = update
      /\ UNCHANGED <<ordered, oldIsAncestor>>
  BY Zenon DEF WalkOld, EventInv
<1>2. OldWalk(update.old, walk', seen')
  <2>1. CASE TopOf(walk) \in seen
    BY <1>1, <2>1, OldWalkPop, Zenon DEF WalkOld
  <2>2. CASE TopOf(walk) \notin seen
    <3> DEFINE old == update.old
    <3>1. walk' = Pop(walk) \o Parents[TopOf(walk)] /\ seen' = seen \cup {TopOf(walk)}
      BY <2>2, Zenon DEF WalkOld
    <3>2. OldWalk(old, walk, seen) /\ walk # <<>>
      BY <1>1, Zenon
    <3> HIDE DEF old
    <3>3. OldWalk(old, Pop(walk) \o Parents[TopOf(walk)], seen \cup {TopOf(walk)})
      BY <3>2, OldWalkVisit
    <3> QED
      BY <3>1, <3>3, Zenon DEF old
  <2> QED
    BY <2>1, <2>2, Zenon
<1> QED
  BY <1>1, <1>2, Zenon DEF EventInv, CommitAt

LEMMA StartNewKeeps == ASSUME EventInv, StartNew PROVE EventInv'
<1>1. /\ building = "old" /\ walk = <<>> /\ update' = update /\ ordered = <<>> /\ ordered' = <<>>
      /\ oldReachable' = seen /\ seen' = {} /\ oldIsAncestor = FALSE /\ OldWalk(update.old, <<>>, seen)
      /\ update.new \in Commits /\ CommitAt(update.old)
  BY Zenon DEF StartNew, EventInv
<1>2. oldReachable' = Reach(update.old)
  BY <1>1, OldWalkEnd, Zenon
<1>3. CASE update.new = update.old
  <2>1. building' = "built" /\ oldIsAncestor' = TRUE
    BY <1>3, Zenon DEF StartNew
  <2>2. DOMAIN <<>> = {} /\ Range(<<>>) = {}
    BY DEF Range
  <2>3. update.old \in Reach(update.new)
    BY <1>1, <1>3, ReachFacts, Zenon
  <2>4. CommitsInOrder'
    <3>1. Reach(update.new) \ Reach(update.old) = {}
      BY <1>3, Zenon
    <3>2. IsInjective(<<>>)
      BY <2>2, Zenon DEF IsInjective
    <3>3. ~Forced'
      BY <2>1, Zenon DEF Forced
    <3> QED
      BY <1>1, <2>2, <2>3, <3>1, <3>2, <3>3, Zenon DEF CommitsInOrder
  <2> QED
    BY <2>1, <2>4, Zenon DEF EventInv
<1>4. CASE update.new # update.old
  <2>1. building' = "new" /\ oldIsAncestor' = FALSE /\ walk' = <<[commit |-> update.new, next |-> 1]>>
    BY <1>1, <1>4, Zenon DEF StartNew
  <2>2. NewWalk(update.new, update.old, walk', {}, <<>>, FALSE)
    BY <1>1, <2>1, NewWalkStart, Zenon
  <2> QED
    BY <1>1, <1>2, <1>4, <2>1, <2>2, Zenon DEF EventInv, CommitAt
<1> QED
  BY <1>3, <1>4, Zenon

LEMMA WalkNewKeeps == ASSUME EventInv, WalkNew PROVE EventInv'
<1> DEFINE t == TopOf(walk)
           p == Parents[t.commit][t.next]
           new == update.new
           old == update.old
<1>1. /\ building = "new" /\ building' = "new" /\ walk # <<>> /\ update' = update
      /\ oldReachable' = oldReachable /\ oldReachable = Reach(update.old)
      /\ update.new \in Commits /\ CommitAt(update.old) /\ update.new # update.old
      /\ NewWalk(update.new, update.old, walk, seen, ordered, oldIsAncestor)
  BY Zenon DEF WalkNew, EventInv
<1>2. NewWalk(update.new, update.old, walk', seen', ordered', oldIsAncestor')
  <2>1. CASE t.next <= Len(Parents[t.commit]) /\ (p \in Reach(update.old) \/ p \in seen)
    <3>1. /\ walk' = Moved(walk) /\ seen' = seen /\ ordered' = ordered
          /\ oldIsAncestor' = (oldIsAncestor \/ update.old \in {t.commit, p})
      BY <1>1, <2>1, Zenon DEF WalkNew, Moved
    <3>2. /\ new \in Commits /\ NewWalk(new, old, walk, seen, ordered, oldIsAncestor) /\ walk # <<>>
          /\ t.next <= Len(Parents[t.commit]) /\ (p \in Reach(old) \/ p \in seen)
      BY <1>1, <2>1, Zenon
    <3> HIDE DEF new, old, t, p
    <3>3. NewWalk(new, old, Moved(walk), seen, ordered, oldIsAncestor \/ old \in {t.commit, p})
      BY <3>2, NewWalkSkip DEF t, p
    <3> QED
      BY <3>1, <3>3, Zenon DEF new, old, t, p
  <2>2. CASE t.next <= Len(Parents[t.commit]) /\ p \notin Reach(update.old) /\ p \notin seen
    <3>1. /\ walk' = Append(Moved(walk), [commit |-> p, next |-> 1]) /\ seen' = seen \cup {p} /\ ordered' = ordered
          /\ oldIsAncestor' = (oldIsAncestor \/ update.old \in {t.commit, p})
      BY <1>1, <2>2, Zenon DEF WalkNew, Moved
    <3>2. /\ new \in Commits /\ NewWalk(new, old, walk, seen, ordered, oldIsAncestor) /\ walk # <<>>
          /\ t.next <= Len(Parents[t.commit]) /\ p \notin Reach(old) /\ p \notin seen
      BY <1>1, <2>2, Zenon
    <3> HIDE DEF new, old, t, p
    <3>3. NewWalk(new, old, Append(Moved(walk), [commit |-> p, next |-> 1]), seen \cup {p}, ordered,
                  oldIsAncestor \/ old \in {t.commit, p})
      BY <3>2, NewWalkPush DEF t, p
    <3> QED
      BY <3>1, <3>3, Zenon DEF new, old, t, p
  <2>3. CASE ~(t.next <= Len(Parents[t.commit]))
    <3>1. /\ walk' = Pop(walk) /\ seen' = seen /\ ordered' = Append(ordered, t.commit)
          /\ oldIsAncestor' = (oldIsAncestor \/ update.old = t.commit)
      BY <2>3, Zenon DEF WalkNew
    <3>2. /\ new \in Commits /\ NewWalk(new, old, walk, seen, ordered, oldIsAncestor) /\ walk # <<>>
          /\ ~(t.next <= Len(Parents[t.commit]))
      BY <1>1, <2>3, Zenon
    <3> HIDE DEF new, old, t, p
    <3>3. NewWalk(new, old, Pop(walk), seen, Append(ordered, t.commit), oldIsAncestor \/ old = t.commit)
      BY <3>2, NewWalkFinish DEF t, p
    <3> QED
      BY <3>1, <3>3, Zenon DEF new, old, t, p
  <2> QED
    BY <2>1, <2>2, <2>3, Zenon
<1> QED
  BY <1>1, <1>2, Zenon DEF EventInv, CommitAt

LEMMA EndNewKeeps == ASSUME EventInv, EndNew PROVE EventInv'
<1>1. /\ building = "new" /\ building' = "built" /\ walk = <<>> /\ update' = update /\ ordered' = ordered
      /\ oldIsAncestor' = oldIsAncestor
      /\ update.new \in Commits /\ CommitAt(update.old) /\ update.new # update.old
      /\ NewWalk(update.new, update.old, <<>>, seen, ordered, oldIsAncestor)
  BY Zenon DEF EndNew, EventInv
<1>2. /\ update.new \notin Reach(update.old) => Range(ordered) = Reach(update.new) \ Reach(update.old)
      /\ IsInjective(ordered)
      /\ \A i, j \in DOMAIN ordered : ordered[i] \in Range(Parents[ordered[j]]) => i < j
      /\ oldIsAncestor <=> update.old \in Reach(update.new)
  <2> DEFINE new == update.new
             old == update.old
  <2>1. /\ new \in Commits /\ CommitAt(old) /\ new # old
        /\ NewWalk(new, old, <<>>, seen, ordered, oldIsAncestor)
    BY <1>1, Zenon
  <2> HIDE DEF new, old
  <2>2. /\ new \notin Reach(old) => Range(ordered) = Reach(new) \ Reach(old)
        /\ IsInjective(ordered)
        /\ \A i, j \in DOMAIN ordered : ordered[i] \in Range(Parents[ordered[j]]) => i < j
        /\ oldIsAncestor <=> old \in Reach(new)
    BY <2>1, NewWalkEnd
  <2> QED
    BY <2>2, Zenon DEF new, old
<1>3. Forced' <=> update.old # Zero /\ ~oldIsAncestor
  BY <1>1, Zenon DEF Forced, CommitAt
<1>4. ~Rewound => update.new \notin Reach(update.old)
  BY <1>1, Zenon DEF Rewound
<1>5. CommitsInOrder'
  BY <1>1, <1>2, <1>3, <1>4, Zenon DEF CommitsInOrder, Rewound
<1> QED
  BY <1>1, <1>5, Zenon DEF EventInv

LEMMA EventInvStep == EventInv /\ [PushEventsNext]_peVars => EventInv'
<1> SUFFICES ASSUME EventInv, [PushEventsNext]_peVars PROVE EventInv'
  BY Zenon
<1>1. ASSUME BuildFails PROVE EventInv'
  BY <1>1, Zenon DEF BuildFails, EventInv
<1>2. CASE UNCHANGED peVars
  BY <1>2, Zenon DEF peVars, EventInv, CommitAt, CommitsInOrder, Rewound, Forced
<1> QED
  BY <1>1, <1>2, BuildKeeps, WalkOldKeeps, StartNewKeeps, WalkNewKeeps, EndNewKeeps, Zenon DEF PushEventsNext

(* CommitsInOrder holds for every history and every update of a reference: the
   event of a push lists the commits it adds, each once and behind its parents,
   and says rightly whether it was forced. *)
THEOREM EventListsCommits == PushEventsSpec => []CommitsInOrder
<1>1. EventInv => CommitsInOrder
  BY Zenon DEF EventInv, CommitsInOrder
<1> QED
  BY <1>1, EventInvInit, EventInvStep, PTL DEF PushEventsSpec
=============================================================================
