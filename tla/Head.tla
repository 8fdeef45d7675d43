-------------------------------- MODULE Head --------------------------------
(***************************************************************************)
(* A repository's HEAD: storerFor, load, loadOrInit, ensureHEAD and        *)
(* pickDefaultBranch of cmd/objgitd/git_protocol.go, and the heal after a  *)
(* push in hooks.go.  Sessions of several clients interleave between the   *)
(* reads and the write of a heal.  git.Init is go-git's, modelled from its *)
(* use: it refuses a repository that has a HEAD and then sets one.         *)
(***************************************************************************)
EXTENDS Integers, Sequences, FiniteSets, SequencesExt

CONSTANTS
    Session,      \* [name, kind, adds, drops]: a "push", or "clone"s without end
    BranchOrder,  \* every branch: main, master, trunk, then by name
    MaxHeadFaults \* HEAD writes that fail

ASSUME HeadAssumption ==
    /\ \A s \in Session : s.kind \in {"push", "clone"} /\ s.adds \union s.drops \subseteq ToSet(BranchOrder)
    /\ BranchOrder # <<>> /\ MaxHeadFaults \in Nat

NoHead == "no HEAD"
Main == BranchOrder[1]

VARIABLES
    head,       \* the target of HEAD
    branches,   \* the branches that exist
    session,    \* each session: where it is, what it read, what it does next
    headFaults

hdVars == <<head, branches, session, headFaults>>

HeadInit ==
    /\ head = NoHead /\ branches = {} /\ headFaults = 0
    /\ session = [s \in Session |-> [at |-> "resolve", target |-> NoHead, then |-> "resolve"]]

SessionAt(s, at, target, then) == session' = [session EXCEPT ![s] = [at |-> at, target |-> target, then |-> then]]
-----------------------------------------------------------------------------
(* storerFor: a repository exists when it has a HEAD. *)
Exists == head # NoHead

(* Mutant of Resolve: the loads do not heal. *)
ResolveUnhealed(s) ==
    /\ session[s].at = "resolve"
    /\ IF Exists THEN SessionAt(s, IF s.kind = "push" THEN "receive" ELSE "resolve", NoHead, "resolve")
       ELSE s.kind = "push" /\ SessionAt(s, "init", NoHead, "receive")
    /\ UNCHANGED <<head, branches, headFaults>>

(* load and loadOrInit: heal what exists; a push creates what does not. *)
Resolve(s) ==
    /\ session[s].at = "resolve"
    /\ IF Exists THEN SessionAt(s, "heal", NoHead, IF s.kind = "push" THEN "receive" ELSE "resolve")
       ELSE s.kind = "push" /\ SessionAt(s, "init", NoHead, "receive")
    /\ UNCHANGED <<head, branches, headFaults>>

(* git.Init: the check and the write are apart. *)
InitCheck(s) ==
    /\ session[s].at = "init"
    /\ IF Exists THEN SessionAt(s, "failed", NoHead, "failed") ELSE SessionAt(s, "create", NoHead, "receive")
    /\ UNCHANGED <<head, branches, headFaults>>
InitWrite(s) ==
    /\ session[s].at = "create"
    /\ head' = Main
    /\ SessionAt(s, "receive", NoHead, "receive")
    /\ UNCHANGED <<branches, headFaults>>

(* ensureHEAD, read by read: HEAD, its target, the branches; then the write. *)
ReadHead(s) ==
    /\ session[s].at = "heal"
    /\ SessionAt(s, "target", head, session[s].then)
    /\ UNCHANGED <<head, branches, headFaults>>
ReadTarget(s) ==
    /\ session[s].at = "target"
    /\ IF session[s].target \in branches THEN SessionAt(s, session[s].then, NoHead, session[s].then)
       ELSE SessionAt(s, "pick", NoHead, session[s].then)
    /\ UNCHANGED <<head, branches, headFaults>>

(* pickDefaultBranch: by rank, then by name; none is no branch. *)
pickDefaultBranch ==
    LET present == SelectSeq(BranchOrder, LAMBDA b : b \in branches)
    IN  IF present = <<>> THEN NoHead ELSE present[1]
PickBranch(s) ==
    /\ session[s].at = "pick"
    /\ IF pickDefaultBranch = NoHead THEN SessionAt(s, session[s].then, NoHead, session[s].then)
       ELSE SessionAt(s, "set", pickDefaultBranch, session[s].then)
    /\ UNCHANGED <<head, branches, headFaults>>
SetHead(s) ==
    /\ session[s].at = "set"
    /\ head' = session[s].target
    /\ SessionAt(s, session[s].then, NoHead, session[s].then)
    /\ UNCHANGED <<branches, headFaults>>

(* A heal that fails is logged and the request goes on. *)
SetHeadFails(s) ==
    /\ session[s].at = "set" /\ headFaults < MaxHeadFaults
    /\ headFaults' = headFaults + 1
    /\ SessionAt(s, session[s].then, NoHead, session[s].then)
    /\ UNCHANGED <<head, branches>>

(* receivePack and healHEADAfterPush: the refs change; only a push that
   succeeded heals. *)
Receive(s) ==
    /\ session[s].at = "receive"
    /\ branches' = (branches \union s.adds) \ s.drops
    /\ SessionAt(s, "heal", NoHead, "done")
    /\ UNCHANGED <<head, headFaults>>
ReceiveFails(s) ==
    /\ session[s].at = "receive"
    /\ SessionAt(s, "failed", NoHead, "failed")
    /\ UNCHANGED <<head, branches, headFaults>>

HeadStep(s) ==
    Resolve(s) \/ InitCheck(s) \/ InitWrite(s) \/ ReadHead(s) \/ ReadTarget(s) \/ PickBranch(s) \/ SetHead(s) \/ Receive(s)
HeadNext == \E s \in Session : HeadStep(s) \/ SetHeadFails(s) \/ ReceiveFails(s)
-----------------------------------------------------------------------------
(* Once pushes stop, HEAD comes to name a branch that exists whenever there is
   one, and stays: the next clone heals what racing pushes, a racing Init or a
   failed write left dangling. *)
HeadHeals == <>[](branches = {} \/ head \in branches)
=============================================================================
