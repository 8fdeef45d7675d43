----------------------------- MODULE PushEvents -----------------------------
(***************************************************************************)
(* The payload of a push webhook: internal/pushevents/push.go.  Build      *)
(* walks what the old target reaches, then the commits the new one adds,   *)
(* and compares trees.                                                     *)
(*                                                                         *)
(* A commit is its tree and the order of its parents; a tree maps names to *)
(* a mode and a hash.  Messages, signatures and the encoding of paths are  *)
(* left out.                                                               *)
(***************************************************************************)
EXTENDS Integers, Sequences, Functions

CONSTANTS
    Parents,    \* commit -> the sequence of its parents
    TreeHash,   \* commit -> its tree
    Entries,    \* tree -> the entries, name -> [mode, hash]
    OtherTarget \* targets that are no commit, an annotated tag for instance

Zero == "zero hash"
Commits == DOMAIN Parents
Targets == Commits \union OtherTarget \union {Zero}

(* A commit names its parents by their hashes, so no commit is its own
   ancestor: every set of commits has one with no parent in it. *)
ASSUME HistoryAssumption ==
    /\ Parents \in [Commits -> Seq(Commits)] /\ Zero \notin Commits
    /\ \A S \in SUBSET Commits : S # {} => \E c \in S : Range(Parents[c]) \intersect S = {}

VARIABLES
    update,        \* the ref update, old and new target
    building,      \* how far Build is
    walk,          \* the stack of the walk: hashes, then frames
    seen,          \* the walk's seen map
    oldReachable,  \* what reachable returned
    ordered,       \* collectNew's output
    oldIsAncestor

peVars == <<update, building, walk, seen, oldReachable, ordered, oldIsAncestor>>

PushEventsInit ==
    /\ update = [old |-> Zero, new |-> Zero] /\ building = "idle"
    /\ walk = <<>> /\ seen = {} /\ oldReachable = {} /\ ordered = <<>> /\ oldIsAncestor = FALSE

(* commitAt: a zero hash counts as a commit. *)
CommitAt(t) == t \in Commits \union {Zero}
TopOf(s) == s[Len(s)]
Pop(s) == SubSeq(s, 1, Len(s) - 1)
-----------------------------------------------------------------------------
(* Build, up to the walks: a target that is no commit, or a deletion, has an
   event without commits, and the targets or their trees may fail to load. *)
Build(u) ==
    /\ building = "idle"
    /\ update' = u
    /\ \/ building' = "failed" /\ UNCHANGED walk
       \/ IF ~CommitAt(u.old) \/ ~CommitAt(u.new) \/ u.new = Zero
          THEN building' = "built" /\ UNCHANGED walk
          ELSE building' = "old" /\ walk' = IF u.old = Zero THEN <<>> ELSE <<u.old>>
    /\ UNCHANGED <<seen, oldReachable, ordered, oldIsAncestor>>

(* reachable: a depth-first walk with a stack of hashes. *)
WalkOld ==
    /\ building = "old" /\ walk # <<>>
    /\ LET hash == TopOf(walk) IN
       IF hash \in seen THEN walk' = Pop(walk) /\ UNCHANGED seen
       ELSE walk' = Pop(walk) \o Parents[hash] /\ seen' = seen \union {hash}
    /\ UNCHANGED <<update, building, oldReachable, ordered, oldIsAncestor>>

(* Mutant of StartNew: what the old target reaches is not excluded. *)
StartNewFromAll ==
    /\ building = "old" /\ walk = <<>>
    /\ oldReachable' = {} /\ seen' = {}
    /\ IF update.new = update.old
       THEN building' = "built" /\ oldIsAncestor' = TRUE /\ UNCHANGED walk
       ELSE /\ building' = "new" /\ walk' = <<[commit |-> update.new, next |-> 1]>>
            /\ UNCHANGED oldIsAncestor
    /\ UNCHANGED <<update, ordered>>

(* collectNew begins; an update to the same commit adds nothing. *)
StartNew ==
    /\ building = "old" /\ walk = <<>>
    /\ oldReachable' = seen /\ seen' = {}
    /\ IF update.new = update.old
       THEN building' = "built" /\ oldIsAncestor' = TRUE /\ UNCHANGED walk
       ELSE /\ building' = "new" /\ walk' = <<[commit |-> update.new, next |-> 1]>>
            /\ UNCHANGED oldIsAncestor
    /\ UNCHANGED <<update, ordered>>

(* collectNew: one turn of its loop, a postorder walk with explicit frames. *)
WalkNew ==
    LET frame == TopOf(walk) IN
    /\ building = "new" /\ walk # <<>>
    /\ IF frame.next <= Len(Parents[frame.commit])
       THEN LET parent == Parents[frame.commit][frame.next]
                moved  == Append(Pop(walk), [frame EXCEPT !.next = @ + 1])
            IN  /\ oldIsAncestor' = (oldIsAncestor \/ update.old \in {frame.commit, parent})
                /\ IF parent \in oldReachable \union seen THEN walk' = moved /\ UNCHANGED seen
                   ELSE walk' = Append(moved, [commit |-> parent, next |-> 1]) /\ seen' = seen \union {parent}
                /\ UNCHANGED ordered
       ELSE /\ ordered' = Append(ordered, frame.commit)
            /\ walk' = Pop(walk)
            /\ oldIsAncestor' = (oldIsAncestor \/ update.old = frame.commit)
            /\ UNCHANGED seen
    /\ UNCHANGED <<update, building, oldReachable>>
EndNew ==
    /\ building = "new" /\ walk = <<>>
    /\ building' = "built" /\ seen' = {}
    /\ UNCHANGED <<update, walk, oldReachable, ordered, oldIsAncestor>>

(* An object that cannot be loaded, or the deadline. *)
BuildFails ==
    /\ building \in {"old", "new"}
    /\ building' = "failed" /\ walk' = <<>> /\ seen' = {} /\ ordered' = <<>>
    /\ UNCHANGED <<update, oldReachable, oldIsAncestor>>

PushEventsNext ==
    \/ \E old, new \in Targets : Build([old |-> old, new |-> new])
    \/ WalkOld \/ StartNew \/ WalkNew \/ EndNew \/ BuildFails

PushEventsSpec == PushEventsInit /\ [][PushEventsNext]_peVars
-----------------------------------------------------------------------------
NoTree == "no tree"
Trees == DOMAIN Entries \union {NoTree}
TreeAt(c) == IF c = Zero THEN NoTree ELSE TreeHash[c]
EntriesOf(t) == IF t = NoTree THEN <<>> ELSE Entries[t]
Named(t) == DOMAIN EntriesOf(t)
IsDir(t, name) == name \in Named(t) /\ Entries[t][name].mode = "dir"

(* Mutant of SameEntry: a change of mode alone goes unnoticed. *)
SameHash(e, f) == e.hash = f.hash
SameEntry(e, f) == e = f

(* diffTrees: the added, changed and deleted files, as pairs with the path
   below both trees. *)
diffTrees[old, new \in Trees] ==
    LET Sub(t, name) == IF IsDir(t, name) THEN Entries[t][name].hash ELSE NoTree
        Deeper(name) == {<<d[1], <<name>> \o d[2]>> : d \in diffTrees[Sub(old, name), Sub(new, name)]}
        Same(name)   == name \in Named(old) \intersect Named(new) /\ SameEntry(Entries[old][name], Entries[new][name])
        Entry(name) ==
            IF Same(name) THEN {}
            ELSE IF IsDir(old, name) \/ IsDir(new, name)
            THEN Deeper(name)
                 \union (IF name \in Named(old) /\ ~IsDir(old, name) THEN {<<"deleted", <<name>>>>} ELSE {})
                 \union (IF name \in Named(new) /\ ~IsDir(new, name) THEN {<<"added", <<name>>>>} ELSE {})
            ELSE IF name \notin Named(new) THEN {<<"deleted", <<name>>>>}
            ELSE IF name \notin Named(old) THEN {<<"added", <<name>>>>}
            ELSE {<<"changed", <<name>>>>}
    IN  IF old = new THEN {} ELSE UNION {Entry(name) : name \in Named(old) \union Named(new)}
Diff(old, new) == diffTrees[TreeAt(old), TreeAt(new)]

(* The event of a finished Build. *)
Forced ==
    /\ building = "built" /\ CommitAt(update.old) /\ update.new \in Commits
    /\ update.old # Zero /\ ~oldIsAncestor
Event ==
    [files   |-> IF CommitAt(update.old) /\ CommitAt(update.new) THEN Diff(update.old, update.new) ELSE {},
     created |-> update.old = Zero /\ update.new # Zero,
     deleted |-> update.new = Zero /\ update.old # Zero,
     forced  |-> Forced,
     commits |-> ordered]
FirstParent(c) == IF Parents[c] = <<>> THEN Zero ELSE Parents[c][1]
-----------------------------------------------------------------------------
(* What the definitions say: the commits a target reaches, and the files of a
   tree by path. *)
Ancestral(S) == \A c \in S : Range(Parents[c]) \subseteq S
Reach(t) == {c \in Commits : t \in Commits /\ \A S \in SUBSET Commits : t \in S /\ Ancestral(S) => c \in S}
Files[t \in Trees] ==
    UNION {IF IsDir(t, name) THEN {<<<<name>> \o f[1], f[2]>> : f \in Files[Entries[t][name].hash]}
           ELSE {<<<<name>>, Entries[t][name]>>} : name \in Named(t)}
Net(old, new) ==
    LET At(f) == {e[1] : e \in f}
        o == Files[TreeAt(old)]
        n == Files[TreeAt(new)]
    IN  {<<"deleted", p>> : p \in At(o) \ At(n)} \union {<<"added", p>> : p \in At(n) \ At(o)}
        \union {<<"changed", p>> : p \in (At(o \ n) \intersect At(n))}

(* An event lists the commits that the new target reaches and the old one does
   not, each once, parents before children, and is forced exactly when the old
   target is no ancestor of the new one; over merges and unrelated histories.
   An update to an ancestor of the old target is apart: see NewlyReachable. *)
Rewound == update.new \in Reach(update.old) \ {update.old}
CommitsInOrder ==
    building = "built" /\ update.new \in Commits /\ CommitAt(update.old) =>
      /\ ~Rewound => Range(ordered) = Reach(update.new) \ Reach(update.old)
      /\ IsInjective(ordered)
      /\ \A i, j \in DOMAIN ordered : ordered[i] \in Range(Parents[ordered[j]]) => i < j
      /\ Forced <=> update.old # Zero /\ update.old \notin Reach(update.new)

(* The files of an event, and of each commit against its first parent, are the
   difference of the two trees by path, through directories that appear, vanish
   or turn into files. *)
FilesAreNetChange ==
    building = "built" =>
      /\ CommitAt(update.old) /\ CommitAt(update.new) => Event.files = Net(update.old, update.new)
      /\ \A c \in Range(ordered) : Diff(FirstParent(c), c) = Net(FirstParent(c), c)

(* Every listed commit is newly reachable: the new target reaches it and the
   old one does not. *)
NewlyReachable ==
    building = "built" => \A c \in Range(ordered) : c \in Reach(update.new) \ Reach(update.old)
=============================================================================
