----------------------------- MODULE MCRefStore -----------------------------
(* Small instances of RefStore. *)
EXTENDS RefStore

CONSTANTS main, tag, v0, v1, v2

(* Batch constructors: a checked push, and an unchecked SetReference,
   RemoveReference or CheckAndSetReference. *)
Push(old, new) == [upd |-> new, expect |-> old, strict |-> TRUE]
One(n, x, y) == [m \in {main, tag} |-> IF m = n THEN x ELSE y]

CheckedPush(n, old, new) == Push(One(n, old, Any), One(n, new, Keep))
SetRef(n, new) == [CheckedPush(n, Any, new) EXCEPT !.strict = FALSE]
CheckAndSet(n, old, new) == [CheckedPush(n, old, new) EXCEPT !.strict = FALSE]
Both(oldMain, newMain, oldTag, newTag) ==
    Push(One(main, oldMain, oldTag), One(main, newMain, newTag))

(* Two pushes race for main from the same tip, one of them carrying a tag;
   one deletes the tag again; HEAD-like unchecked writes come in between. *)
PackedBatches == {
    CheckedPush(main, v0, v1),
    Both(v0, v2, Absent, v1),
    CheckedPush(tag, v1, Absent),
    SetRef(main, v0)}
PackedInit == One(main, v0, Absent)

(* main is updated by everybody, by packed and by loose writers; tag is a
   bystander whose packed value is out of date. *)
FoldBatches == {CheckAndSet(main, v0, v1), SetRef(main, Absent)}
FoldLoose == [n \in {main, tag} |-> v0]
LooseTag == One(tag, v0, Absent)
StaleTag == One(tag, v1, v0)

NoLoose == [n \in {main, tag} |-> Absent]
UpdateMain == {CheckedPush(main, v0, v1)}
UpdateTag == {CheckedPush(main, v0, v1), CheckedPush(tag, v0, v2)}
=============================================================================
