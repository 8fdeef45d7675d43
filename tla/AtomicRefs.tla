----------------------------- MODULE AtomicRefs -----------------------------
(***************************************************************************)
(* What the reference store promises: one map from names to targets, in    *)
(* which a batch takes effect all at once, only while every expectation    *)
(* of its caller holds, and changes no name it does not mention.           *)
(***************************************************************************)
CONSTANTS Name, Absent, Keep, Any, Batches, InitRefs

VARIABLE refs

Current(b) == \A n \in Name :
    \/ b.expect[n] = Any
    \/ refs[n] = b.expect[n]
    \/ ~b.strict /\ (b.expect[n] = Absent \/ refs[n] = Absent)

Update(b) ==
    /\ Current(b)
    /\ refs' = [n \in Name |-> IF b.upd[n] = Keep THEN refs[n] ELSE b.upd[n]]

Init == refs = InitRefs

Next == \E b \in Batches : Update(b)

Spec == Init /\ [][Next]_refs
=============================================================================
