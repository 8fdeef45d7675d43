----------------------------- MODULE Collections -----------------------------
(***************************************************************************)
(* The loops over a slice that keep some of its elements, in order.        *)
(***************************************************************************)
EXTENDS Integers, Sequences

(* The elements of s that are in S. *)
Kept(s, S) ==
    LET kept[n \in 0 .. Len(s)] ==
            IF n = 0 THEN <<>> ELSE IF s[n] \in S THEN Append(kept[n - 1], s[n]) ELSE kept[n - 1]
    IN  kept[Len(s)]
=============================================================================
