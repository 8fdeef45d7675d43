---------------------------- MODULE MCReceivePack ----------------------------
(* Two pushes, to the same daemon, which has one slot, or to different ones. *)
EXTENDS ReceivePack

CONSTANTS main, tag, v0, v1, v2

Start == [n \in {main, tag} |-> IF n = main THEN v0 ELSE Absent]

Cmd(n, old, new) == [name |-> n, old |-> old, new |-> new]

(* Two clients race for main from the same tip, one of them with a new tag;
   another deletes main. *)
Clients == {
    <<Cmd(main, v0, v1)>>,
    <<Cmd(main, v0, v2), Cmd(tag, Absent, v2)>>,
    <<Cmd(main, v0, Absent)>>}

TwoTips == {<<Cmd(main, v0, v1), Cmd(tag, Absent, v1)>>}
=============================================================================
