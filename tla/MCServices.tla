----------------------------- MODULE MCServices -----------------------------
(***************************************************************************)
(* Pack ingest, the object store and the parts of the daemon around it, on *)
(* small instances.  They share no state and are explored one at a time:   *)
(* focus is the part that moves and, for some, the calls of it that do.    *)
(***************************************************************************)
EXTENDS IndexPack, ObjectStore, LfsLocks, PushEvents, PostReceive, Requests, ListingCache, TLC, SequencesExt

CONSTANTS o1, o2, o3, x, y, oa, ob, oc, s1, s2, b1, b2

VARIABLE focus

Parts == ({"ingest", "store", "events"} \X {{}})
         \union ({"postreceive"} \X {{1, 2, 3}, {1, 3, 4}})
         \union ({"locks"} \X {{1, 2, 3}, {1, 2, 4}, {1, 3, 5}})
         \union ({"requests"} \X {{1, 2, 3}, {4, 5, 6}, {7, 8, 9}})
         \union ({"listing"} \X {{1, 2, 3}, {1, 3, 4}, {1, 3, 7}, {1, 3, 8}, {2, 5, 6}})

mcVars == <<ipVars, osVars, llVars, peVars, prVars, rqVars, lcVars, focus>>
-----------------------------------------------------------------------------
(* Packs of three objects in every delta relation, of each other and of an
   object x of the repository, some with one thing wrong, and some that hold
   an object twice, as itself or as a delta on what is built on it. *)
MCRaw == [o \in {o1, o2, o3, x, y} |-> CASE o = o1 -> 1 [] o = o2 -> 2 [] o = o3 -> 4 [] OTHER -> 2]
NoDelta == [src |-> 0, tgt |-> 0, cmds |-> <<>>]
Copy(off, n) == [op |-> "copy", off |-> off, sz |-> n]
Insert(n) == [op |-> "insert", off |-> 0, sz |-> n]
WholeEntry(o) == [typ |-> "whole", base |-> NoBase, obj |-> o, size |-> MCRaw[o], inflates |-> MCRaw[o],
                  d |-> NoDelta]
DeltaEntry(t, on, baseObj, o, n) ==
    [typ |-> t, base |-> on, obj |-> o, size |-> n, inflates |-> n,
     d |-> [src |-> MCRaw[baseObj], tgt |-> MCRaw[o],
            cmds |-> IF MCRaw[o] > 1 THEN <<Copy(0, 1), Insert(MCRaw[o] - 1)>> ELSE <<Copy(0, 1)>>]]
Flawed(e, flaw) ==
    CASE flaw = "inflates" -> [e EXCEPT !.inflates = @ + 1]
      [] flaw = "src"      -> [e EXCEPT !.d.src = @ + 1]
      [] flaw = "short"    -> [e EXCEPT !.d.cmds = Front(@)]
      [] flaw = "left"     -> [e EXCEPT !.d.cmds = Append(@, Insert(1))]
      [] flaw = "reserved" -> [e EXCEPT !.d.cmds = <<Insert(0)>> \o @]
      [] flaw = "past"     -> [e EXCEPT !.d.cmds = <<Copy(@[1].off + e.d.src, 1)>> \o Tail(@)]
      [] flaw = "all"      -> [e EXCEPT !.d.cmds = <<Copy(0, 0)>>]
PackEntries(q, i) ==
    {WholeEntry(q[i])}
    \cup {DeltaEntry("ofs", j, q[j], q[i], n) : j \in 1 .. 2, n \in {1, 3}}
    \cup {DeltaEntry("ref", on, on, q[i], 1) : on \in {o1, o2, o3, x}}
GoodPacks == UNION {{<<e, f, g>> : e \in PackEntries(q, 1), f \in PackEntries(q, 2), g \in PackEntries(q, 3)} :
                    q \in {<<o1, o2, o3>>, <<o3, o2, o1>>}}
BadPacks == UNION {{[p EXCEPT ![i] = Flawed(@, f)] :
                      f \in {"inflates", "src", "short", "left", "reserved", "past", "all"},
                      i \in {i \in 2 .. 3 : p[i].typ # "whole"}} :
                   p \in {p \in GoodPacks : p[1] = WholeEntry(o1)}}
TwicePacks == {<<WholeEntry(o1), DeltaEntry("ofs", 1, o1, o2, 1), g>> :
                 g \in {WholeEntry(o1), WholeEntry(o2), DeltaEntry("ofs", 1, o1, o2, 3), DeltaEntry("ref", o1, o1, o2, 1)}}
RoundPacks == {<<WholeEntry(o2), DeltaEntry("ofs", 1, o2, y, 1), DeltaEntry("ofs", 2, y, o2, 1)>>,
               <<WholeEntry(o2), DeltaEntry("ref", o2, o2, o2, 1)>>}

(* Chains: one link longer than is stored, and longer than is accepted. *)
ChainOn(e) == <<e, DeltaEntry("ofs", 1, e.obj, x, 1), DeltaEntry("ofs", 2, x, o2, 1), DeltaEntry("ofs", 3, o2, y, 1)>>
LongPacks == {ChainOn(WholeEntry(o1)), ChainOn(DeltaEntry("ref", x, x, o1, 1))}
MCPacks == GoodPacks \cup BadPacks \cup TwicePacks \cup RoundPacks \cup LongPacks \cup {<<>>}

(* Containers whose deltas lean on each other's objects in a circle; one is in
   the bucket, two Storers push the others while one of them reads.  One more
   has a circle of its own. *)
P1 == (oa :> Whole) @@ (ob :> oa)
P2 == (ob :> Whole) @@ (oc :> ob)
P3 == (oc :> Whole) @@ (oa :> oc)
Round == (oa :> ob) @@ (ob :> oa)
MCStored == {P3}
Seals(q) == [NoPlan EXCEPT !.seals = q, !.reads = {"object"}, !.builders = {b1}]
Writes(q) == [NoPlan EXCEPT !.writes = q, !.reads = {"object"}, !.builders = {b1}]
Iterates(p) == [p EXCEPT !.reads = {}, !.iterates = TRUE]
Only(p) == [p EXCEPT !.reads = {}, !.builders = {}]
Two(p, q) == (s1 :> p) @@ (s2 :> q)
MCPlans == {Two(Seals(<<P1, P2>>), NoPlan),
            Two([Seals(<<P3>>) EXCEPT !.reads = ReadKind], Only(Seals(<<P2>>))),
            Two(Iterates(Seals(<<P1>>)), Only(Seals(<<P2>>))),
            Two(Iterates(Writes(<<ob>>)), Only(Seals(<<P1>>))),
            Two([Writes(<<ob>>) EXCEPT !.seals = <<P2>>, !.reads = ReadKind], NoPlan),
            Two(Writes(<<ob, ob>>), NoPlan),
            Two(Seals(<<Round>>), NoPlan),
            Two([Writes(<<>>) EXCEPT !.builders = {b1, b2}], Only(Seals(<<P1>>)))}

(* One push of oa and ob, one of oa alone: the same bytes when ob is empty. *)
MCEmptyPlans == {Two(Only(Seals(<<(oa :> Whole) @@ (ob :> Whole)>>)), Only(Seals(<<(oa :> Whole)>>)))}

(* Two creates of one path, a third of another with room for one, an unlock by
   the owner under another case, and a forced one. *)
Create(n, p, u) == [name |-> n, op |-> "create", path |-> p, user |-> u, force |-> FALSE]
Unlock(n, u, f) == [name |-> n, op |-> "unlock", path |-> "", user |-> u, force |-> f]
MCLockCall == {Create(1, "a", "ann"), Create(2, "a", "bob"), Unlock(3, "Ann", FALSE), Unlock(4, "ann", TRUE),
               Create(5, "b", "bob")}
MCFold == [u \in {"ann", "Ann", "bob"} |-> IF u = "bob" THEN 2 ELSE 1]

(* A history with two merges, an unrelated root, and trees in which files and
   directories trade places. *)
MCParents == [c \in {"c1", "c2", "c3", "c4", "c5", "c6"} |->
                CASE c \in {"c1", "c5"} -> <<>> [] c \in {"c2", "c3"} -> <<"c1">>
                  [] c = "c4" -> <<"c2", "c3">> [] c = "c6" -> <<"c3", "c4">>]
MCTreeHash == [c \in DOMAIN MCParents |->
                CASE c = "c1" -> "t0" [] c = "c2" -> "t1" [] c = "c3" -> "t2" [] c = "c5" -> "t4" [] OTHER -> "t3"]
Mode(m, h) == [mode |-> m, hash |-> h]
MCEntries == "t0" :> ("a" :> Mode("file", "x"))
          @@ "t1" :> ("a" :> Mode("dir", "t0") @@ "b" :> Mode("file", "y"))
          @@ "t2" :> ("a" :> Mode("exec", "x") @@ "b" :> Mode("dir", "t0"))
          @@ "t3" :> ("b" :> Mode("dir", "t1"))
          @@ "t4" :> ("b" :> Mode("dir", "t2") @@ "c" :> Mode("dir", "t0"))

(* A branch and a tag on one tree, pushed again to another branch. *)
Upd(r, k, t) == [ref |-> r, kind |-> k, tree |-> t]
MCPushCall == {[name |-> 1, updates |-> <<Upd(3, "tag", "t"), Upd(1, "branch", "t")>>],
               [name |-> 2, updates |-> <<Upd(2, "branch", "t")>>]}
MCSetCall == {[name |-> 3, url |-> "u", rotate |-> TRUE], [name |-> 4, url |-> "", rotate |-> TRUE]}

(* A user, somebody with an SSH key, and requests without a credential. *)
Req(n, r, d, c, f) == [name |-> n, route |-> r, dir |-> d, repo |-> "a", cred |-> c, form |-> f]
MCRequest == {Req(1, "refs", "up", "user", "good"), Req(2, "rpc", "up", "user", "bad body"),
              Req(3, "rpc", "down", "none", "good"), Req(4, "authenticate", "up", "key", "good"),
              Req(5, "batch", "up", "none", "good"), Req(6, "verify", "up", "none", "good"),
              Req(7, "sh", "up", "key", "good"), Req(8, "settings", "up", "none", "bad path"),
              Req(9, "lock", "up", "user", "good")}

(* Everybody reads, a credential is needed to write; and one that trusts SSH. *)
NeedsCredential == [q \in AuthRequest |-> IF q.op = "read" THEN "allow"
                                         ELSE IF q.cred = "none" THEN "unauthenticated" ELSE "allow"]
TrustsSSH == [q \in AuthRequest |-> IF q.transport = "ssh" \/ q.op = "read" THEN "allow" ELSE "deny"]
ReadOnlyToAll == [q \in AuthRequest |-> IF q.op = "read" THEN "allow" ELSE "unauthenticated"]
MCAuthorizers == {AllowAnonymous(TRUE), AllowAnonymous(FALSE), NeedsCredential, TrustsSSH, ReadOnlyToAll}

(* A key below a recursive root and one outside it. *)
File(n, op, k, to) == [name |-> n, op |-> op, key |-> k, to |-> to]
Inner == <<"r", "a", "f">>
MCFsKey == {Inner, <<"g">>, <<"r", "a", "">>}
MCFsRoots == {<<"r">>}
MCFsCall == {File(1, "put", Inner, <<>>), File(2, "rename", Inner, <<"g">>), File(3, "stat", Inner, <<>>),
             File(4, "warm", <<>>, <<>>), File(5, "readdir", <<"r">>, <<>>), File(6, "mkdir", <<"r", "a">>, <<>>),
             File(7, "remove", Inner, <<>>), File(8, "put", Inner, <<>>)}
-----------------------------------------------------------------------------
(* Only the calls in focus leave the place they are at. *)
Moving(calls, before, after) == \A d \in calls : d.name \notin focus[2] => after[d] = before[d]

OnlyIngest == focus[1] = "ingest" /\ UNCHANGED <<osVars, llVars, peVars, prVars, rqVars, lcVars, focus>>
OnlyStore == focus[1] = "store" /\ UNCHANGED <<ipVars, llVars, peVars, prVars, rqVars, lcVars, focus>>
OnlyLocks == focus[1] = "locks" /\ UNCHANGED <<ipVars, osVars, peVars, prVars, rqVars, lcVars, focus>>
OnlyEvents == focus[1] = "events" /\ UNCHANGED <<ipVars, osVars, llVars, prVars, rqVars, lcVars, focus>>
OnlyPostReceive == focus[1] = "postreceive" /\ UNCHANGED <<ipVars, osVars, llVars, peVars, rqVars, lcVars, focus>>
OnlyRequests == focus[1] = "requests" /\ UNCHANGED <<ipVars, osVars, llVars, peVars, prVars, lcVars, focus>>
OnlyListing == focus[1] = "listing" /\ UNCHANGED <<ipVars, osVars, llVars, peVars, prVars, rqVars, focus>>

ServicesInit ==
    /\ focus \in Parts
    /\ IndexPackInit /\ ObjectStoreInit /\ LfsLocksInit /\ PushEventsInit
    /\ PostReceiveInit /\ RequestsInit /\ ListingCacheInit

ServicesNext ==
    \/ OnlyIngest /\ IndexPackNext
    \/ OnlyStore /\ ObjectStoreNext
    \/ OnlyLocks /\ LfsLocksNext /\ Moving(LockCall, lockCall, lockCall')
    \/ OnlyEvents /\ PushEventsNext
    \/ OnlyPostReceive /\ PostReceiveNext /\ Moving(PushCall, push, push') /\ Moving(SetCall, setCall, setCall')
    \/ OnlyRequests /\ RequestsNext /\ Moving(Request, request, request')
    \/ OnlyListing /\ ListingCacheNext /\ Moving(FsCall, fsCall, fsCall')

Services == ServicesInit /\ [][ServicesNext]_mcVars
=============================================================================
