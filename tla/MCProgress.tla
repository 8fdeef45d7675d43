----------------------------- MODULE MCProgress -----------------------------
(***************************************************************************)
(* The bundler, whole-pack downloads, LFS uploads and HEAD on small        *)
(* instances, with the fairness of their goroutines and clients.  They     *)
(* share no state and are explored one at a time: focus is the part that   *)
(* moves.                                                                  *)
(***************************************************************************)
EXTENDS Bundler, PackFetch, LfsObjects, Head, TLC

CONSTANTS i0, i1, i2, i3, p1, p2, s1, s2

VARIABLE focus

mcVars == <<vars, pfVars, loVars, hdVars, focus>>
-----------------------------------------------------------------------------
(* One item weighs nothing, two half of the buffer each, one more than all of it. *)
MCSize == (i0 :> 0) @@ (i1 :> 1) @@ (i2 :> 1) @@ (i3 :> 3)

(* Two Storers fetch pack p1 of 1 byte, one also p2 of 2; the cache holds 2. *)
MCLength == (p1 :> 1) @@ (p2 :> 2)
MCFetch == {<<s1, p1>>, <<s2, p1>>, <<s1, p2>>}

(* Two repositories with one object of 2 bytes, a client wrong about its size. *)
Client(n, r, s) == [name |-> n, repo |-> r, oid |-> "o", size |-> s]
MCUpload == {Client(1, "r", 2), Client(2, "r", 1), Client(3, "q", 2)}
MCTrueSize == [o \in {"o"} |-> 2]

(* Pushes that create, delete and replace branches beside a client that clones. *)
Pushes(n, a, d) == [name |-> n, kind |-> "push", adds |-> a, drops |-> d]
MCSession == {Pushes(1, {"master"}, {}), Pushes(2, {"dev"}, {"master"}), [Pushes(3, {}, {}) EXCEPT !.kind = "clone"]}
MCBranchOrder == <<"main", "master", "dev">>
-----------------------------------------------------------------------------
OnlyBundler == focus = "bundler" /\ UNCHANGED <<pfVars, loVars, hdVars, focus>>
OnlyFetch == focus = "fetch" /\ UNCHANGED <<vars, loVars, hdVars, focus>>
OnlyUploads == focus = "uploads" /\ UNCHANGED <<vars, pfVars, hdVars, focus>>
OnlyHead == focus = "head" /\ UNCHANGED <<vars, pfVars, loVars, focus>>

ProgressInit ==
    /\ focus \in {"bundler", "fetch", "uploads", "head"}
    /\ Init /\ PackFetchInit /\ LfsObjectsInit /\ HeadInit

ProgressNext ==
    \/ OnlyBundler /\ Next
    \/ OnlyFetch /\ PackFetchNext
    \/ OnlyUploads /\ LfsObjectsNext
    \/ OnlyHead /\ HeadNext

(* A goroutine that can go on does, and so does a client that waits for
   nothing: git-lfs repeats what failed, asking for the transfer again in the
   end, and clones keep coming.  Downloads need not begin; faults, timeouts and
   evictions need not happen.  A Bundler nobody has called has nothing to do, so
   its Fairness asks nothing of the other parts. *)
ProgressFairness ==
    /\ Fairness
    /\ \A f \in Fetch : WF_mcVars(OnlyFetch /\ FetchStep(f))
    /\ \A u \in Upload : WF_mcVars(OnlyUploads /\ ClientStep(u)) /\ SF_mcVars(OnlyUploads /\ Batch(u))
    /\ \A h \in Handler : WF_mcVars(OnlyUploads /\ VerifyStep(h))
    /\ \A s \in Session : WF_mcVars(OnlyHead /\ HeadStep(s))

Progress == ProgressInit /\ [][ProgressNext]_mcVars /\ ProgressFairness
=============================================================================
