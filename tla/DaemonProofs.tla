---------------------------- MODULE DaemonProofs ----------------------------
(***************************************************************************)
(* Proofs about the daemon around its Git services: Requests (routing,     *)
(* authorization and resolution), PostReceive (snapshots, hooks and        *)
(* webhooks after a push) and PackFetch (the whole-pack downloads of all   *)
(* Storers in the daemon's one PackCache).                                 *)
(***************************************************************************)
EXTENDS Requests, PostReceive, PackFetch, CollectionLemmas, FiniteSetTheorems, TLAPS

(* What a request has passed stays true of the daemon: its route is there, the
   policy allows what it needs, and its repository exists. *)
Stage == {"route", "authorize", "resolve", "serve"} \union Answers
PassedRoute == {"authorize", "resolve", "serve", "served"}
PassedAuthorizer == {"resolve", "serve", "served"}
RequestsInv ==
    /\ request \in [Request -> Stage]
    /\ config = NotRunning => \A r \in Request : request[r] = "route"
    /\ config.lfs => config.http
    /\ \A r \in Request :
         /\ request[r] \in PassedRoute => Routed(r)
         /\ request[r] \in PassedAuthorizer => policy[Asked(r)] = "allow"
         /\ request[r] \in {"serve", "served"} /\ OfGit(r) => r.repo \in repos

(* A step of request r, to a stage it has passed the checks of. *)
LEMMA RequestGoes ==
    ASSUME RequestsInv, NEW r \in Request, NEW at \in Stage, Go(r, at), UNCHANGED <<config, policy>>, repos \subseteq repos',
           request[r] # "route" \/ config # NotRunning,
           at \in PassedRoute => Routed(r),
           at \in PassedAuthorizer => policy[Asked(r)] = "allow",
           at \in {"serve", "served"} /\ OfGit(r) => r.repo \in repos'
    PROVE  RequestsInv'
<1>1. request \in [Request -> Stage] /\ request' = [request EXCEPT ![r] = at]
  BY Zenon DEF RequestsInv, Go
<1>2. request' \in [Request -> Stage] /\ request'[r] = at /\ \A q \in Request : q # r => request'[q] = request[q]
  BY <1>1, Zenon
<1>3. UNCHANGED config /\ UNCHANGED policy
  BY Zenon
<1>4. config # NotRunning
  BY Zenon DEF RequestsInv
<1>5. \A q \in Request : Routed(q)' <=> Routed(q)
  BY <1>3, Zenon DEF Routed
<1> QED
  BY <1>2, <1>3, <1>4, <1>5, Zenon DEF RequestsInv

LEMMA RequestsInvStep == RequestsInv /\ [RequestsNext]_rqVars => RequestsInv'
<1> SUFFICES ASSUME RequestsInv, [RequestsNext]_rqVars PROVE RequestsInv'
  OBVIOUS
<1>1. CASE StartDaemon
  <2>1. config = NotRunning /\ request' = request /\ repos' = repos /\ (config'.lfs => config'.http)
    BY <1>1, Zenon DEF StartDaemon
  <2>2. \A r \in Request : request'[r] = "route" /\ request'[r] \notin PassedRoute
                             /\ request'[r] \notin PassedAuthorizer /\ request'[r] \notin {"serve", "served"}
    <3>1. "route" \notin PassedRoute /\ "route" \notin PassedAuthorizer /\ "route" \notin {"serve", "served"}
      BY DEF PassedRoute, PassedAuthorizer
    <3> QED
      BY <2>1, <3>1, Zenon DEF RequestsInv
  <2> QED
    BY <2>1, <2>2, Zenon DEF RequestsInv
<1>2. ASSUME NEW r \in Request, RouteRequest(r) PROVE RequestsInv'
  <2>1. UNCHANGED <<config, policy>> /\ repos \subseteq repos'
    BY <1>2, Zenon DEF RouteRequest
  <2>2. config # NotRunning
    <3>1. config.up /\ NotRunning.up = FALSE
      BY <1>2, Zenon DEF RouteRequest, NotRunning
    <3> QED
      BY <3>1, Zenon
  <2>3. \E at \in {"no route", "malformed", "authorize"} : Go(r, at) /\ (at = "authorize" => Routed(r))
    BY <1>2, Zenon DEF RouteRequest
  <2>4. \A at \in {"no route", "malformed", "authorize"} :
          at \in Stage /\ at \notin PassedAuthorizer /\ at \notin {"serve", "served"} /\ (at \in PassedRoute => at = "authorize")
    BY DEF Stage, Answers, PassedRoute, PassedAuthorizer
  <2> QED
    BY <2>1, <2>2, <2>3, <2>4, RequestGoes, Zenon
<1>3. ASSUME NEW r \in Request, AuthorizeRequest(r) PROVE RequestsInv'
  <2>1. UNCHANGED <<config, policy>> /\ repos \subseteq repos'
    BY <1>3, Zenon DEF AuthorizeRequest
  <2>2. request[r] # "route" /\ Routed(r)
    BY <1>3 DEF AuthorizeRequest, RequestsInv, PassedRoute
  <2>3. \E at \in {"challenge", "denied", "resolve"} : Go(r, at) /\ (at = "resolve" => policy[Asked(r)] = "allow")
    BY <1>3 DEF AuthorizeRequest
  <2>4. \A at \in {"challenge", "denied", "resolve"} :
          at \in Stage /\ at \notin {"serve", "served"} /\ (at \in PassedAuthorizer => at = "resolve")
    BY DEF Stage, Answers, PassedAuthorizer
  <2> QED
    BY <2>1, <2>2, <2>3, <2>4, RequestGoes, Zenon
<1>4. ASSUME NEW r \in Request, ResolveRequest(r) PROVE RequestsInv'
  <2>1. UNCHANGED <<config, policy>> /\ repos \subseteq repos'
    BY <1>4, Zenon DEF ResolveRequest
  <2>2. request[r] # "route" /\ Routed(r) /\ policy[Asked(r)] = "allow"
    BY <1>4 DEF ResolveRequest, RequestsInv, PassedRoute, PassedAuthorizer
  <2>3. \E at \in {"not found", "serve"} : Go(r, at) /\ (at = "serve" /\ OfGit(r) => r.repo \in repos')
    BY <1>4 DEF ResolveRequest
  <2>4. \A at \in {"not found", "serve"} : at \in Stage /\ (at \in {"serve", "served"} => at = "serve")
    BY DEF Stage, Answers
  <2> QED
    BY <2>1, <2>2, <2>3, <2>4, RequestGoes, Zenon
<1>5. ASSUME NEW r \in Request, ResolveFails(r) PROVE RequestsInv'
  <2>1. UNCHANGED <<config, policy>> /\ repos \subseteq repos' /\ Go(r, "error")
    BY <1>5, Zenon DEF ResolveFails
  <2>2. request[r] # "route"
    BY <1>5 DEF ResolveFails
  <2>3. "error" \in Stage /\ "error" \notin PassedRoute /\ "error" \notin PassedAuthorizer /\ "error" \notin {"serve", "served"}
    BY DEF Stage, Answers, PassedRoute, PassedAuthorizer
  <2> QED
    BY <2>1, <2>2, <2>3, RequestGoes, Zenon
<1>6. ASSUME NEW r \in Request, ServeRequest(r) PROVE RequestsInv'
  <2>1. UNCHANGED <<config, policy>> /\ repos \subseteq repos'
    BY <1>6, Zenon DEF ServeRequest
  <2>2. request[r] # "route" /\ Routed(r) /\ policy[Asked(r)] = "allow" /\ (OfGit(r) => r.repo \in repos')
    BY <1>6 DEF ServeRequest, RequestsInv, PassedRoute, PassedAuthorizer
  <2>3. \E at \in {"malformed", "served", "error"} : Go(r, at)
    BY <1>6 DEF ServeRequest
  <2>4. {"malformed", "served", "error"} \subseteq Stage
    BY DEF Stage, Answers
  <2> QED
    BY <2>1, <2>2, <2>3, <2>4, RequestGoes, Zenon
<1>7. CASE UNCHANGED rqVars
  <2>1. UNCHANGED config /\ UNCHANGED policy /\ UNCHANGED repos /\ UNCHANGED request
    BY <1>7 DEF rqVars
  <2> QED
    BY <2>1, Zenon DEF RequestsInv, Routed
<1> QED
  BY <1>1, <1>2, <1>3, <1>4, <1>5, <1>6, <1>7, Zenon DEF RequestsNext

LEMMA RequestsInvInit == RequestsInit => RequestsInv
<1> SUFFICES ASSUME RequestsInit PROVE RequestsInv
  OBVIOUS
<1>1. "route" \in Stage /\ "route" \notin PassedRoute /\ "route" \notin PassedAuthorizer /\ "route" \notin {"serve", "served"}
  BY DEF Stage, PassedRoute, PassedAuthorizer
<1>2. config.lfs = FALSE
  BY DEF RequestsInit, NotRunning
<1> QED
  BY <1>1, <1>2, Zenon DEF RequestsInit, RequestsInv

(* A request that was served speaks for the one it announces: the same daemon
   has the route, and the policy asks for no more. *)
LEMMA AnnouncedIsRouted ==
    ASSUME RequestsInv, NEW d \in Request, NEW r \in Request, Announces(d, r), request[d] = "served"
    PROVE  Routed(r) /\ (Alike(d, r) => policy[Asked(r)] = "allow") /\ (OfGit(r) => r.repo \in repos)
<1>0. Needs(r) = Needs(d) /\ Alike(d, r) => policy[Asked(r)] = policy[Asked(d)]
  BY Zenon DEF Alike, Asked, AskedFor, Announces
<1>1. Routed(d) /\ policy[Asked(d)] = "allow" /\ (OfGit(d) => d.repo \in repos) /\ (config.lfs => config.http)
  BY DEF RequestsInv, PassedRoute, PassedAuthorizer
<1>2. CASE d.route = "refs" /\ r.route = "rpc"
  <2>1. d.route \in Routes.http /\ r.route \notin Routes.ssh /\ OfGit(d)
    BY <1>2 DEF Routes, OfGit
  <2>2. config.http
    BY <1>1, <2>1, Zenon DEF Routed
  <2>3. Routed(r)
    BY <1>2, <2>1, <2>2 DEF Routed
  <2>4. Needs(r) = Needs(d)
    BY <1>2 DEF Needs, Announces
  <2> QED
    BY <1>0, <1>1, <2>1, <2>3, <2>4, Zenon DEF Announces
<1>3. CASE d.route = "authenticate" /\ (r.route = "batch" \/ (r.route = "verify" /\ d.dir = "up"))
  <2>1. config.lfs /\ config.http
    BY <1>1, <1>3, Zenon DEF Routed
  <2>2. r.route \notin Routes.ssh /\ ~OfGit(r)
    BY <1>3 DEF Routes, OfGit
  <2>3. Routed(r)
    BY <1>3, <2>1, <2>2 DEF Routed
  <2>4. Needs(r) = Needs(d)
    BY <1>3 DEF Needs, Announces
  <2> QED
    BY <1>0, <1>1, <2>2, <2>3, <2>4, Zenon
<1> QED
  BY <1>2, <1>3 DEF Announces

(* For any requests, flags and Authorizer, whatever of an auth.Request it looks
   at: what an advertisement or git-lfs-authenticate announced finds its route and
   its repository, whatever other requests do in between, and an Authorizer that
   does not tell the announced request's client from the first one does not turn
   it away (http.go, ssh.go, lfs.go and the flag checks of main). *)
THEOREM AnnouncedRequestsPass == RequestsSpec => DiscoveryKept
<1> DEFINE Kept_ == \A d, r \in Request :
      Announces(d, r) /\ request[d] = "served" /\ request'[r] # request[r]
        => /\ request'[r] \notin {"no route", "not found"}
           /\ Alike(d, r) => request'[r] \notin {"challenge", "denied"}
<1>1. RequestsInv /\ [RequestsNext]_rqVars => [Kept_]_rqVars
  <2> SUFFICES ASSUME RequestsInv, RequestsNext, NEW d \in Request, NEW r \in Request, Announces(d, r),
                      request[d] = "served", request'[r] # request[r]
               PROVE  /\ request'[r] \notin {"no route", "not found"}
                      /\ Alike(d, r) => request'[r] \notin {"challenge", "denied"}
    BY Zenon
  <2>1. Routed(r) /\ (Alike(d, r) => policy[Asked(r)] = "allow") /\ (OfGit(r) => r.repo \in repos)
    BY AnnouncedIsRouted, Zenon
  <2>2. request \in [Request -> Stage]
    BY Zenon DEF RequestsInv
  <2>3. ~StartDaemon
    BY Zenon DEF StartDaemon
  <2>4. ASSUME NEW q \in Request, NEW at, Go(q, at) PROVE q = r /\ request'[r] = at
    BY <2>2, <2>4, Zenon DEF Go
  <2>5. ASSUME NEW q \in Request, RouteRequest(q) PROVE request'[r] \in {"malformed", "authorize"}
    BY <2>1, <2>4, <2>5, Zenon DEF RouteRequest
  <2>6. ASSUME NEW q \in Request, AuthorizeRequest(q)
        PROVE  request'[r] \in {"resolve", "challenge", "denied"} /\ (Alike(d, r) => request'[r] = "resolve")
    BY <2>1, <2>4, <2>6, Zenon DEF AuthorizeRequest
  <2>7. ASSUME NEW q \in Request, ResolveRequest(q) PROVE request'[r] = "serve"
    BY <2>1, <2>4, <2>7, Zenon DEF ResolveRequest
  <2>8. ASSUME NEW q \in Request, ResolveFails(q) \/ ServeRequest(q) PROVE request'[r] \in {"malformed", "served", "error"}
    BY <2>4, <2>8, Zenon DEF ResolveFails, ServeRequest
  <2> DEFINE fine == {"malformed", "authorize", "resolve", "serve", "served", "error"}
  <2>9. request'[r] \in fine \/ (request'[r] \in {"challenge", "denied"} /\ ~Alike(d, r))
    BY <2>3, <2>5, <2>6, <2>7, <2>8, Zenon DEF RequestsNext
  <2> QED
    BY <2>9
<1>2. RequestsSpec => [][Kept_]_rqVars
  BY <1>1, RequestsInvStep, RequestsInvInit, PTL DEF RequestsSpec
<1> QED
  BY <1>2, Zenon DEF DiscoveryKept

-----------------------------------------------------------------------------
(* An injection between finite sets of one size reaches everything. *)
LEMMA InjectionReachesAll ==
    ASSUME NEW S, NEW T, IsFiniteSet(S), IsFiniteSet(T), Cardinality(S) = Cardinality(T),
           NEW f \in [S -> T], \A x, y \in S : x # y => f[x] # f[y]
    PROVE  \A t \in T : \E x \in S : f[x] = t
<1> SUFFICES ASSUME NEW t \in T, \A x \in S : f[x] # t PROVE FALSE
  BY Zenon
<1>1. f \in [S -> T \ {t}]
  BY Zenon
<1>2. IsFiniteSet(T \ {t}) /\ Cardinality(T \ {t}) = Cardinality(T) - 1 /\ Cardinality(T) \in Nat
  BY FS_RemoveElement, FS_CardinalityType
<1>3. Cardinality(T \ {t}) < Cardinality(S)
  BY <1>2
<1> DEFINE R == T \ {t}
<1>4. IsFiniteSet(R) /\ Cardinality(R) < Cardinality(S) /\ f \in [S -> R]
  BY <1>1, <1>2, <1>3, Zenon
<1> HIDE DEF R
<1>5. \E x, y \in S : x # y /\ f[x] = f[y]
  BY <1>4, FS_PigeonHole
<1> QED
  BY <1>5, Zenon

(* The updates of a push as runSnapshots' sort sees them: named, once each. *)
Named(S) == \A u, v \in S : u.ref \in Int /\ (u.ref = v.ref => u = v)

LEMMA BeforeIsStrictOrder ==
    ASSUME NEW S, Named(S)
    PROVE  /\ \A u \in S : ~Before(u, u)
           /\ \A u, v, w \in S : Before(u, v) /\ Before(v, w) => Before(u, w)
           /\ \A u, v \in S : u # v => Before(u, v) \/ Before(v, u)
           /\ \A u, v \in S : Before(u, v) => ~Before(v, u)
BY DEF Before, Named

(* runSnapshots' order exists, by the number of updates before each, and lists
   every update. *)
LEMMA SortedListsAll ==
    ASSUME NEW S, IsFiniteSet(S), Named(S)
    PROVE  /\ Cardinality(S) \in Nat /\ Sorted(S) \in [1 .. Cardinality(S) -> S]
           /\ \A u \in S : \E n \in 1 .. Cardinality(S) : Sorted(S)[n] = u
<1> DEFINE n == Cardinality(S)
           Below(u) == {v \in S : Before(v, u)}
           rank == [u \in S |-> Cardinality(Below(u)) + 1]
           IsSorted(s) == \A i, j \in DOMAIN s : i < j => Before(s[i], s[j])
<1>1. n \in Nat /\ IsFiniteSet(1 .. n) /\ Cardinality(1 .. n) = n
  BY FS_CardinalityType, FS_Interval
<1>2. \A u \in S : IsFiniteSet(Below(u)) /\ Cardinality(Below(u)) \in Nat /\ Cardinality(Below(u)) < n
  <2> SUFFICES ASSUME NEW u \in S
               PROVE  IsFiniteSet(Below(u)) /\ Cardinality(Below(u)) \in Nat /\ Cardinality(Below(u)) < n
    BY Zenon
  <2>1. Below(u) \in SUBSET (S \ {u})
    BY BeforeIsStrictOrder, Zenon
  <2>2. IsFiniteSet(S \ {u}) /\ Cardinality(S \ {u}) = n - 1
    BY FS_RemoveElement, Zenon
  <2>3. IsFiniteSet(Below(u)) /\ Cardinality(Below(u)) <= Cardinality(S \ {u})
    BY <2>1, <2>2, FS_Subset, Zenon
  <2>4. Cardinality(Below(u)) \in Nat
    BY <2>3, FS_CardinalityType, Zenon
  <2> HIDE DEF Below
  <2> QED
    BY <1>1, <2>2, <2>3, <2>4
<1>3. ASSUME NEW u \in S, NEW v \in S, Before(u, v)
      PROVE  Cardinality(Below(u)) < Cardinality(Below(v))
  <2>1. Below(u) \in SUBSET Below(v) /\ u \in Below(v) /\ u \notin Below(u)
    BY <1>3, BeforeIsStrictOrder, Zenon
  <2>2. Cardinality(Below(u)) <= Cardinality(Below(v)) /\ Cardinality(Below(v)) # Cardinality(Below(u))
    BY <1>2, <2>1, FS_Subset, Zenon
  <2> HIDE DEF Below
  <2> QED
    BY <1>2, <2>2
<1>4. rank \in [S -> 1 .. n]
  <2> HIDE DEF Below
  <2> QED
    BY <1>1, <1>2
<1>5. \A u, v \in S : Before(u, v) => rank[u] < rank[v]
  <2> HIDE DEF Below
  <2> QED
    BY <1>2, <1>3
<1> HIDE DEF rank, Below
<1>6. \A u, v \in S : u # v => rank[u] # rank[v]
  <2> SUFFICES ASSUME NEW u \in S, NEW v \in S, u # v PROVE rank[u] # rank[v]
    BY Zenon
  <2>1. rank[u] \in 1 .. n /\ rank[v] \in 1 .. n /\ (rank[u] < rank[v] \/ rank[v] < rank[u])
    BY <1>4, <1>5, BeforeIsStrictOrder, Zenon
  <2> QED
    BY <1>1, <2>1
<1>7. \A i \in 1 .. n : \E u \in S : rank[u] = i
  <2> DEFINE T == 1 .. n
  <2>1. IsFiniteSet(T) /\ Cardinality(S) = Cardinality(T) /\ rank \in [S -> T]
    BY <1>1, <1>4, Zenon
  <2> HIDE DEF T
  <2>2. \A t \in T : \E u \in S : rank[u] = t
    BY <1>6, <2>1, InjectionReachesAll
  <2> QED
    BY <2>2, Zenon DEF T
<1>8. \E s \in [1 .. n -> S] : IsSorted(s)
  <2> DEFINE s == [i \in 1 .. n |-> CHOOSE u \in S : rank[u] = i]
  <2>1. \A i \in 1 .. n : s[i] \in S /\ rank[s[i]] = i
    BY <1>7, Zenon
  <2>2. s \in [1 .. n -> S] /\ DOMAIN s = 1 .. n
    BY <2>1, Zenon
  <2> HIDE DEF s
  <2>3. ASSUME NEW i \in 1 .. n, NEW j \in 1 .. n, i < j PROVE Before(s[i], s[j])
    <3>1. s[i] \in S /\ s[j] \in S /\ rank[s[i]] = i /\ rank[s[j]] = j
      BY <2>1, Zenon
    <3>2. i # j /\ ~(j < i)
      BY <1>1, <2>3
    <3>3. s[i] # s[j] /\ ~Before(s[j], s[i])
      BY <1>5, <3>1, <3>2, Zenon
    <3> QED
      BY <3>1, <3>3, BeforeIsStrictOrder, Zenon
  <2> QED
    BY <2>2, <2>3, Zenon
<1>9. Sorted(S) \in [1 .. n -> S] /\ IsSorted(Sorted(S))
  BY <1>8, Zenon DEF Sorted
<1>10. \A i, j \in 1 .. n : i # j => Sorted(S)[i] # Sorted(S)[j]
  <2> SUFFICES ASSUME NEW i \in 1 .. n, NEW j \in 1 .. n, i # j, Sorted(S)[i] = Sorted(S)[j] PROVE FALSE
    BY Zenon
  <2>1. i < j \/ j < i
    BY <1>1
  <2>2. Sorted(S)[i] \in S /\ DOMAIN Sorted(S) = 1 .. n
    BY <1>9, Zenon
  <2> QED
    BY <1>9, <2>1, <2>2, BeforeIsStrictOrder, Zenon
<1>11. \A u \in S : \E i \in 1 .. n : Sorted(S)[i] = u
  <2> DEFINE T == 1 .. n
             s == Sorted(S)
  <2>1. IsFiniteSet(T) /\ Cardinality(S) = Cardinality(T) /\ s \in [T -> S] /\ \A i, j \in T : i # j => s[i] # s[j]
    BY <1>1, <1>9, <1>10, Zenon
  <2> HIDE DEF T, s
  <2>2. \A u \in S : \E i \in T : s[i] = u
    BY <2>1, InjectionReachesAll
  <2> QED
    BY <2>2, Zenon DEF T, s
<1> QED
  BY <1>1, <1>9, <1>11, Zenon

-----------------------------------------------------------------------------
(* The branch and tag updates a push took, and its updates that have a hook. *)
Refs(p, took) == {p.updates[i] : i \in {j \in took : p.updates[j].kind # "other"}}
Hooks(p, j) == p.updates[j].kind = "branch" /\ p.updates[j].tree # NoImage

PushStage == {"load", "receive", "snapshots", "build", "hooks", "webhooks", "post", "done", "failed"}
PushShape(s) ==
    /\ DOMAIN s = {"at", "dest", "i", "try", "took", "seen", "failed"}
    /\ s.at \in PushStage /\ s.i \in Nat \ {0}

(* What is true of a push in state s beside the images and the hook runs: how far
   it came in the order of its refs, then in its updates. *)
Imaged(p, s, imgs) ==
    /\ s.seen \subseteq imgs \union s.failed
    /\ s.at \in {"snapshots", "build"} =>
         \A n \in 1 .. Cardinality(Refs(p, s.took)) :
           n < s.i => Sorted(Refs(p, s.took))[n].tree \in imgs \union s.failed \union {NoImage}
    /\ Snapshots /\ s.at \in {"hooks", "webhooks", "post", "done"} =>
         \A u \in Refs(p, s.took) : u.tree \in imgs \union s.failed \union {NoImage}
HooksRun(p, s, hks) ==
    /\ AllowHooks /\ s.at = "hooks" => \A j \in s.took : j < s.i /\ Hooks(p, j) => <<p.name, j>> \in hks
    /\ AllowHooks /\ s.at \in {"webhooks", "post", "done"} => \A j \in s.took : Hooks(p, j) => <<p.name, j>> \in hks
PushGood(p, s, imgs, hks) ==
    /\ PushShape(s) /\ s.took \subseteq DOMAIN p.updates
    /\ s.at \in {"load", "receive"} => s.i = 1
    /\ s.dest # NoSettings => s.dest.secret # 0 /\ s.dest.url # ""
    /\ s.at = "post" => s.dest # NoSettings /\ s.i \in s.took
    /\ Imaged(p, s, imgs) /\ HooksRun(p, s, hks)

(* A delivery is of a push that delivers, of an update it has come to. *)
Delivered(k, p, s) ==
    /\ k.by = p.name /\ k.dest = s.dest /\ k.at \in s.took /\ s.dest # NoSettings
    /\ s.at \in {"webhooks", "post", "done"}
    /\ s.at = "webhooks" => k.at < s.i
    /\ s.at = "post" => k.at <= s.i

SettingsGood ==
    /\ settings.secret # 0 => settings.url # ""
    /\ DOMAIN setCall = SetCall
    /\ \A c \in SetCall : DOMAIN setCall[c] = {"at", "next"} /\ (setCall[c].at = "write" => setCall[c].next.url # "")

(* The inductive invariant of PostReceive. *)
PostInv ==
    /\ SettingsGood /\ DOMAIN push = PushCall
    /\ \A p \in PushCall : PushGood(p, push[p], images, hooked)
    /\ \A k \in inbox : \E p \in PushCall : Delivered(k, p, push[p])

(* The sorted list of S has each of them. *)
SortsAll(S) ==
    /\ Cardinality(S) \in Nat /\ Sorted(S) \in [1 .. Cardinality(S) -> S] /\ Len(Sorted(S)) = Cardinality(S)
    /\ \A u \in S : \E n \in 1 .. Cardinality(S) : Sorted(S)[n] = u

(* The references a push took can be sorted. *)
LEMMA RefsListed ==
    ASSUME NEW p \in PushCall, NEW took, took \subseteq DOMAIN p.updates
    PROVE  SortsAll(Refs(p, took))
<1> DEFINE S == Refs(p, took)
           J == {j \in took : p.updates[j].kind # "other"}
           f == [j \in J |-> p.updates[j]]
<1>1. Len(p.updates) \in Nat /\ DOMAIN p.updates = 1 .. Len(p.updates)
  BY PostReceiveAssumption, Zenon
<1>2. IsFiniteSet(J)
  <2> DEFINE n == Len(p.updates)
  <2>1. n \in Nat /\ J \in SUBSET (1 .. n)
    BY <1>1, Zenon
  <2> HIDE DEF n, J
  <2>2. IsFiniteSet(1 .. n)
    BY <2>1, FS_Interval
  <2> QED
    BY <2>1, <2>2, FS_Subset, Zenon
<1>3. f \in [J -> S] /\ \A u \in S : \E j \in J : f[j] = u
  BY Zenon DEF Refs
<1>4. Named(S)
  BY PostReceiveAssumption, Zenon DEF Refs, Named
<1> HIDE DEF f, J, S
<1>5. f \in Surjection(J, S)
  BY <1>3, Zenon DEF Surjection
<1>6. IsFiniteSet(S)
  BY <1>2, <1>5, FS_Surjection, Zenon
<1>7. /\ Cardinality(S) \in Nat /\ Sorted(S) \in [1 .. Cardinality(S) -> S]
      /\ \A u \in S : \E n \in 1 .. Cardinality(S) : Sorted(S)[n] = u
  BY <1>4, <1>6, SortedListsAll, Zenon
<1>8. Len(Sorted(S)) = Cardinality(S)
  BY <1>7
<1>9. SortsAll(S)
  BY <1>7, <1>8, Zenon DEF SortsAll
<1> QED
  BY <1>9, Zenon DEF S

(* Images and hook runs only grow. *)
LEMMA GoodStays ==
    ASSUME NEW p, NEW s, NEW imgs, NEW hks, NEW imgs2, NEW hks2,
           PushGood(p, s, imgs, hks), imgs \subseteq imgs2, hks \subseteq hks2
    PROVE  PushGood(p, s, imgs2, hks2)
<1>1. Imaged(p, s, imgs2)
  BY Zenon DEF PushGood, Imaged
<1>2. HooksRun(p, s, hks2)
  BY Zenon DEF PushGood, HooksRun
<1> QED
  BY <1>1, <1>2, Zenon DEF PushGood

(* One push goes on, from s to r. *)
LEMMA PushMoves ==
    ASSUME PostInv, NEW p \in PushCall, NEW r, push' = [push EXCEPT ![p] = r],
           UNCHANGED <<settings, setCall>>, images \subseteq images', hooked \subseteq hooked',
           PushGood(p, r, images', hooked'),
           \A k \in inbox : Delivered(k, p, push[p]) => Delivered(k, p, r),
           \A k \in inbox' : k \in inbox \/ Delivered(k, p, r)
    PROVE  PostInv'
<1>1. DOMAIN push' = PushCall /\ push'[p] = r /\ \A q \in PushCall : q # p => push'[q] = push[q]
  BY Zenon DEF PostInv
<1>2. UNCHANGED settings /\ UNCHANGED setCall
  BY Zenon
<1>3. SettingsGood'
  BY <1>2, Zenon DEF PostInv, SettingsGood
<1>4. ASSUME NEW q \in PushCall PROVE PushGood(q, push'[q], images', hooked')
  <2>1. CASE q = p
    BY <1>1, <2>1, Zenon
  <2>2. CASE q # p
    <3>1. push'[q] = push[q] /\ PushGood(q, push[q], images, hooked)
      BY <1>1, <2>2, Zenon DEF PostInv
    <3> QED
      BY <3>1, GoodStays, Zenon
  <2> QED
    BY <2>1, <2>2, Zenon
<1>5. ASSUME NEW k \in inbox' PROVE \E q \in PushCall : Delivered(k, q, push'[q])
  <2>1. CASE k \in inbox
    <3>1. PICK q \in PushCall : Delivered(k, q, push[q])
      BY <2>1, Zenon DEF PostInv
    <3>2. CASE q = p
      BY <1>1, <2>1, <3>1, <3>2, Zenon
    <3>3. CASE q # p
      BY <1>1, <3>1, <3>3, Zenon
    <3> QED
      BY <3>2, <3>3, Zenon
  <2>2. CASE Delivered(k, p, r)
    BY <1>1, <2>2, Zenon
  <2> QED
    BY <2>1, <2>2, Zenon
<1> QED
  BY <1>1, <1>3, <1>4, <1>5, Zenon DEF PostInv

(* A push that loads, receives or fails has delivered nothing. *)
LEMMA NothingDelivered ==
    ASSUME NEW p, NEW s, NEW k, s.at \in {"load", "receive", "snapshots", "build", "hooks"}, Delivered(k, p, s)
    PROVE  FALSE
BY DEF Delivered

(* The fields of a push after its moves. *)
LEMMA PushAtFields ==
    ASSUME NEW s, PushShape(s), NEW at
    PROVE  LET r == [s EXCEPT !.at = at, !.i = 1, !.try = 1] IN
           /\ DOMAIN r = {"at", "dest", "i", "try", "took", "seen", "failed"} /\ r.at = at /\ r.i = 1
           /\ r.dest = s.dest /\ r.took = s.took /\ r.seen = s.seen /\ r.failed = s.failed
BY Zenon DEF PushShape

LEMMA NextFields ==
    ASSUME NEW s, PushShape(s), NEW at
    PROVE  LET r == [s EXCEPT !.at = at, !.i = @ + 1, !.try = 1] IN
           /\ DOMAIN r = {"at", "dest", "i", "try", "took", "seen", "failed"} /\ r.at = at /\ r.i = s.i + 1
           /\ r.dest = s.dest /\ r.took = s.took /\ r.seen = s.seen /\ r.failed = s.failed
BY Zenon DEF PushShape

LEMMA LoadKeeps == ASSUME PostInv, NEW p \in PushCall, LoadSettings(p) PROVE PostInv'
<1> DEFINE s == push[p]
<1>1. PushGood(p, s, images, hooked) /\ PushShape(s) /\ s.at = "load" /\ DOMAIN push = PushCall
  BY Zenon DEF PostInv, LoadSettings, PushGood
<1>2. PICK reading \in Readings :
        push' = [push EXCEPT ![p].at = "receive", ![p].dest = IF reading.secret = 0 THEN NoSettings ELSE reading]
  BY Zenon DEF LoadSettings
<1> DEFINE d == IF reading.secret = 0 THEN NoSettings ELSE reading
           r == [s EXCEPT !.at = "receive", !.dest = d]
<1>3. d # NoSettings => d.secret # 0 /\ d.url # ""
  <2>1. Unreadable.secret = 0
    BY DEF Unreadable
  <2>2. reading.secret # 0 => reading = settings
    BY <2>1, Zenon DEF Readings
  <2> QED
    BY <2>2, Zenon DEF PostInv, SettingsGood
<1> HIDE DEF d
<1>4. push' = [push EXCEPT ![p] = r]
  BY <1>1, <1>2, Zenon DEF d
<1>5. /\ DOMAIN r = {"at", "dest", "i", "try", "took", "seen", "failed"} /\ r.at = "receive" /\ r.i = s.i
      /\ r.dest = d /\ r.took = s.took /\ r.seen = s.seen /\ r.failed = s.failed
  BY <1>1, Zenon DEF PushShape
<1> HIDE DEF r
<1>6. PushGood(p, r, images, hooked)
  <2>1. PushShape(r) /\ s.i = 1
    BY <1>1, <1>5 DEF PushShape, PushStage, PushGood
  <2>2. Imaged(p, r, images) /\ HooksRun(p, r, hooked)
    BY <1>1, <1>5 DEF PushGood, Imaged, HooksRun
  <2>3. r.at # "post"
    BY <1>5
  <2> QED
    BY <1>1, <1>3, <1>5, <2>1, <2>2, <2>3, Zenon DEF PushGood
<1>7. UNCHANGED <<settings, setCall>> /\ images' = images /\ hooked' = hooked /\ inbox' = inbox
  BY Zenon DEF LoadSettings
<1>8. \A k \in inbox : ~Delivered(k, p, s)
  BY <1>1, NothingDelivered
<1> QED
  BY <1>4, <1>6, <1>7, <1>8, PushMoves, Zenon

LEMMA ReceiveKeeps == ASSUME PostInv, NEW p \in PushCall, ReceivePack(p) PROVE PostInv'
<1> DEFINE s == push[p]
<1>1. PushGood(p, s, images, hooked) /\ PushShape(s) /\ s.at = "receive" /\ DOMAIN push = PushCall
  BY Zenon DEF PostInv, ReceivePack, PushGood
<1>2. UNCHANGED <<settings, setCall>> /\ images' = images /\ hooked' = hooked /\ inbox' = inbox
  BY Zenon DEF ReceivePack
<1>3. \A k \in inbox : ~Delivered(k, p, s)
  BY <1>1, NothingDelivered
<1>4. CASE PushAt(p, "failed")
  <2> DEFINE r == [s EXCEPT !.at = "failed", !.i = 1, !.try = 1]
  <2>1. push' = [push EXCEPT ![p] = r]
    BY <1>1, <1>4, Zenon DEF PushAt
  <2>2. /\ DOMAIN r = {"at", "dest", "i", "try", "took", "seen", "failed"} /\ r.at = "failed" /\ r.i = 1
        /\ r.dest = s.dest /\ r.took = s.took /\ r.seen = s.seen /\ r.failed = s.failed
    BY <1>1, PushAtFields, Zenon
  <2> HIDE DEF r
  <2>3. PushShape(r) /\ Imaged(p, r, images) /\ HooksRun(p, r, hooked) /\ r.at # "post"
    BY <1>1, <2>2 DEF PushShape, PushStage, PushGood, Imaged, HooksRun
  <2>4. PushGood(p, r, images, hooked)
    BY <1>1, <2>2, <2>3, Zenon DEF PushGood
  <2> QED
    BY <1>2, <1>3, <2>1, <2>4, PushMoves, Zenon
<1>5. ASSUME NEW took \in SUBSET DOMAIN p.updates,
             push' = [push EXCEPT ![p].took = took,
                                  ![p].at = IF Snapshots THEN "snapshots" ELSE IF AllowHooks THEN "hooks"
                                            ELSE IF Enabled(p) THEN "webhooks" ELSE "done"]
      PROVE  PostInv'
  <2> DEFINE at == IF Snapshots THEN "snapshots" ELSE IF AllowHooks THEN "hooks" ELSE IF Enabled(p) THEN "webhooks" ELSE "done"
             r == [s EXCEPT !.took = took, !.at = at]
  <2>1. /\ at \in PushStage /\ at \notin {"load", "receive", "post", "build"}
        /\ Snapshots => at = "snapshots"
        /\ AllowHooks => at \in {"snapshots", "hooks"}
    BY DEF PushStage
  <2> HIDE DEF at
  <2>2. push' = [push EXCEPT ![p] = r]
    BY <1>1, <1>5, Zenon DEF at
  <2>3. /\ DOMAIN r = {"at", "dest", "i", "try", "took", "seen", "failed"} /\ r.at = at /\ r.i = s.i
        /\ r.dest = s.dest /\ r.took = took /\ r.seen = s.seen /\ r.failed = s.failed
    BY <1>1, Zenon DEF PushShape
  <2> HIDE DEF r
  <2>4. s.i = 1 /\ PushShape(r)
    BY <1>1, <2>1, <2>3 DEF PushShape, PushGood
  <2>5. Cardinality(Refs(p, took)) \in Nat
    BY RefsListed, Zenon DEF SortsAll
  <2>6. Imaged(p, r, images)
    <3>1. s.seen \subseteq images \union s.failed
      BY <1>1, Zenon DEF PushGood, Imaged
    <3>2. \A n \in 1 .. Cardinality(Refs(p, took)) : ~(n < s.i)
      BY <2>4, <2>5
    <3>3. Snapshots => r.at \notin {"hooks", "webhooks", "post", "done"}
      BY <2>1, <2>3
    <3> QED
      BY <2>3, <3>1, <3>2, <3>3, Zenon DEF Imaged
  <2>7. HooksRun(p, r, hooked)
    <3>1. AllowHooks => r.at \notin {"webhooks", "post", "done"}
      BY <2>1, <2>3
    <3>2. \A j \in r.took : ~(j < r.i)
      BY <2>3, <2>4, PostReceiveAssumption
    <3> QED
      BY <3>1, <3>2, Zenon DEF HooksRun
  <2>8. PushGood(p, r, images, hooked)
    <3>1. r.at # "post" /\ r.at \notin {"load", "receive"}
      BY <2>1, <2>3, Zenon
    <3> QED
      BY <1>1, <2>3, <2>4, <2>6, <2>7, <3>1, Zenon DEF PushGood
  <2> QED
    BY <1>2, <1>3, <2>2, <2>8, PushMoves, Zenon
<1> QED
  BY <1>4, <1>5, Zenon DEF ReceivePack

(* runSnapshots goes on to the next ref: the tree of this one has an image or is
   counted as failed. *)
LEMMA NextRefKeeps ==
    ASSUME PostInv, NEW p \in PushCall, push[p].at \in {"snapshots", "build"},
           NEW seen, NEW failed, NextRef(p, seen, failed),
           UNCHANGED <<settings, setCall>>, images \subseteq images', hooked' = hooked, inbox' = inbox,
           seen \subseteq images' \union push[p].failed \union failed,
           push[p].i <= Len(Ordered(p)) =>
             TreeAtTip(p, push[p].i) \in images' \union push[p].failed \union failed \union {NoImage}
    PROVE  PostInv'
<1> DEFINE s == push[p]
           r == [s EXCEPT !.at = "snapshots", !.i = @ + 1, !.seen = @ \union seen, !.failed = @ \union failed]
<1>1. PushGood(p, s, images, hooked) /\ PushShape(s) /\ DOMAIN push = PushCall /\ s.took \subseteq DOMAIN p.updates
  BY Zenon DEF PostInv, PushGood
<1>2. push' = [push EXCEPT ![p] = r]
  BY <1>1, Zenon DEF NextRef
<1>3. /\ DOMAIN r = {"at", "dest", "i", "try", "took", "seen", "failed"} /\ r.at = "snapshots" /\ r.i = s.i + 1
      /\ r.dest = s.dest /\ r.took = s.took /\ r.seen = s.seen \union seen /\ r.failed = s.failed \union failed
  BY <1>1, Zenon DEF PushShape
<1> HIDE DEF r
<1> DEFINE S == Refs(p, s.took)
<1>4. Ordered(p) = Sorted(S)
  BY Zenon DEF Ordered, Refs
<1>5. Cardinality(S) \in Nat /\ Len(Sorted(S)) = Cardinality(S)
  <2>1. SortsAll(S)
    BY <1>1, RefsListed, Zenon
  <2> QED
    BY <2>1, Zenon DEF SortsAll
<1> HIDE DEF S
<1>6. PushShape(r)
  BY <1>1, <1>3 DEF PushShape, PushStage
<1>7. ASSUME NEW n \in 1 .. Cardinality(S), n < r.i
      PROVE  Sorted(S)[n].tree \in images' \union r.failed \union {NoImage}
  <2>1. CASE n < s.i
    <3>1. Sorted(S)[n].tree \in images \union s.failed \union {NoImage}
      BY <1>1, <2>1, Zenon DEF PushGood, Imaged, S
    <3> QED
      BY <1>3, <3>1, Zenon
  <2>2. CASE n = s.i
    <3>1. s.i <= Len(Ordered(p))
      BY <1>4, <1>5, <2>2
    <3>2. TreeAtTip(p, s.i) \in images' \union s.failed \union failed \union {NoImage}
      BY <3>1, Zenon
    <3> QED
      BY <1>3, <1>4, <2>2, <3>2, Zenon DEF TreeAtTip
  <2>3. n < s.i \/ n = s.i
    BY <1>1, <1>3, <1>5, <1>7 DEF PushShape
  <2> QED
    BY <2>1, <2>2, <2>3, Zenon
<1>8. Imaged(p, r, images')
  <2>1. s.seen \subseteq images \union s.failed
    BY <1>1, Zenon DEF PushGood, Imaged
  <2>2. r.seen \subseteq images' \union r.failed
    BY <1>3, <2>1, Zenon
  <2>3. r.at \notin {"hooks", "webhooks", "post", "done"}
    BY <1>3
  <2> QED
    BY <1>3, <1>7, <2>2, <2>3, Zenon DEF Imaged, S
<1>9. HooksRun(p, r, hooked') /\ r.at # "post" /\ r.at \notin {"load", "receive"}
  BY <1>3 DEF HooksRun
<1>10. PushGood(p, r, images', hooked')
  BY <1>1, <1>3, <1>6, <1>8, <1>9, Zenon DEF PushGood
<1>11. \A k \in inbox : ~Delivered(k, p, s)
  BY NothingDelivered
<1> QED
  BY <1>2, <1>10, <1>11, PushMoves, Zenon

(* What has been seen has an image or failed. *)
LEMMA MetIsSettled ==
    ASSUME PostInv, NEW p \in PushCall, Met(p, push[p].i)
    PROVE  TreeAtTip(p, push[p].i) \in images \union push[p].failed \union {NoImage}
BY Zenon DEF PostInv, PushGood, Imaged, Met

LEMMA SnapshotRefKeeps == ASSUME PostInv, NEW p \in PushCall, SnapshotRef(p) PROVE PostInv'
<1> DEFINE s == push[p]
           S == Refs(p, s.took)
<1>1. PushGood(p, s, images, hooked) /\ PushShape(s) /\ DOMAIN push = PushCall /\ s.took \subseteq DOMAIN p.updates
  BY Zenon DEF PostInv, PushGood
<1>2. UNCHANGED <<settings, setCall>> /\ images' = images /\ hooked' = hooked /\ inbox' = inbox /\ s.at = "snapshots"
  BY Zenon DEF SnapshotRef
<1>3. \A k \in inbox : ~Delivered(k, p, s)
  BY <1>2, NothingDelivered
<1>4. /\ Ordered(p) = Sorted(S) /\ Cardinality(S) \in Nat /\ Len(Sorted(S)) = Cardinality(S)
      /\ \A u \in S : \E n \in 1 .. Cardinality(S) : Sorted(S)[n] = u
  <2>1. Ordered(p) = Sorted(S)
    BY Zenon DEF Ordered, Refs
  <2>2. SortsAll(S)
    BY <1>1, RefsListed, Zenon
  <2> QED
    BY <2>1, <2>2, Zenon DEF SortsAll
<1> HIDE DEF S
<1>5. CASE s.i > Len(Ordered(p)) /\ PushAt(p, IF AllowHooks THEN "hooks" ELSE "webhooks")
  <2> DEFINE at == IF AllowHooks THEN "hooks" ELSE "webhooks"
             r == [s EXCEPT !.at = at, !.i = 1, !.try = 1]
  <2>1. at \in PushStage /\ at \in {"hooks", "webhooks"} /\ (AllowHooks => at = "hooks")
    BY DEF PushStage
  <2>2. push' = [push EXCEPT ![p] = r]
    BY <1>1, <1>5, Zenon DEF PushAt
  <2> HIDE DEF at
  <2>3. /\ DOMAIN r = {"at", "dest", "i", "try", "took", "seen", "failed"} /\ r.at = at /\ r.i = 1
        /\ r.dest = s.dest /\ r.took = s.took /\ r.seen = s.seen /\ r.failed = s.failed
    BY <1>1, PushAtFields, Zenon
  <2> HIDE DEF r
  <2>4. PushShape(r) /\ r.at \notin {"snapshots", "build", "load", "receive"} /\ r.at # "post"
    BY <2>1, <2>3 DEF PushShape
  <2>5. ASSUME NEW u \in S PROVE u.tree \in images \union s.failed \union {NoImage}
    <3>1. PICK n \in 1 .. Cardinality(S) : Sorted(S)[n] = u
      BY <1>4, Zenon
    <3>2. n < s.i
      BY <1>1, <1>4, <1>5 DEF PushShape
    <3> QED
      BY <1>1, <1>2, <3>1, <3>2, Zenon DEF PushGood, Imaged, S
  <2>6. Imaged(p, r, images)
    <3>1. s.seen \subseteq images \union s.failed
      BY <1>1, Zenon DEF PushGood, Imaged
    <3> QED
      BY <2>3, <2>4, <2>5, <3>1, Zenon DEF Imaged, S
  <2>7. HooksRun(p, r, hooked)
    <3>1. AllowHooks => r.at \notin {"webhooks", "post", "done"}
      BY <2>1, <2>3
    <3>2. \A j \in r.took : ~(j < r.i)
      BY <1>1, <2>3, PostReceiveAssumption
    <3> QED
      BY <3>1, <3>2, Zenon DEF HooksRun
  <2>8. PushGood(p, r, images, hooked)
    BY <1>1, <2>3, <2>4, <2>6, <2>7, Zenon DEF PushGood
  <2> QED
    BY <1>2, <1>3, <2>2, <2>8, PushMoves, Zenon
<1>6. CASE Met(p, s.i) /\ NextRef(p, {}, {})
  <2>1. TreeAtTip(p, s.i) \in images \union s.failed \union {NoImage}
    BY <1>6, MetIsSettled, Zenon
  <2>2. /\ images \subseteq images' /\ {} \subseteq images' \union s.failed \union {}
        /\ TreeAtTip(p, s.i) \in images' \union s.failed \union {} \union {NoImage}
    BY <1>2, <2>1, Zenon
  <2> QED
    BY <1>2, <1>6, <2>2, NextRefKeeps, Zenon
<1>7. CASE TreeAtTip(p, s.i) \in images /\ NextRef(p, {TreeAtTip(p, s.i)}, {})
  <2>1. /\ images \subseteq images' /\ {TreeAtTip(p, s.i)} \subseteq images' \union s.failed \union {}
        /\ TreeAtTip(p, s.i) \in images' \union s.failed \union {} \union {NoImage}
    BY <1>2, <1>7, Zenon
  <2> QED
    BY <1>2, <1>7, <2>1, NextRefKeeps, Zenon
<1>8. CASE push' = [push EXCEPT ![p].at = "build"]
  <2> DEFINE r == [s EXCEPT !.at = "build"]
  <2>1. push' = [push EXCEPT ![p] = r]
    BY <1>1, <1>8, Zenon
  <2>2. /\ DOMAIN r = {"at", "dest", "i", "try", "took", "seen", "failed"} /\ r.at = "build" /\ r.i = s.i
        /\ r.dest = s.dest /\ r.took = s.took /\ r.seen = s.seen /\ r.failed = s.failed
    BY <1>1, Zenon DEF PushShape
  <2> HIDE DEF r
  <2>3. PushShape(r) /\ HooksRun(p, r, hooked) /\ r.at # "post" /\ r.at \notin {"load", "receive"}
    BY <1>1, <2>2 DEF PushShape, PushStage, HooksRun
  <2>4. Imaged(p, r, images)
    <3>1. r.at \notin {"hooks", "webhooks", "post", "done"}
      BY <2>2
    <3> QED
      BY <1>1, <1>2, <2>2, <3>1, Zenon DEF PushGood, Imaged
  <2>5. PushGood(p, r, images, hooked)
    BY <1>1, <2>2, <2>3, <2>4, Zenon DEF PushGood
  <2> QED
    BY <1>2, <1>3, <2>1, <2>5, PushMoves, Zenon
<1> QED
  BY <1>5, <1>6, <1>7, <1>8, Zenon DEF SnapshotRef

LEMMA EnsureKeeps ==
    ASSUME PostInv, NEW p \in PushCall, PutSnapshot(p) \/ SnapshotFails(p) \/ PeelFails(p)
    PROVE  PostInv'
<1> DEFINE s == push[p]
           t == TreeAtTip(p, s.i)
<1>1. CASE PutSnapshot(p)
  <2>1. /\ s.at \in {"snapshots", "build"} /\ NextRef(p, {t}, {}) /\ UNCHANGED <<settings, setCall>>
        /\ images \subseteq images' /\ hooked' = hooked /\ inbox' = inbox /\ t \in images'
    BY <1>1, Zenon DEF PutSnapshot
  <2>2. {t} \subseteq images' \union s.failed \union {} /\ t \in images' \union s.failed \union {} \union {NoImage}
    BY <2>1, Zenon
  <2> QED
    BY <2>1, <2>2, NextRefKeeps, Zenon
<1>2. CASE SnapshotFails(p)
  <2>1. /\ s.at \in {"snapshots", "build"} /\ NextRef(p, {t}, {t}) /\ UNCHANGED <<settings, setCall>>
        /\ images \subseteq images' /\ hooked' = hooked /\ inbox' = inbox
    BY <1>2, Zenon DEF SnapshotFails
  <2>2. {t} \subseteq images' \union s.failed \union {t} /\ t \in images' \union s.failed \union {t} \union {NoImage}
    BY Zenon
  <2> QED
    BY <2>1, <2>2, NextRefKeeps, Zenon
<1>3. CASE PeelFails(p)
  <2>1. /\ s.at \in {"snapshots", "build"} /\ NextRef(p, {}, {t}) /\ UNCHANGED <<settings, setCall>>
        /\ images \subseteq images' /\ hooked' = hooked /\ inbox' = inbox
    BY <1>3, Zenon DEF PeelFails
  <2>2. {} \subseteq images' \union s.failed \union {t} /\ t \in images' \union s.failed \union {t} \union {NoImage}
    BY Zenon
  <2> QED
    BY <2>1, <2>2, NextRefKeeps, Zenon
<1> QED
  BY <1>1, <1>2, <1>3, Zenon

LEMMA TookNumbers ==
    ASSUME NEW p \in PushCall, NEW s, PushGood(p, s, images, hooked)
    PROVE  s.took \subseteq Nat /\ s.i \in Nat \ {0}
<1>1. s.took \subseteq 1 .. Len(p.updates) /\ Len(p.updates) \in Nat /\ s.i \in Nat \ {0}
  BY PostReceiveAssumption, Zenon DEF PushGood, PushShape
<1>2. 1 .. Len(p.updates) \subseteq Nat
  BY <1>1
<1> QED
  BY <1>1, <1>2, Zenon

(* A push among its events: what it took, its destination and its images stay. *)
LEMMA EmitKeeps ==
    ASSUME PostInv, NEW p \in PushCall, push[p].at \in {"webhooks", "post"}, NEW r, push' = [push EXCEPT ![p] = r],
           DOMAIN r = {"at", "dest", "i", "try", "took", "seen", "failed"},
           r.at \in {"webhooks", "post", "done"}, r.i \in Nat \ {0},
           r.dest = push[p].dest, r.took = push[p].took, r.seen = push[p].seen, r.failed = push[p].failed,
           r.at = "post" => r.dest # NoSettings /\ r.i \in r.took,
           UNCHANGED <<settings, setCall>>, images' = images, hooked' = hooked,
           \A k \in inbox : Delivered(k, p, push[p]) => Delivered(k, p, r),
           \A k \in inbox' : k \in inbox \/ Delivered(k, p, r)
    PROVE  PostInv'
<1> DEFINE s == push[p]
<1>1. PushGood(p, s, images, hooked)
  BY Zenon DEF PostInv
<1>2. PushShape(r) /\ r.at \notin {"load", "receive"} /\ r.at \notin {"snapshots", "build"} /\ r.at # "hooks"
  BY DEF PushShape, PushStage
<1>3. s.at \in {"hooks", "webhooks", "post", "done"} /\ s.at \in {"webhooks", "post", "done"}
  BY Zenon
<1>4. Imaged(p, r, images') /\ HooksRun(p, r, hooked')
  BY <1>1, <1>2, <1>3, Zenon DEF PushGood, Imaged, HooksRun
<1>5. PushGood(p, r, images', hooked')
  BY <1>1, <1>2, <1>4, Zenon DEF PushGood
<1> QED
  BY <1>5, PushMoves, Zenon

LEMMA HookKeeps == ASSUME PostInv, NEW p \in PushCall, RunHook(p) PROVE PostInv'
<1> DEFINE s == push[p]
<1>1. PushGood(p, s, images, hooked) /\ PushShape(s) /\ s.at = "hooks" /\ DOMAIN push = PushCall
  BY Zenon DEF PostInv, RunHook, PushGood
<1>2. UNCHANGED <<settings, setCall>> /\ images' = images /\ inbox' = inbox /\ hooked \subseteq hooked'
  BY Zenon DEF RunHook
<1>3. \A k \in inbox : ~Delivered(k, p, s)
  BY <1>1, NothingDelivered
<1>4. \A j \in s.took : j \in 1 .. Len(p.updates) /\ Len(p.updates) \in Nat
  BY <1>1, PostReceiveAssumption, Zenon DEF PushGood
<1>5. CASE Over(p) /\ PushAt(p, "webhooks")
  <2> DEFINE r == [s EXCEPT !.at = "webhooks", !.i = 1, !.try = 1]
  <2>1. push' = [push EXCEPT ![p] = r]
    BY <1>1, <1>5, Zenon DEF PushAt
  <2>2. /\ DOMAIN r = {"at", "dest", "i", "try", "took", "seen", "failed"} /\ r.at = "webhooks" /\ r.i = 1
        /\ r.dest = s.dest /\ r.took = s.took /\ r.seen = s.seen /\ r.failed = s.failed
    BY <1>1, PushAtFields, Zenon
  <2> HIDE DEF r
  <2>3. /\ PushShape(r) /\ r.at # "post" /\ r.at # "hooks" /\ r.at \notin {"load", "receive"}
        /\ r.at \notin {"snapshots", "build"}
    BY <2>2 DEF PushShape, PushStage
  <2>4. Imaged(p, r, images')
    <3>1. s.at \in {"hooks", "webhooks", "post", "done"}
      BY <1>1, Zenon
    <3> QED
      BY <1>1, <1>2, <2>2, <2>3, <3>1, Zenon DEF PushGood, Imaged
  <2>5. \A j \in s.took : j < s.i
    BY <1>1, <1>4, <1>5 DEF Over, PushShape
  <2>6. HooksRun(p, r, hooked')
    BY <1>1, <1>2, <2>2, <2>3, <2>5, Zenon DEF PushGood, HooksRun
  <2>7. PushGood(p, r, images', hooked')
    BY <1>1, <2>2, <2>3, <2>4, <2>6, Zenon DEF PushGood
  <2> QED
    BY <1>2, <1>3, <2>1, <2>7, PushMoves, Zenon
<1>6. CASE /\ Advance(p)
           /\ hooked' = IF s.i \in s.took /\ UpdateOf(p).kind = "branch" /\ UpdateOf(p).tree # NoImage
                        THEN hooked \union {<<p.name, s.i>>} ELSE hooked
  <2> DEFINE r == [s EXCEPT !.i = @ + 1, !.try = 1]
  <2>1. push' = [push EXCEPT ![p] = r]
    BY <1>1, <1>6, Zenon DEF Advance
  <2>2. /\ DOMAIN r = {"at", "dest", "i", "try", "took", "seen", "failed"} /\ r.at = "hooks" /\ r.i = s.i + 1
        /\ r.dest = s.dest /\ r.took = s.took /\ r.seen = s.seen /\ r.failed = s.failed
    BY <1>1, Zenon DEF PushShape
  <2> HIDE DEF r
  <2>3. /\ PushShape(r) /\ r.at # "post" /\ r.at \notin {"load", "receive"}
        /\ r.at \notin {"snapshots", "build"} /\ r.at \notin {"webhooks", "post", "done"}
    BY <1>1, <2>2 DEF PushShape, PushStage
  <2>4. Imaged(p, r, images')
    BY <1>1, <1>2, <2>2, <2>3, Zenon DEF PushGood, Imaged
  <2>5. ASSUME AllowHooks, NEW j \in s.took, j < r.i, Hooks(p, j) PROVE <<p.name, j>> \in hooked'
    <3>1. CASE j < s.i
      BY <1>1, <1>2, <2>5, <3>1, Zenon DEF PushGood, HooksRun
    <3>2. CASE j = s.i
      BY <1>6, <2>5, <3>2, Zenon DEF Hooks, UpdateOf
    <3>3. j < s.i \/ j = s.i
      BY <1>1, <1>4, <2>2, <2>5 DEF PushShape
    <3> QED
      BY <3>1, <3>2, <3>3, Zenon
  <2>6. HooksRun(p, r, hooked')
    BY <2>2, <2>3, <2>5, Zenon DEF HooksRun
  <2>7. PushGood(p, r, images', hooked')
    BY <1>1, <2>2, <2>3, <2>4, <2>6, Zenon DEF PushGood
  <2> QED
    BY <1>2, <1>3, <2>1, <2>7, PushMoves, Zenon
<1> QED
  BY <1>5, <1>6, Zenon DEF RunHook

LEMMA EventKeeps == ASSUME PostInv, NEW p \in PushCall, NextEvent(p) PROVE PostInv'
<1> DEFINE s == push[p]
<1>1. PushGood(p, s, images, hooked) /\ PushShape(s) /\ s.at = "webhooks" /\ DOMAIN push = PushCall
  BY Zenon DEF PostInv, NextEvent, PushGood
<1>2. UNCHANGED <<settings, setCall>> /\ images' = images /\ hooked' = hooked /\ inbox' = inbox
  BY Zenon DEF NextEvent
<1>3. s.took \subseteq Nat /\ s.i \in Nat \ {0}
  BY <1>1, TookNumbers, Zenon
<1>4. CASE PushAt(p, "done")
  <2> DEFINE r == [s EXCEPT !.at = "done", !.i = 1, !.try = 1]
  <2>1. push' = [push EXCEPT ![p] = r]
    BY <1>1, <1>4, Zenon DEF PushAt
  <2>2. /\ DOMAIN r = {"at", "dest", "i", "try", "took", "seen", "failed"} /\ r.at = "done" /\ r.i = 1
        /\ r.dest = s.dest /\ r.took = s.took /\ r.seen = s.seen /\ r.failed = s.failed
    BY <1>1, PushAtFields, Zenon
  <2> HIDE DEF r
  <2>3. r.i \in Nat \ {0} /\ r.at # "post" /\ r.at # "webhooks" /\ r.at \in {"webhooks", "post", "done"}
    BY <2>2
  <2>4. \A k \in inbox : Delivered(k, p, s) => Delivered(k, p, r)
    BY <2>2, <2>3, Zenon DEF Delivered
  <2> QED
    BY <1>1, <1>2, <2>1, <2>2, <2>3, <2>4, EmitKeeps, Zenon
<1>5. CASE Advance(p)
  <2> DEFINE r == [s EXCEPT !.i = @ + 1, !.try = 1]
  <2>1. push' = [push EXCEPT ![p] = r]
    BY <1>1, <1>5, Zenon DEF Advance
  <2>2. /\ DOMAIN r = {"at", "dest", "i", "try", "took", "seen", "failed"} /\ r.at = "webhooks" /\ r.i = s.i + 1
        /\ r.dest = s.dest /\ r.took = s.took /\ r.seen = s.seen /\ r.failed = s.failed
    BY <1>1, Zenon DEF PushShape
  <2> HIDE DEF r
  <2>3. r.i \in Nat \ {0} /\ r.at # "post"
    BY <1>3, <2>2
  <2>4. \A j \in s.took : j < s.i => j < r.i
    BY <1>3, <2>2
  <2>5. \A k \in inbox : Delivered(k, p, s) => Delivered(k, p, r)
    BY <1>1, <2>2, <2>3, <2>4, Zenon DEF Delivered
  <2> QED
    BY <1>1, <1>2, <2>1, <2>2, <2>3, <2>5, EmitKeeps, Zenon
<1>6. CASE Enabled(p) /\ s.i \in s.took /\ push' = [push EXCEPT ![p].at = "post"]
  <2> DEFINE r == [s EXCEPT !.at = "post"]
  <2>1. push' = [push EXCEPT ![p] = r]
    BY <1>1, <1>6, Zenon
  <2>2. /\ DOMAIN r = {"at", "dest", "i", "try", "took", "seen", "failed"} /\ r.at = "post" /\ r.i = s.i
        /\ r.dest = s.dest /\ r.took = s.took /\ r.seen = s.seen /\ r.failed = s.failed
    BY <1>1, Zenon DEF PushShape
  <2> HIDE DEF r
  <2>3. \A j \in s.took : j < s.i => j <= r.i
    BY <1>3, <2>2
  <2>4. r.at # "webhooks" /\ r.at \in {"webhooks", "post", "done"}
    BY <2>2
  <2>5. \A k \in inbox : Delivered(k, p, s) => Delivered(k, p, r)
    BY <1>1, <2>2, <2>3, <2>4, Zenon DEF Delivered
  <2> QED
    BY <1>1, <1>2, <1>3, <1>6, <2>1, <2>2, <2>5, EmitKeeps, Zenon DEF Enabled
<1> QED
  BY <1>4, <1>5, <1>6, Zenon DEF NextEvent

LEMMA DeliverKeeps == ASSUME PostInv, NEW p \in PushCall, DeliverOnce(p) PROVE PostInv'
<1> DEFINE s == push[p]
           event == [by |-> p.name, at |-> s.i, dest |-> s.dest]
<1>1. /\ PushGood(p, s, images, hooked) /\ PushShape(s) /\ s.at = "post" /\ DOMAIN push = PushCall
      /\ s.dest # NoSettings /\ s.i \in s.took
  BY Zenon DEF PostInv, DeliverOnce, PushGood
<1>2. UNCHANGED <<settings, setCall>> /\ images' = images /\ hooked' = hooked /\ inbox' \subseteq inbox \union {event}
  BY Zenon DEF DeliverOnce, Destination
<1>3. s.took \subseteq Nat /\ s.i \in Nat \ {0}
  BY <1>1, TookNumbers, Zenon
<1>4. event.by = p.name /\ event.at = s.i /\ event.dest = s.dest
  OBVIOUS
<1> HIDE DEF event
<1>5. CASE EndEvent(p)
  <2> DEFINE r == [s EXCEPT !.at = "webhooks", !.i = @ + 1, !.try = 1]
  <2>1. push' = [push EXCEPT ![p] = r]
    BY <1>1, <1>5, Zenon DEF EndEvent
  <2>2. /\ DOMAIN r = {"at", "dest", "i", "try", "took", "seen", "failed"} /\ r.at = "webhooks" /\ r.i = s.i + 1
        /\ r.dest = s.dest /\ r.took = s.took /\ r.seen = s.seen /\ r.failed = s.failed
    BY <1>1, NextFields, Zenon
  <2> HIDE DEF r
  <2>3. r.i \in Nat \ {0} /\ r.at # "post" /\ r.at \in {"webhooks", "post", "done"} /\ s.i < r.i
    BY <1>3, <2>2
  <2>4. \A j \in s.took : j <= s.i => j < r.i
    BY <1>3, <2>2
  <2>5. \A k \in inbox : Delivered(k, p, s) => Delivered(k, p, r)
    BY <1>1, <2>2, <2>3, <2>4, Zenon DEF Delivered
  <2>6. Delivered(event, p, r)
    BY <1>1, <1>4, <2>2, <2>3, Zenon DEF Delivered
  <2> QED
    BY <1>1, <1>2, <2>1, <2>2, <2>3, <2>5, <2>6, EmitKeeps, Zenon
<1>6. CASE push' = [push EXCEPT ![p].try = @ + 1]
  <2> DEFINE r == [s EXCEPT !.try = @ + 1]
  <2>1. push' = [push EXCEPT ![p] = r]
    BY <1>1, <1>6, Zenon
  <2>2. /\ DOMAIN r = {"at", "dest", "i", "try", "took", "seen", "failed"} /\ r.at = "post" /\ r.i = s.i
        /\ r.dest = s.dest /\ r.took = s.took /\ r.seen = s.seen /\ r.failed = s.failed
    BY <1>1, Zenon DEF PushShape
  <2> HIDE DEF r
  <2>3. r.at # "webhooks" /\ r.at \in {"webhooks", "post", "done"} /\ s.i <= r.i
    BY <1>3, <2>2
  <2>4. \A k \in inbox : Delivered(k, p, s) => Delivered(k, p, r)
    BY <1>1, <2>2, <2>3, Zenon DEF Delivered
  <2>5. Delivered(event, p, r)
    BY <1>1, <1>4, <2>2, <2>3, Zenon DEF Delivered
  <2> QED
    BY <1>1, <1>2, <1>3, <2>1, <2>2, <2>3, <2>4, <2>5, EmitKeeps, Zenon
<1> QED
  BY <1>5, <1>6, Zenon DEF DeliverOnce

(* Settings are written with an address. *)
LEMMA SetKeeps == ASSUME PostInv, NEW c \in SetCall, ReadSettings(c) \/ WriteSettings(c) PROVE PostInv'
<1>1. SettingsGood /\ DOMAIN setCall = SetCall /\ DOMAIN setCall[c] = {"at", "next"}
  BY Zenon DEF PostInv, SettingsGood
<1>2. UNCHANGED push /\ UNCHANGED images /\ UNCHANGED hooked /\ UNCHANGED inbox
  BY Zenon DEF ReadSettings, WriteSettings
<1>3. SUFFICES SettingsGood'
  BY <1>2, Zenon DEF PostInv
<1>4. ASSUME NEW r, setCall' = [setCall EXCEPT ![c] = r], DOMAIN r = {"at", "next"}, r.at = "write" => r.next.url # "",
             settings'.secret # 0 => settings'.url # ""
      PROVE  SettingsGood'
  <2>1. DOMAIN setCall' = SetCall /\ setCall'[c] = r /\ \A d \in SetCall : d # c => setCall'[d] = setCall[d]
    BY <1>1, <1>4, Zenon
  <2> QED
    BY <1>1, <1>4, <2>1, Zenon DEF SettingsGood
<1>5. ASSUME NEW at \in {"failed", "done"}, setCall' = [setCall EXCEPT ![c].at = at],
             settings'.secret # 0 => settings'.url # ""
      PROVE  SettingsGood'
  <2> DEFINE r == [setCall[c] EXCEPT !.at = at]
  <2>1. setCall' = [setCall EXCEPT ![c] = r]
    BY <1>1, <1>5, Zenon
  <2>2. DOMAIN r = {"at", "next"} /\ r.at = at /\ at # "write"
    BY <1>1, <1>5
  <2> HIDE DEF r
  <2> QED
    BY <1>4, <1>5, <2>1, <2>2, Zenon
<1>6. CASE ReadSettings(c)
  <2>1. settings' = settings /\ (settings'.secret # 0 => settings'.url # "")
    BY <1>1, <1>6, Zenon DEF ReadSettings, SettingsGood
  <2>2. \/ setCall' = [setCall EXCEPT ![c].at = "failed"]
        \/ \E url, secret : url # "" /\ setCall' = [setCall EXCEPT ![c] = [at |-> "write", next |-> [url |-> url, secret |-> secret]]]
    BY <1>6, Zenon DEF ReadSettings
  <2>3. ASSUME NEW url, NEW secret, url # "",
               setCall' = [setCall EXCEPT ![c] = [at |-> "write", next |-> [url |-> url, secret |-> secret]]]
        PROVE  SettingsGood'
    <3> DEFINE r == [at |-> "write", next |-> [url |-> url, secret |-> secret]]
    <3>1. DOMAIN r = {"at", "next"} /\ r.next.url = url
      OBVIOUS
    <3>2. setCall' = [setCall EXCEPT ![c] = r]
      BY <2>3, Zenon
    <3> HIDE DEF r
    <3> QED
      BY <1>4, <2>1, <2>3, <3>1, <3>2, Zenon
  <2> QED
    BY <1>5, <2>1, <2>2, <2>3, Zenon
<1>7. CASE WriteSettings(c)
  <2>1. setCall[c].next.url # ""
    BY <1>1, <1>7, Zenon DEF WriteSettings, SettingsGood
  <2>2. settings'.secret # 0 => settings'.url # ""
    BY <1>1, <1>7, <2>1, Zenon DEF WriteSettings, SettingsGood
  <2>3. \E at \in {"failed", "done"} : setCall' = [setCall EXCEPT ![c].at = at]
    BY <1>7, Zenon DEF WriteSettings
  <2> QED
    BY <1>5, <2>2, <2>3, Zenon
<1> QED
  BY <1>6, <1>7, Zenon

LEMMA PostInvStep == PostInv /\ [PostReceiveNext]_prVars => PostInv'
<1> SUFFICES ASSUME PostInv, [PostReceiveNext]_prVars PROVE PostInv'
  OBVIOUS
<1>1. CASE UNCHANGED prVars
  <2>1. /\ UNCHANGED settings /\ UNCHANGED setCall /\ UNCHANGED push /\ UNCHANGED images
        /\ UNCHANGED hooked /\ UNCHANGED inbox
    BY <1>1 DEF prVars
  <2> QED
    BY <2>1, Zenon DEF PostInv, SettingsGood
<1>2. ASSUME NEW p \in PushCall, PushStep(p) PROVE PostInv'
  BY <1>2, LoadKeeps, ReceiveKeeps, SnapshotRefKeeps, EnsureKeeps, HookKeeps, EventKeeps, DeliverKeeps, Zenon DEF PushStep
<1> QED
  BY <1>1, <1>2, SetKeeps, Zenon DEF PostReceiveNext

LEMMA PostInvInit == PostReceiveInit => PostInv
<1> SUFFICES ASSUME PostReceiveInit PROVE PostInv
  OBVIOUS
<1>1. SettingsGood
  <2>1. NoSettings.secret = 0 /\ settings = NoSettings /\ DOMAIN setCall = SetCall
    BY Zenon DEF NoSettings, PostReceiveInit
  <2>2. \A c \in SetCall : DOMAIN setCall[c] = {"at", "next"} /\ setCall[c].at # "write"
    BY DEF PostReceiveInit
  <2> QED
    BY <2>1, <2>2, Zenon DEF SettingsGood
<1>2. ASSUME NEW p \in PushCall PROVE PushGood(p, push[p], images, hooked)
  <2> DEFINE s == push[p]
  <2>1. /\ DOMAIN s = {"at", "dest", "i", "try", "took", "seen", "failed"} /\ s.at = "load" /\ s.i = 1
        /\ s.dest = NoSettings /\ s.took = {} /\ s.seen = {}
    BY DEF PostReceiveInit
  <2> HIDE DEF s
  <2>2. PushShape(s) /\ HooksRun(p, s, hooked) /\ Imaged(p, s, images) /\ s.at # "post"
    BY <2>1 DEF PushShape, PushStage, HooksRun, Imaged
  <2> QED
    BY <2>1, <2>2, Zenon DEF PushGood, s
<1> QED
  BY <1>1, <1>2, Zenon DEF PostInv, PostReceiveInit

(* For any pushes, settings and flags: there is an image of every branch and tag
   tip of a push that went on to its hooks, except of the trees that failed in it
   (runSnapshots and EnsureWithLFS). *)
THEOREM TipsHaveImages == PostReceiveSpec => []SnapshotsPresent
<1>1. PostInv => SnapshotsPresent
  <2> SUFFICES ASSUME PostInv, Snapshots, NEW p \in PushCall, push[p].at \in {"hooks", "webhooks", "post", "done"},
                      NEW i \in push[p].took, p.updates[i].kind # "other"
               PROVE  p.updates[i].tree \in images \union push[p].failed \union {NoImage}
    BY Zenon DEF SnapshotsPresent
  <2>1. Imaged(p, push[p], images) /\ p.updates[i] \in Refs(p, push[p].took)
    BY Zenon DEF PostInv, PushGood, Refs
  <2> QED
    BY <2>1, Zenon DEF Imaged
<1> QED
  BY <1>1, PostInvInit, PostInvStep, PTL DEF PostReceiveSpec

(* For any pushes and set commands: all deliveries of a push are of updates it
   took, after their hooks, and go to one destination under one secret
   (receivePack loads the settings once, emitPushWebhooks, Deliver). *)
THEOREM DeliveriesAgree == PostReceiveSpec => []DeliveriesOfOnePush
<1>1. PostInv => DeliveriesOfOnePush
  <2> SUFFICES ASSUME PostInv, NEW k \in inbox, NEW l \in inbox, k.by = l.by
               PROVE  /\ k.dest = l.dest /\ k.dest.secret # 0 /\ k.dest.url # ""
                      /\ \E p \in PushCall :
                           /\ p.name = k.by /\ k.at \in push[p].took
                           /\ push[p].at = "post" => k.at <= push[p].i
                           /\ AllowHooks /\ p.updates[k.at].kind = "branch" /\ p.updates[k.at].tree # NoImage
                                => <<p.name, k.at>> \in hooked
    BY Zenon DEF DeliveriesOfOnePush
  <2>1. PICK p \in PushCall : Delivered(k, p, push[p])
    BY Zenon DEF PostInv
  <2>2. PICK q \in PushCall : Delivered(l, q, push[q])
    BY Zenon DEF PostInv
  <2>3. p = q
    BY <2>1, <2>2, PostReceiveAssumption, Zenon DEF Delivered
  <2>4. PushGood(p, push[p], images, hooked)
    BY Zenon DEF PostInv
  <2>5. k.dest = l.dest /\ k.dest.secret # 0 /\ k.dest.url # ""
    BY <2>1, <2>2, <2>3, <2>4, Zenon DEF Delivered, PushGood
  <2>6. /\ p.name = k.by /\ k.at \in push[p].took /\ (push[p].at = "post" => k.at <= push[p].i)
        /\ (AllowHooks /\ Hooks(p, k.at) => <<p.name, k.at>> \in hooked)
    BY <2>1, <2>4, Zenon DEF Delivered, PushGood, HooksRun
  <2> QED
    BY <2>5, <2>6, Zenon DEF Hooks
<1> QED
  BY <1>1, PostInvInit, PostInvStep, PTL DEF PostReceiveSpec
-----------------------------------------------------------------------------
(* A goroutine beside the entry of its pack: who fills it has it in the state of
   the fill, and an entry that is held to be opened is settled. *)
FetchStage == {"none", "claim", "open", "wait", "slot", "fetch", "renamed", "failed", "verified"}
Filling == {"slot", "fetch", "renamed"}
FetchGood(a, e) ==
    /\ DOMAIN a = {"at", "held", "try"} /\ a.at \in FetchStage
    /\ a.at = "slot" => e.state = "new"
    /\ a.at = "fetch" => e.state = "stream"
    /\ a.at = "renamed" => e.state = "staged"
    /\ a.at = "open" /\ a.held => e.state = "ready"

(* An entry beside the file of its pack. *)
SlotGood(e, d) ==
    /\ DOMAIN e = {"state", "size", "landed"}
    /\ e.size # 0 => e.state = "ready"
    /\ d \in {Absent, "verified"} /\ (d # Absent <=> e.state \in {"staged", "ready"})

OneFills == \A f, g \in Fetch : f[2] = g[2] /\ access[f].at \in Filling /\ access[g].at \in Filling => f = g

(* The inductive invariant of PackFetch. *)
FetchInv ==
    /\ DOMAIN slot = Id /\ DOMAIN disk = Id /\ DOMAIN access = Fetch
    /\ \A i \in Id : SlotGood(slot[i], disk[i])
    /\ \A f \in Fetch : FetchGood(access[f], slot[f[2]])
    /\ OneFills
    /\ IsFiniteSet(Live) /\ Cardinality(Live) <= MaxLive

(* A step in which nobody starts to fill or to download. *)
LEMMA FetchMoves ==
    ASSUME FetchInv, DOMAIN slot' = Id, DOMAIN disk' = Id, DOMAIN access' = Fetch,
           \A i \in Id : SlotGood(slot'[i], disk'[i]),
           \A f \in Fetch : FetchGood(access'[f], slot'[f[2]]),
           \A f \in Fetch : access'[f].at \in Filling => access[f].at \in Filling,
           \A f \in Fetch : access'[f].at = "fetch" => access[f].at = "fetch"
    PROVE  FetchInv'
<1>1. OneFills'
  BY Zenon DEF FetchInv, OneFills
<1>2. Live' \in SUBSET Live
  BY Zenon DEF Live
<1>3. IsFiniteSet(Live) /\ Cardinality(Live) <= MaxLive /\ MaxLive \in Nat
  BY PackFetchAssumption, Zenon DEF FetchInv
<1>4. IsFiniteSet(Live') /\ Cardinality(Live') <= Cardinality(Live)
  BY <1>2, <1>3, FS_Subset, Zenon
<1>5. Cardinality(Live') \in Nat /\ Cardinality(Live) \in Nat
  BY <1>3, <1>4, FS_CardinalityType, Zenon
<1>6. Cardinality(Live') <= MaxLive
  <2> DEFINE m == Cardinality(Live')
             n == Cardinality(Live)
  <2>1. m \in Nat /\ n \in Nat /\ m <= n /\ n <= MaxLive /\ MaxLive \in Nat
    BY <1>3, <1>4, <1>5, Zenon
  <2> HIDE DEF m, n
  <2>2. m <= MaxLive
    BY <2>1
  <2> QED
    BY <2>2, Zenon DEF m
<1> QED
  BY <1>1, <1>4, <1>6, Zenon DEF FetchInv

(* The stage of one goroutine changes. *)
LEMMA AtMoves ==
    ASSUME FetchInv, NEW f \in Fetch, NEW at \in FetchStage, At(f, at)
    PROVE  /\ DOMAIN access' = Fetch /\ \A g \in Fetch : g # f => access'[g] = access[g]
           /\ DOMAIN access'[f] = {"at", "held", "try"} /\ access'[f].at = at /\ access'[f].held = access[f].held
<1> DEFINE r == [access[f] EXCEPT !.at = at]
<1>1. DOMAIN access = Fetch /\ DOMAIN access[f] = {"at", "held", "try"}
  BY Zenon DEF FetchInv, FetchGood
<1>2. access' = [access EXCEPT ![f] = r]
  BY <1>1, Zenon DEF At
<1>3. DOMAIN r = {"at", "held", "try"} /\ r.at = at /\ r.held = access[f].held
  BY <1>1, Zenon
<1> HIDE DEF r
<1> QED
  BY <1>1, <1>2, <1>3, Zenon

(* startPackFetch, and an open that fails: no entry changes. *)
LEMMA StartKeeps ==
    ASSUME FetchInv, NEW f \in Fetch, StartPackFetch(f) \/ OpenFails(f)
    PROVE  FetchInv'
<1>1. UNCHANGED slot /\ UNCHANGED disk
  BY Zenon DEF StartPackFetch, OpenFails
<1> PICK at \in {"claim", "failed"} : At(f, at)
  BY Zenon DEF StartPackFetch, OpenFails
<1>2. at \in FetchStage /\ at \notin Filling /\ at \notin {"slot", "fetch", "renamed", "open"}
  BY DEF FetchStage, Filling
<1>3. /\ DOMAIN access' = Fetch /\ \A g \in Fetch : g # f => access'[g] = access[g]
      /\ DOMAIN access'[f] = {"at", "held", "try"} /\ access'[f].at = at
  BY <1>1, <1>2, AtMoves, Zenon
<1>4. FetchGood(access'[f], slot'[f[2]])
  BY <1>2, <1>3, Zenon DEF FetchGood
<1>5. \A g \in Fetch : FetchGood(access'[g], slot'[g[2]])
  BY <1>1, <1>3, <1>4, Zenon DEF FetchInv
<1>6. DOMAIN slot' = Id /\ DOMAIN disk' = Id /\ \A i \in Id : SlotGood(slot'[i], disk'[i])
  BY <1>1, Zenon DEF FetchInv
<1>7. \A g \in Fetch : (access'[g].at \in Filling => access[g].at \in Filling) /\ (access'[g].at = "fetch" => access[g].at = "fetch")
  BY <1>2, <1>3, Zenon
<1> QED
  BY <1>3, <1>5, <1>6, <1>7, FetchMoves, Zenon

(* claim: an entry that is not there has nobody who fills it. *)
LEMMA ClaimKeeps == ASSUME FetchInv, NEW f \in Fetch, Claim(f) PROVE FetchInv'
<1> DEFINE i == f[2]
           at == IF slot[i].state = "ready" THEN "open" ELSE IF Registered(i) THEN "wait" ELSE "slot"
           r == [try |-> access[f].try + 1, held |-> TRUE, at |-> at]
           new == [NoEntry EXCEPT !.state = "new"]
<1>1. /\ DOMAIN access = Fetch /\ DOMAIN slot = Id /\ i \in Id /\ access[f].at = "claim"
      /\ UNCHANGED disk /\ SlotGood(slot[i], disk[i])
  BY PackFetchAssumption, Zenon DEF FetchInv, Claim
<1>2. NoEntry.state = "none" /\ DOMAIN new = {"state", "size", "landed"} /\ new.state = "new" /\ new.size = 0
  BY DEF NoEntry
<1>3. access' = [access EXCEPT ![f] = r] /\ slot' = IF Registered(i) THEN slot ELSE [slot EXCEPT ![i] = new]
  BY Zenon DEF Claim
<1>4. DOMAIN r = {"at", "held", "try"} /\ r.at = at
  OBVIOUS
<1>5. /\ at \in {"open", "wait", "slot"} /\ at \in FetchStage /\ (at = "open" => slot[i].state = "ready")
      /\ (at \in Filling => at = "slot") /\ (at = "slot" => slot[i] = NoEntry) /\ at # "fetch"
  BY DEF FetchStage, Filling, Registered
<1> HIDE DEF at, r, new
<1>6. DOMAIN access' = Fetch /\ access'[f] = r /\ \A g \in Fetch : g # f => access'[g] = access[g]
  BY <1>1, <1>3, Zenon
<1>7. CASE Registered(i)
  <2>1. slot' = slot /\ at # "slot"
    BY <1>3, <1>5, <1>7, Zenon DEF Registered
  <2>2. FetchGood(r, slot[i])
    BY <1>4, <1>5, <2>1 DEF FetchGood
  <2>3. \A g \in Fetch : FetchGood(access'[g], slot'[g[2]])
    BY <1>6, <2>1, <2>2, Zenon DEF FetchInv
  <2>4. \A g \in Fetch : (access'[g].at \in Filling => access[g].at \in Filling) /\ (access'[g].at = "fetch" => access[g].at = "fetch")
    BY <1>4, <1>5, <1>6, <2>1, Zenon
  <2>5. DOMAIN slot' = Id /\ DOMAIN disk' = Id /\ \A j \in Id : SlotGood(slot'[j], disk'[j])
    BY <1>1, <2>1, Zenon DEF FetchInv
  <2> QED
    BY <1>6, <2>3, <2>4, <2>5, FetchMoves, Zenon
<1>8. CASE ~Registered(i)
  <2>1. /\ slot' = [slot EXCEPT ![i] = new] /\ slot[i] = NoEntry /\ slot[i].state = "none"
        /\ DOMAIN slot' = Id /\ slot'[i] = new /\ \A j \in Id : j # i => slot'[j] = slot[j]
    BY <1>1, <1>2, <1>3, <1>8, Zenon DEF Registered
  <2>2. at = "slot"
    BY <1>8, <2>1 DEF at
  <2>3. ASSUME NEW g \in Fetch, g[2] = i
        PROVE  access[g].at \notin Filling /\ ~(access[g].at = "open" /\ access[g].held)
    <3>1. FetchGood(access[g], slot[i])
      BY <2>3, Zenon DEF FetchInv
    <3> QED
      BY <2>1, <3>1 DEF FetchGood, Filling
  <2>4. FetchGood(r, new)
    BY <1>2, <1>4, <1>5, <2>2 DEF FetchGood
  <2>5. ASSUME NEW g \in Fetch, g # f, g[2] = i PROVE FetchGood(access[g], new)
    BY <2>3, <2>5 DEF FetchInv, FetchGood, Filling
  <2>6. \A g \in Fetch : FetchGood(access'[g], slot'[g[2]])
    BY <1>6, <2>1, <2>4, <2>5, PackFetchAssumption, Zenon DEF FetchInv
  <2>7. SlotGood(new, disk[i])
    BY <1>1, <1>2, <2>1 DEF SlotGood
  <2>8. DOMAIN disk' = Id /\ \A j \in Id : SlotGood(slot'[j], disk'[j])
    BY <1>1, <2>1, <2>7, Zenon DEF FetchInv
  <2>9. OneFills'
    BY <1>4, <1>6, <2>3, Zenon DEF FetchInv, OneFills
  <2>10. Live' = Live
    <3>1. \A g \in Fetch : access'[g].at = "fetch" <=> access[g].at = "fetch"
      BY <1>1, <1>4, <1>5, <1>6
    <3> QED
      BY <3>1, Zenon DEF Live
  <2> QED
    BY <1>6, <2>1, <2>6, <2>8, <2>9, <2>10, Zenon DEF FetchInv
<1> QED
  BY <1>7, <1>8, Zenon

(* The owner of an entry changes it: nobody else fills it or holds it. *)
LEMMA OwnerAlone ==
    ASSUME FetchInv, NEW f \in Fetch, access[f].at \in Filling, NEW g \in Fetch, g # f, g[2] = f[2], NEW e
    PROVE  FetchGood(access[g], e)
<1>1. access[g].at \notin Filling
  BY Zenon DEF FetchInv, OneFills
<1>2. FetchGood(access[f], slot[f[2]]) /\ FetchGood(access[g], slot[f[2]])
  BY Zenon DEF FetchInv
<1> QED
  BY <1>1, <1>2 DEF FetchGood, Filling

(* The fill of an entry goes on. *)
LEMMA FillMoves ==
    ASSUME FetchInv, NEW f \in Fetch, access[f].at \in Filling,
           DOMAIN access' = Fetch, \A g \in Fetch : g # f => access'[g] = access[g],
           NEW e, slot' = [slot EXCEPT ![f[2]] = e],
           DOMAIN disk' = Id, \A j \in Id : j # f[2] => disk'[j] = disk[j],
           SlotGood(e, disk'[f[2]]), FetchGood(access'[f], e)
    PROVE  /\ DOMAIN slot' = Id /\ \A i \in Id : SlotGood(slot'[i], disk'[i])
           /\ \A g \in Fetch : FetchGood(access'[g], slot'[g[2]])
           /\ \A g \in Fetch : access'[g].at \in Filling => access[g].at \in Filling
<1>1. f[2] \in Id /\ DOMAIN slot = Id
  BY PackFetchAssumption, Zenon DEF FetchInv
<1>2. DOMAIN slot' = Id /\ slot'[f[2]] = e /\ \A j \in Id : j # f[2] => slot'[j] = slot[j]
  BY <1>1, Zenon
<1>3. \A i \in Id : SlotGood(slot'[i], disk'[i])
  BY <1>2, Zenon DEF FetchInv
<1>4. ASSUME NEW g \in Fetch PROVE FetchGood(access'[g], slot'[g[2]])
  <2>1. CASE g = f
    BY <1>2, <2>1, Zenon
  <2>2. CASE g # f /\ g[2] = f[2]
    BY <1>2, <2>2, OwnerAlone, Zenon
  <2>3. CASE g[2] # f[2]
    BY <1>2, <2>3, PackFetchAssumption, Zenon DEF FetchInv
  <2> QED
    BY <2>1, <2>2, <2>3, Zenon
<1> QED
  BY <1>2, <1>3, <1>4, Zenon

(* streamPack: the new download is the only one of its pack, and there was a slot. *)
LEMMA TakeSlotKeeps == ASSUME FetchInv, NEW f \in Fetch, TakeSlot(f) PROVE FetchInv'
<1> DEFINE e == [slot[f[2]] EXCEPT !.state = "stream"]
<1>1. /\ f[2] \in Id /\ access[f].at = "slot" /\ At(f, "fetch") /\ UNCHANGED disk
      /\ DOMAIN slot = Id /\ DOMAIN disk = Id /\ SlotGood(slot[f[2]], disk[f[2]]) /\ FetchGood(access[f], slot[f[2]])
  BY PackFetchAssumption, Zenon DEF FetchInv, TakeSlot
<1>2. "slot" \in Filling /\ "fetch" \in Filling /\ "fetch" \in FetchStage
  BY DEF Filling, FetchStage
<1>3. slot' = [slot EXCEPT ![f[2]] = e]
  BY <1>1, Zenon DEF TakeSlot
<1>4. DOMAIN e = {"state", "size", "landed"} /\ e.state = "stream" /\ e.size = slot[f[2]].size
  BY <1>1, Zenon DEF SlotGood
<1> HIDE DEF e
<1>5. SlotGood(e, disk[f[2]])
  BY <1>1, <1>4 DEF SlotGood, FetchGood
<1>6. /\ DOMAIN access' = Fetch /\ \A g \in Fetch : g # f => access'[g] = access[g]
      /\ DOMAIN access'[f] = {"at", "held", "try"} /\ access'[f].at = "fetch"
  BY <1>1, <1>2, AtMoves, Zenon
<1>7. FetchGood(access'[f], e)
  BY <1>2, <1>4, <1>6 DEF FetchGood
<1>8. /\ DOMAIN slot' = Id /\ \A i \in Id : SlotGood(slot'[i], disk'[i])
      /\ \A g \in Fetch : FetchGood(access'[g], slot'[g[2]])
      /\ \A g \in Fetch : access'[g].at \in Filling => access[g].at \in Filling
  BY <1>1, <1>2, <1>3, <1>5, <1>6, <1>7, FillMoves, Zenon
<1>9. OneFills'
  BY <1>8, Zenon DEF FetchInv, OneFills
<1>10. IsFiniteSet(Live') /\ Cardinality(Live') <= MaxLive
  <2>1. IsFiniteSet(Live) /\ Cardinality(Live) \in Nat /\ Cardinality(Live) < MaxLive /\ MaxLive \in Nat
    BY FS_CardinalityType, PackFetchAssumption, Zenon DEF FetchInv, TakeSlot
  <2>2. f \notin Live
    BY <1>1 DEF Live
  <2>3. Live' = Live \cup {f}
    BY <1>6, Zenon DEF Live
  <2> DEFINE L == Live
  <2>4. IsFiniteSet(L) /\ Cardinality(L) \in Nat /\ Cardinality(L) < MaxLive /\ f \notin L
    BY <2>1, <2>2, Zenon
  <2> HIDE DEF L
  <2>5. IsFiniteSet(L \cup {f}) /\ Cardinality(L \cup {f}) = Cardinality(L) + 1
    BY <2>4, FS_AddElement
  <2>6. Cardinality(L \cup {f}) <= MaxLive
    BY <2>1, <2>4, <2>5
  <2> QED
    BY <2>3, <2>5, <2>6, Zenon DEF L
<1> QED
  BY <1>1, <1>6, <1>8, <1>9, <1>10, Zenon DEF FetchInv

LEMMA LandKeeps == ASSUME FetchInv, NEW f \in Fetch, Land(f) PROVE FetchInv'
<1> DEFINE e == [slot[f[2]] EXCEPT !.landed = @ + 1]
<1>1. /\ f[2] \in Id /\ access[f].at = "fetch" /\ UNCHANGED disk /\ UNCHANGED access /\ DOMAIN access = Fetch
      /\ DOMAIN slot = Id /\ DOMAIN disk = Id /\ SlotGood(slot[f[2]], disk[f[2]]) /\ FetchGood(access[f], slot[f[2]])
  BY PackFetchAssumption, Zenon DEF FetchInv, Land
<1>2. "fetch" \in Filling
  BY DEF Filling
<1>3. slot' = [slot EXCEPT ![f[2]] = e]
  BY <1>1, Zenon DEF Land
<1>4. DOMAIN e = {"state", "size", "landed"} /\ e.state = slot[f[2]].state /\ e.size = slot[f[2]].size
  BY <1>1, Zenon DEF SlotGood
<1> HIDE DEF e
<1>5. SlotGood(e, disk[f[2]]) /\ FetchGood(access[f], e)
  BY <1>1, <1>4, Zenon DEF SlotGood, FetchGood
<1>6. /\ DOMAIN slot' = Id /\ \A i \in Id : SlotGood(slot'[i], disk'[i])
      /\ \A g \in Fetch : FetchGood(access'[g], slot'[g[2]])
      /\ \A g \in Fetch : access'[g].at \in Filling => access[g].at \in Filling
  BY <1>1, <1>2, <1>3, <1>5, FillMoves, Zenon
<1> QED
  BY <1>1, <1>6, FetchMoves, Zenon

(* verifiedCopy: only a body with the digest of its name gets its final name. *)
LEMMA CopiedKeeps == ASSUME FetchInv, NEW f \in Fetch, NEW digest, Copied(f, digest) PROVE FetchInv'
<1> DEFINE e == [slot[f[2]] EXCEPT !.state = "staged"]
<1>1. /\ f[2] \in Id /\ access[f].at = "fetch" /\ At(f, "renamed") /\ digest = "verified"
      /\ disk' = [disk EXCEPT ![f[2]] = digest]
      /\ DOMAIN slot = Id /\ DOMAIN disk = Id /\ SlotGood(slot[f[2]], disk[f[2]]) /\ FetchGood(access[f], slot[f[2]])
  BY PackFetchAssumption, Zenon DEF FetchInv, Copied
<1>2. "fetch" \in Filling /\ "renamed" \in FetchStage /\ "renamed" # "fetch"
  BY DEF Filling, FetchStage
<1>3. slot' = [slot EXCEPT ![f[2]] = e]
  BY <1>1, Zenon DEF Copied
<1>4. DOMAIN e = {"state", "size", "landed"} /\ e.state = "staged" /\ e.size = slot[f[2]].size
  BY <1>1, Zenon DEF SlotGood
<1> HIDE DEF e
<1>5. DOMAIN disk' = Id /\ disk'[f[2]] = "verified" /\ \A j \in Id : j # f[2] => disk'[j] = disk[j]
  BY <1>1, Zenon
<1>6. SlotGood(e, disk'[f[2]])
  BY <1>1, <1>4, <1>5 DEF SlotGood, FetchGood, Absent
<1>7. /\ DOMAIN access' = Fetch /\ \A g \in Fetch : g # f => access'[g] = access[g]
      /\ DOMAIN access'[f] = {"at", "held", "try"} /\ access'[f].at = "renamed"
  BY <1>1, <1>2, AtMoves, Zenon
<1>8. FetchGood(access'[f], e)
  BY <1>2, <1>4, <1>7 DEF FetchGood
<1>9. /\ DOMAIN slot' = Id /\ \A i \in Id : SlotGood(slot'[i], disk'[i])
      /\ \A g \in Fetch : FetchGood(access'[g], slot'[g[2]])
      /\ \A g \in Fetch : access'[g].at \in Filling => access[g].at \in Filling
  <2>1. access[f].at \in Filling
    BY <1>1, <1>2, Zenon
  <2> QED
    BY <1>3, <1>5, <1>6, <1>7, <1>8, <2>1, FillMoves, Zenon
<1>10. \A g \in Fetch : access'[g].at = "fetch" => access[g].at = "fetch"
  BY <1>2, <1>7, Zenon
<1> QED
  BY <1>5, <1>7, <1>9, <1>10, FetchMoves, Zenon

(* Entries leave the map: who would open one no longer holds it, and nobody else
   can be concerned. *)
LEMMA StaleFields ==
    ASSUME FetchInv, NEW ids, NEW g \in Fetch
    PROVE  LET a == Stale(access, ids)[g] IN
           /\ DOMAIN a = {"at", "held", "try"} /\ a.at = access[g].at
           /\ (g[2] \in ids => a.held = FALSE) /\ (g[2] \notin ids => a = access[g])
<1>1. DOMAIN access[g] = {"at", "held", "try"}
  BY Zenon DEF FetchInv, FetchGood
<1>2. Stale(access, ids)[g] = IF g[2] \in ids THEN [access[g] EXCEPT !.held = FALSE] ELSE access[g]
  BY Zenon DEF Stale
<1>3. CASE g[2] \in ids
  <2> DEFINE a == [access[g] EXCEPT !.held = FALSE]
  <2>1. DOMAIN a = {"at", "held", "try"} /\ a.at = access[g].at /\ a.held = FALSE
    BY <1>1, Zenon
  <2>2. Stale(access, ids)[g] = a
    BY <1>2, <1>3, Zenon
  <2> HIDE DEF a
  <2> QED
    BY <1>3, <2>1, <2>2, Zenon
<1>4. CASE g[2] \notin ids
  BY <1>1, <1>2, <1>4, Zenon
<1> QED
  BY <1>3, <1>4, Zenon

(* The settled entries are nobody's to fill. *)
LEMMA SettledHasNoOwner ==
    ASSUME FetchInv, NEW g \in Fetch, slot[g[2]].state = "ready"
    PROVE  access[g].at \notin Filling
BY DEF FetchInv, FetchGood, Filling

(* Whoever fills nothing and holds nothing is concerned by no entry. *)
LEMMA GoneGood ==
    ASSUME FetchInv, NEW g \in Fetch, access[g].at \notin Filling, NEW e,
           NEW a, DOMAIN a = {"at", "held", "try"}, a.at = access[g].at, a.held = FALSE
    PROVE  FetchGood(a, e)
<1>1. access[g].at \in FetchStage
  BY Zenon DEF FetchInv, FetchGood
<1>2. a.at \in FetchStage /\ a.at # "slot" /\ a.at # "fetch" /\ a.at # "renamed"
  BY <1>1 DEF Filling
<1> QED
  BY <1>2, Zenon DEF FetchGood

LEMMA NoEntryGood ==
    /\ SlotGood(NoEntry, Absent) /\ NoEntry.state = "none" /\ NoEntry.size = 0
    /\ DOMAIN NoEntry = {"state", "size", "landed"}
BY DEF SlotGood, NoEntry

LEMMA EvictIdleKeeps == ASSUME FetchInv, NEW ids, EvictIdle(ids) PROVE FetchInv'
<1>1. /\ \A i \in ids : i \in Id /\ slot[i].state = "ready"
      /\ slot' = Without(slot, ids) /\ access' = Stale(access, ids)
      /\ disk' = [i \in Id |-> IF i \in ids THEN Absent ELSE disk[i]]
  BY Zenon DEF FetchInv, EvictIdle, Evictable, SlotGood
<1>2. DOMAIN slot' = Id /\ \A i \in Id : slot'[i] = IF i \in ids THEN NoEntry ELSE slot[i]
  BY <1>1, Zenon DEF Without
<1>3. DOMAIN disk' = Id /\ DOMAIN access' = Fetch
  BY <1>1, Zenon DEF Stale
<1>4. \A i \in Id : SlotGood(slot'[i], disk'[i])
  BY <1>1, <1>2, NoEntryGood, Zenon DEF FetchInv
<1>5. ASSUME NEW g \in Fetch PROVE FetchGood(access'[g], slot'[g[2]]) /\ access'[g].at = access[g].at
  <2>1. CASE g[2] \in ids
    <3>1. access[g].at \notin Filling
      BY <1>1, <2>1, SettledHasNoOwner, Zenon
    <3>2. DOMAIN access'[g] = {"at", "held", "try"} /\ access'[g].at = access[g].at /\ access'[g].held = FALSE
      BY <1>1, <2>1, StaleFields, Zenon
    <3> QED
      BY <3>1, <3>2, GoneGood, Zenon
  <2>2. CASE g[2] \notin ids
    <3>1. access'[g] = access[g] /\ slot'[g[2]] = slot[g[2]]
      BY <1>1, <1>2, <2>2, StaleFields, PackFetchAssumption, Zenon
    <3> QED
      BY <3>1, Zenon DEF FetchInv
  <2> QED
    BY <2>1, <2>2, Zenon
<1> QED
  BY <1>2, <1>3, <1>4, <1>5, FetchMoves, Zenon

(* The outcome at of f's fill, as g sees it in b, when the entries of ids go. *)
Sees(b, f, g, ids, at) ==
    /\ DOMAIN b = {"at", "held", "try"} /\ (g[2] \in ids => b.held = FALSE)
    /\ (g = f \/ (g[2] = f[2] /\ access[g].at = "wait")) => b.at = at
    /\ ~(g = f \/ (g[2] = f[2] /\ access[g].at = "wait")) => b.at = access[g].at /\ (g[2] \notin ids => b = access[g])
LEMMA ReleasedFields ==
    ASSUME FetchInv, NEW ids, NEW f \in Fetch, NEW at, NEW g \in Fetch,
           NEW acc, acc = Released(Stale(access, ids), f, at)
    PROVE  Sees(acc[g], f, g, ids, at)
<1> DEFINE a == Stale(access, ids)[g]
           b == acc[g]
           c == [a EXCEPT !.at = at]
<1>1. /\ DOMAIN a = {"at", "held", "try"} /\ a.at = access[g].at
      /\ (g[2] \in ids => a.held = FALSE) /\ (g[2] \notin ids => a = access[g])
  BY StaleFields, Zenon
<1>2. b = IF g = f \/ (g[2] = f[2] /\ a.at = "wait") THEN c ELSE a
  BY Zenon DEF Released
<1> HIDE DEF a, b
<1>3. DOMAIN c = {"at", "held", "try"} /\ c.held = a.held /\ c.at = at
  BY <1>1, Zenon
<1> HIDE DEF c
<1>4. DOMAIN b = {"at", "held", "try"} /\ b.held = a.held
  BY <1>1, <1>2, <1>3, Zenon
<1>5. /\ (g = f \/ (g[2] = f[2] /\ access[g].at = "wait")) => b.at = at
      /\ ~(g = f \/ (g[2] = f[2] /\ access[g].at = "wait")) => b = a
  BY <1>1, <1>2, <1>3, Zenon
<1>6. Sees(b, f, g, ids, at)
  BY <1>1, <1>4, <1>5, Zenon DEF Sees
<1> QED
  BY <1>6, Zenon DEF b

(* fill fails: the entry is forgotten, with everyone who waits. *)
LEMMA FillFailsKeeps == ASSUME FetchInv, NEW f \in Fetch, FillFails(f) PROVE FetchInv'
<1> DEFINE ids == {f[2]}
<1>1. /\ access' = Released(Stale(access, ids), f, "failed") /\ slot' = Without(slot, ids) /\ UNCHANGED disk
      /\ access[f].at \in {"slot", "fetch"} /\ f[2] \in Id /\ FetchGood(access[f], slot[f[2]]) /\ SlotGood(slot[f[2]], disk[f[2]])
  BY PackFetchAssumption, Zenon DEF FetchInv, FillFails
<1>2. DOMAIN access' = Fetch /\ DOMAIN slot' = Id /\ \A i \in Id : slot'[i] = IF i = f[2] THEN NoEntry ELSE slot[i]
  BY <1>1, Zenon DEF Released, Without
<1>3. disk[f[2]] = Absent /\ access[f].at \in Filling
  BY <1>1 DEF FetchGood, SlotGood, Filling
<1>4. DOMAIN disk' = Id /\ \A i \in Id : SlotGood(slot'[i], disk'[i])
  BY <1>1, <1>2, <1>3, NoEntryGood, Zenon DEF FetchInv
<1>5. "failed" \in FetchStage /\ "failed" \notin {"slot", "fetch", "renamed", "open"} /\ "failed" \notin Filling
  BY DEF FetchStage, Filling
<1>6. ASSUME NEW g \in Fetch
      PROVE  FetchGood(access'[g], slot'[g[2]]) /\ (access'[g].at = "failed" \/ access'[g].at = access[g].at)
  <2> DEFINE b == access'[g]
  <2>1. f[2] \in ids /\ (g[2] # f[2] => g[2] \notin ids)
    BY Zenon
  <2> HIDE DEF ids
  <2>2. Sees(b, f, g, ids, "failed")
    BY <1>1, ReleasedFields, Zenon
  <2> HIDE DEF b
  <2>3. /\ DOMAIN b = {"at", "held", "try"} /\ (g[2] \in ids => b.held = FALSE)
        /\ (g = f \/ (g[2] = f[2] /\ access[g].at = "wait")) => b.at = "failed"
        /\ ~(g = f \/ (g[2] = f[2] /\ access[g].at = "wait")) => b.at = access[g].at /\ (g[2] \notin ids => b = access[g])
    BY <2>2, Zenon DEF Sees
  <2>4. CASE b.at = "failed"
    <3>1. FetchGood(b, slot'[g[2]])
      BY <1>5, <2>3, <2>4, Zenon DEF FetchGood
    <3> QED
      BY <2>4, <3>1, Zenon DEF b
  <2>5. CASE b.at # "failed" /\ g[2] = f[2]
    <3>1. g # f /\ b.at = access[g].at /\ b.held = FALSE
      BY <2>1, <2>3, <2>5, Zenon
    <3>2. access[g].at \notin Filling
      BY <1>3, <2>5, <3>1, Zenon DEF FetchInv, OneFills
    <3>3. FetchGood(b, slot'[g[2]])
      BY <2>3, <3>1, <3>2, GoneGood, Zenon
    <3> QED
      BY <3>1, <3>3, Zenon DEF b
  <2>6. CASE b.at # "failed" /\ g[2] # f[2]
    <3>1. b = access[g] /\ slot'[g[2]] = slot[g[2]]
      BY <1>2, <2>1, <2>3, <2>6, PackFetchAssumption, Zenon
    <3> QED
      BY <3>1, Zenon DEF FetchInv, b
  <2> QED
    BY <2>4, <2>5, <2>6, Zenon
<1>7. \A g \in Fetch : (access'[g].at \in Filling => access[g].at \in Filling) /\ (access'[g].at = "fetch" => access[g].at = "fetch")
  BY <1>5, <1>6, Zenon
<1> QED
  BY <1>2, <1>4, <1>6, <1>7, FetchMoves, Zenon

(* Eviction takes settled entries, and not the one that is being admitted. *)
LEMMA VictimsSettled ==
    ASSUME FetchInv, NEW over, NEW i \in Victims(over)
    PROVE  i \in Id /\ slot[i].state = "ready"
BY Zenon DEF FetchInv, Victims, Evictable, SlotGood

(* fill's end: the entry is ready for everyone who waits, those evicted are gone. *)
LEMMA AdmitKeeps == ASSUME FetchInv, NEW f \in Fetch, Admit(f) PROVE FetchInv'
<1> DEFINE i == f[2]
           gone == Victims(cur + Length[f[2]] - MaxBytes)
           w == Without(slot, gone)
           r == [[w[i] EXCEPT !.state = "ready"] EXCEPT !.size = Length[i]]
<1>1. /\ slot' = [w EXCEPT ![i].state = "ready", ![i].size = Length[i]]
      /\ disk' = [j \in Id |-> IF j \in gone THEN Absent ELSE disk[j]]
      /\ access' = Released(Stale(access, gone), f, "open")
      /\ access[f].at = "renamed" /\ i \in Id /\ FetchGood(access[f], slot[i]) /\ SlotGood(slot[i], disk[i])
  BY PackFetchAssumption, Zenon DEF FetchInv, Admit
<1>2. DOMAIN w = Id /\ \A j \in Id : w[j] = IF j \in gone THEN NoEntry ELSE slot[j]
  BY Zenon DEF Without
<1>3. \A j \in gone : j \in Id /\ slot[j].state = "ready"
  BY VictimsSettled, Zenon
<1> HIDE DEF gone, w
<1>4. slot[i].state = "staged" /\ disk[i] = "verified" /\ access[f].at \in Filling
  BY <1>1 DEF FetchGood, SlotGood, Filling
<1>5. "staged" # "ready" /\ "verified" # Absent /\ "ready" \in {"staged", "ready"} /\ "verified" \in {Absent, "verified"}
      /\ "open" \in FetchStage /\ "open" \notin {"slot", "fetch", "renamed"} /\ "open" \notin Filling
  BY DEF Absent, FetchStage, Filling
<1>6. i \notin gone /\ w[i] = slot[i]
  BY <1>1, <1>2, <1>3, <1>4, <1>5, Zenon
<1>7. slot' = [w EXCEPT ![i] = r]
  BY <1>1, <1>2, Zenon
<1>8. DOMAIN r = {"state", "size", "landed"} /\ r.state = "ready"
  BY <1>1, <1>6, Zenon DEF SlotGood
<1> HIDE DEF r
<1>9. DOMAIN slot' = Id /\ slot'[i] = r /\ \A j \in Id : j # i => slot'[j] = IF j \in gone THEN NoEntry ELSE slot[j]
  BY <1>1, <1>2, <1>7, Zenon
<1>10. DOMAIN disk' = Id /\ disk'[i] = "verified" /\ \A j \in Id : disk'[j] = IF j \in gone THEN Absent ELSE disk[j]
  BY <1>1, <1>4, <1>6, Zenon
<1>11. SlotGood(r, "verified")
  BY <1>5, <1>8, Zenon DEF SlotGood
<1>12. \A j \in Id : SlotGood(slot'[j], disk'[j])
  BY <1>9, <1>10, <1>11, NoEntryGood, Zenon DEF FetchInv
<1>13. DOMAIN access' = Fetch
  BY <1>1, Zenon DEF Released
<1>14. ASSUME NEW g \in Fetch
       PROVE  FetchGood(access'[g], slot'[g[2]]) /\ (access'[g].at = "open" \/ access'[g].at = access[g].at)
  <2> DEFINE b == access'[g]
  <2>1. Sees(b, f, g, gone, "open")
    BY <1>1, ReleasedFields, Zenon
  <2> HIDE DEF b, i
  <2>2. /\ DOMAIN b = {"at", "held", "try"} /\ (g[2] \in gone => b.held = FALSE)
        /\ (g = f \/ (g[2] = f[2] /\ access[g].at = "wait")) => b.at = "open"
        /\ ~(g = f \/ (g[2] = f[2] /\ access[g].at = "wait")) => b.at = access[g].at /\ (g[2] \notin gone => b = access[g])
    BY <2>1, Zenon DEF Sees
  <2>3. CASE g[2] = i
    <3>1. b.at = "open" \/ (g # f /\ b = access[g])
      BY <1>6, <2>2, <2>3, Zenon DEF i
    <3>2. b.at \in FetchStage /\ b.at \notin Filling /\ (b.at = "open" \/ b.at = access[g].at)
      BY <1>4, <1>5, <2>3, <3>1, Zenon DEF FetchInv, OneFills, FetchGood, i
    <3>3. b.at # "slot" /\ b.at # "fetch" /\ b.at # "renamed"
      BY <3>2 DEF Filling
    <3>4. slot'[g[2]].state = "ready"
      BY <1>8, <1>9, <2>3, Zenon
    <3>5. FetchGood(b, slot'[g[2]])
      BY <2>2, <3>2, <3>3, <3>4, Zenon DEF FetchGood
    <3> QED
      BY <3>2, <3>5, Zenon DEF b
  <2>4. CASE g[2] # i /\ g[2] \in gone
    <3>1. b.at = access[g].at /\ b.held = FALSE
      BY <2>2, <2>4, Zenon DEF i
    <3>2. access[g].at \notin Filling
      BY <1>3, <2>4, SettledHasNoOwner, Zenon
    <3>3. FetchGood(b, slot'[g[2]])
      BY <2>2, <3>1, <3>2, GoneGood, Zenon
    <3> QED
      BY <3>1, <3>3, Zenon DEF b
  <2>5. CASE g[2] # i /\ g[2] \notin gone
    <3>1. b = access[g] /\ slot'[g[2]] = slot[g[2]]
      BY <1>9, <2>2, <2>5, PackFetchAssumption, Zenon DEF i
    <3> QED
      BY <3>1, Zenon DEF FetchInv, b
  <2> QED
    BY <2>3, <2>4, <2>5, Zenon
<1>15. \A g \in Fetch : (access'[g].at \in Filling => access[g].at \in Filling) /\ (access'[g].at = "fetch" => access[g].at = "fetch")
  BY <1>5, <1>14, Zenon
<1> QED
  BY <1>9, <1>10, <1>12, <1>13, <1>14, <1>15, FetchMoves, Zenon

(* GetChecked: an entry that is still registered when it is opened has its file,
   so the entries do not change. *)
LEMMA OpenKeeps == ASSUME FetchInv, NEW f \in Fetch, Open(f) PROVE FetchInv'
<1> DEFINE i == f[2]
           drop == IF disk[i] = Absent /\ access[f].held THEN {i} ELSE {}
           at == IF disk[i] # Absent THEN disk[i] ELSE IF access[f].try < MaxTry THEN "claim" ELSE "failed"
           r == [access[f] EXCEPT !.at = at]
<1>1. /\ access' = [Stale(access, drop) EXCEPT ![f].at = at] /\ slot' = Without(slot, drop) /\ UNCHANGED disk
      /\ access[f].at = "open" /\ i \in Id /\ FetchGood(access[f], slot[i]) /\ SlotGood(slot[i], disk[i])
  BY PackFetchAssumption, Zenon DEF FetchInv, Open
<1>2. access[f].held => disk[i] # Absent
  BY <1>1 DEF FetchGood, SlotGood
<1>3. \A j : j \notin drop
  BY <1>2, Zenon
<1>4. at \in {"verified", "claim", "failed"}
  BY <1>1, Zenon DEF SlotGood
<1> HIDE DEF drop, at
<1>5. DOMAIN slot' = Id /\ \A j \in Id : slot'[j] = slot[j]
  BY <1>1, <1>3, Zenon DEF Without
<1>6. DOMAIN Stale(access, drop) = Fetch /\ \A g \in Fetch : Stale(access, drop)[g] = access[g]
  BY <1>3, Zenon DEF Stale
<1>7. access' = [Stale(access, drop) EXCEPT ![f] = r]
  BY <1>1, <1>6, Zenon
<1>8. DOMAIN r = {"at", "held", "try"} /\ r.at = at
  BY <1>1, Zenon DEF FetchGood
<1> HIDE DEF r
<1>9. DOMAIN access' = Fetch /\ access'[f] = r /\ \A g \in Fetch : g # f => access'[g] = access[g]
  BY <1>6, <1>7, Zenon
<1>10. at \in FetchStage /\ at \notin Filling /\ at \notin {"slot", "fetch", "renamed", "open"}
  BY <1>4 DEF FetchStage, Filling
<1>11. \A e : FetchGood(r, e)
  BY <1>8, <1>10, Zenon DEF FetchGood
<1>12. \A g \in Fetch : slot'[g[2]] = slot[g[2]]
  BY <1>5, PackFetchAssumption, Zenon
<1>13. \A g \in Fetch : FetchGood(access'[g], slot'[g[2]])
  BY <1>9, <1>11, <1>12, Zenon DEF FetchInv
<1>14. \A g \in Fetch : (access'[g].at \in Filling => access[g].at \in Filling) /\ (access'[g].at = "fetch" => access[g].at = "fetch")
  BY <1>8, <1>9, <1>10, Zenon
<1>15. DOMAIN disk' = Id /\ \A j \in Id : SlotGood(slot'[j], disk'[j])
  BY <1>1, <1>5, Zenon DEF FetchInv
<1> QED
  BY <1>5, <1>9, <1>13, <1>14, <1>15, FetchMoves, Zenon

LEMMA FetchInvInit == PackFetchInit => FetchInv
<1> SUFFICES ASSUME PackFetchInit PROVE FetchInv
  OBVIOUS
<1>1. DOMAIN slot = Id /\ DOMAIN disk = Id /\ DOMAIN access = Fetch
  BY Zenon DEF PackFetchInit
<1>2. \A i \in Id : SlotGood(slot[i], disk[i])
  BY NoEntryGood, Zenon DEF PackFetchInit
<1>3. NotStarted.at = "none" /\ DOMAIN NotStarted = {"at", "held", "try"}
  BY DEF NotStarted
<1>4. "none" \in FetchStage /\ "none" \notin Filling /\ "none" \notin {"slot", "fetch", "renamed", "open"}
  BY DEF FetchStage, Filling
<1>5. \A f \in Fetch : access[f] = NotStarted
  BY Zenon DEF PackFetchInit
<1>6. \A f \in Fetch : FetchGood(access[f], slot[f[2]])
  BY <1>3, <1>4, <1>5, Zenon DEF FetchGood
<1>7. OneFills
  BY <1>3, <1>4, <1>5, Zenon DEF OneFills
<1>8. Live = {}
  BY <1>3, <1>4, <1>5, Zenon DEF Live
<1>9. IsFiniteSet({}) /\ Cardinality({}) = 0
  BY FS_EmptySet, Zenon
<1>10. 0 <= MaxLive
  BY PackFetchAssumption
<1>11. IsFiniteSet(Live) /\ Cardinality(Live) <= MaxLive
  BY <1>8, <1>9, <1>10, Zenon
<1> QED
  BY <1>1, <1>2, <1>6, <1>7, <1>11, Zenon DEF FetchInv

LEMMA FetchInvStep == FetchInv /\ [PackFetchNext]_pfVars => FetchInv'
<1> SUFFICES ASSUME FetchInv, [PackFetchNext]_pfVars PROVE FetchInv'
  OBVIOUS
<1>1. CASE UNCHANGED pfVars
  BY <1>1, Zenon DEF pfVars, FetchInv, OneFills, Live
<1>2. ASSUME NEW f \in Fetch, StartPackFetch(f) PROVE FetchInv'
  BY <1>2, StartKeeps, Zenon
<1>3. ASSUME NEW f \in Fetch, OpenFails(f) PROVE FetchInv'
  BY <1>3, StartKeeps, Zenon
<1>4. ASSUME NEW f \in Fetch, FetchStep(f), ~OpenFails(f) PROVE FetchInv'
  BY <1>4, ClaimKeeps, TakeSlotKeeps, LandKeeps, CopiedKeeps, FillFailsKeeps, AdmitKeeps, OpenKeeps, Zenon DEF FetchStep
<1>5. ASSUME NEW ids \in SUBSET Id, EvictIdle(ids) PROVE FetchInv'
  BY <1>5, EvictIdleKeeps, Zenon
<1> QED
  BY <1>1, <1>2, <1>3, <1>4, <1>5, Zenon DEF PackFetchNext

(* Whatever the packs, the Storers that want them, the budget and the slots:
   every pack has one download at a time and there are no more in all than
   slots, a file under its final name is known to the cache, and what a read
   takes from a finished copy has the digest of its name (claim, fetchSem, fill,
   verifiedCopy, evictLocked, GetChecked of packcache.go). *)
THEOREM CopiesAreVerified == PackFetchSpec => []CopiesVerified
<1>1. FetchInv => CopiesVerified
  <2> SUFFICES ASSUME FetchInv PROVE CopiesVerified
    OBVIOUS
  <2>1. ASSUME NEW f \in Fetch, NEW g \in Fetch, f[2] = g[2],
               {access[f].at, access[g].at} \subseteq {"slot", "fetch", "renamed"}
        PROVE  f = g
    BY <2>1, Zenon DEF FetchInv, OneFills, Filling
  <2>2. \A i \in Id : (disk[i] # Absent) <=> slot[i].state \in {"staged", "ready"}
    BY Zenon DEF FetchInv, SlotGood
  <2>3. ASSUME NEW f \in Fetch, NEW end PROVE "corrupt" \notin PackPayload(f, end)
    <3>1. access[f].at \in FetchStage
      BY Zenon DEF FetchInv, FetchGood
    <3>2. "corrupt" \notin FetchStage /\ "corrupt" \notin {"landed"} /\ "corrupt" \notin {"ranged", "error"}
      BY DEF FetchStage
    <3> QED
      BY <3>1, <3>2, Zenon DEF PackPayload
  <2> QED
    BY <2>1, <2>2, <2>3, Zenon DEF CopiesVerified, FetchInv
<1> QED
  BY <1>1, FetchInvInit, FetchInvStep, PTL DEF PackFetchSpec

-----------------------------------------------------------------------------
(* The bytes of the cache. *)

SizeOf == [i \in Id |-> slot[i].size]

(* The list of recency names the registered entries, whose sizes are charged;
   over the budget there is one settled entry only. *)
CacheInv ==
    /\ recency \in Seq(Id) /\ Range(recency) = {i \in Id : Registered(i)}
    /\ \A i \in Id : slot[i].size \in Nat
    /\ cur = SumFunctionOnSet(SizeOf, Range(recency))
    /\ cur > MaxBytes => \E i \in Id : Evictable = {i}

(* What can be charged. *)
LEMMA CacheSizes ==
    ASSUME CacheInv
    PROVE  /\ IsFiniteSet(Range(recency)) /\ Range(recency) \subseteq Id
           /\ \A i \in Id : SizeOf[i] = slot[i].size /\ SizeOf[i] \in Int /\ SizeOf[i] \in Nat
           /\ \A i \in Id \ Range(recency) : SizeOf[i] = 0
           /\ Evictable \subseteq Range(recency)
           /\ cur \in Nat
<1>1. IsFiniteSet(Range(recency)) /\ Range(recency) \subseteq Id
  BY RangeFinite, Zenon DEF CacheInv
<1>2. \A i \in Id : SizeOf[i] = slot[i].size /\ SizeOf[i] \in Int /\ SizeOf[i] \in Nat
  BY DEF CacheInv, SizeOf
<1>3. \A i \in Id \ Range(recency) : slot[i] = NoEntry
  BY Zenon DEF CacheInv, Registered
<1>4. \A i \in Id \ Range(recency) : SizeOf[i] = 0
  BY <1>2, <1>3, NoEntryGood, Zenon
<1>5. Evictable \subseteq Range(recency)
  BY <1>2, <1>4, Zenon DEF Evictable
<1>6. \A i \in Range(recency) : SizeOf[i] \in Nat
  BY <1>1, <1>2, Zenon
<1>7. cur \in Nat
  BY <1>1, <1>6, SumNat, Zenon DEF CacheInv
<1> QED
  BY <1>1, <1>2, <1>4, <1>5, <1>7, Zenon

(* Steps that neither register nor forget, and charge nothing. *)
LEMMA SizesStay ==
    ASSUME CacheInv, recency' = recency, cur' = cur,
           \A i \in Id : slot'[i].size = slot[i].size /\ (slot'[i] # NoEntry <=> slot[i] # NoEntry)
    PROVE  CacheInv'
<1>1. SizeOf' = SizeOf /\ Evictable' = Evictable
  BY Zenon DEF SizeOf, Evictable
<1>2. {i \in Id : Registered(i)}' = {i \in Id : Registered(i)}
  BY Zenon DEF Registered
<1>3. \A i \in Id : slot'[i].size \in Nat
  BY Zenon DEF CacheInv
<1> QED
  BY <1>1, <1>2, <1>3, Zenon DEF CacheInv

(* The owner of an entry works on it. *)
LEMMA FillStays ==
    ASSUME FetchInv, CacheInv, NEW f \in Fetch, TakeSlot(f) \/ Land(f) \/ \E digest : Copied(f, digest)
    PROVE  CacheInv'
<1> DEFINE i == f[2]
<1>1. /\ i \in Id /\ DOMAIN slot = Id /\ DOMAIN slot[i] = {"state", "size", "landed"}
      /\ recency' = recency /\ cur' = cur
      /\ FetchGood(access[f], slot[i])
  BY PackFetchAssumption, Zenon DEF FetchInv, SlotGood, TakeSlot, Land, Copied
<1>2. slot[i].state \in {"new", "stream"}
  BY <1>1, Zenon DEF FetchGood, TakeSlot, Land, Copied
<1>3. PICK r : /\ slot' = [slot EXCEPT ![i] = r]
               /\ \/ \E state \in {"stream", "staged"} : r = [slot[i] EXCEPT !.state = state]
                  \/ r = [slot[i] EXCEPT !.landed = slot[i].landed + 1]
  BY <1>1, Zenon DEF TakeSlot, Land, Copied
<1>4. r.size = slot[i].size /\ r.state \in {"new", "stream", "staged"}
  BY <1>1, <1>2, <1>3, Zenon
<1>5. r # NoEntry /\ slot[i] # NoEntry
  BY <1>2, <1>4, NoEntryGood, Zenon
<1>6. slot'[i] = r /\ \A j \in Id : j # i => slot'[j] = slot[j]
  BY <1>1, <1>3, Zenon
<1>7. \A j \in Id : slot'[j].size = slot[j].size /\ (slot'[j] # NoEntry <=> slot[j] # NoEntry)
  BY <1>4, <1>5, <1>6, Zenon
<1> QED
  BY <1>1, <1>7, SizesStay, Zenon

(* What Append adds to a list. *)
LEMMA RangeAppend ==
    ASSUME NEW s \in Seq(Id), NEW i \in Id
    PROVE  Append(s, i) \in Seq(Id) /\ Range(Append(s, i)) = Range(s) \cup {i}
<1>1. /\ DOMAIN s = 1 .. Len(s) /\ DOMAIN Append(s, i) = 1 .. Len(s) + 1 /\ Len(s) \in Nat
      /\ \A n \in 1 .. Len(s) : Append(s, i)[n] = s[n]
      /\ Append(s, i)[Len(s) + 1] = i
      /\ 1 .. Len(s) + 1 = (1 .. Len(s)) \cup {Len(s) + 1}
      /\ Append(s, i) \in Seq(Id)
  OBVIOUS
<1>2. Range(Append(s, i)) \subseteq Range(s) \cup {i}
  BY <1>1 DEF Range
<1>3. Range(s) \subseteq Range(Append(s, i)) /\ i \in Range(Append(s, i))
  BY <1>1 DEF Range
<1> QED
  BY <1>1, <1>2, <1>3, Zenon

(* claim: the entry is listed last, a new one without a size. *)
LEMMA ClaimCharges == ASSUME FetchInv, CacheInv, NEW f \in Fetch, Claim(f) PROVE CacheInv'
<1> DEFINE i == f[2]
           new == [NoEntry EXCEPT !.state = "new"]
           rest == Unlisted({i})
<1>1. /\ i \in Id /\ DOMAIN slot = Id /\ cur' = cur /\ recency' = Append(rest, i)
      /\ slot' = IF Registered(i) THEN slot ELSE [slot EXCEPT ![i] = new]
  BY PackFetchAssumption, Zenon DEF FetchInv, Claim
<1>2. new.size = 0 /\ new # NoEntry
  <2>1. new.size = 0 /\ new.state = "new"
    BY NoEntryGood, Zenon
  <2> QED
    BY <2>1, NoEntryGood
<1> HIDE DEF new
<1>3. rest \in Seq(Id) /\ Range(rest) = Range(recency) \cap (Id \ {i})
  BY KeptElements, Zenon DEF CacheInv, Unlisted
<1>4. recency' \in Seq(Id) /\ Range(recency') = Range(recency) \cup {i}
  <2>1. Range(recency') = Range(rest) \cup {i} /\ recency' \in Seq(Id)
    BY <1>1, <1>3, RangeAppend, Zenon
  <2>2. Range(recency) \subseteq Id
    BY CacheSizes, Zenon
  <2> QED
    BY <1>3, <2>1, <2>2, Zenon
<1>5. /\ \A j \in Id : slot'[j].size = slot[j].size
      /\ slot'[i] # NoEntry /\ \A j \in Id : j # i => slot'[j] = slot[j]
  <2>1. CASE Registered(i)
    BY <1>1, <2>1, Zenon DEF Registered
  <2>2. CASE ~Registered(i)
    <3>1. slot'[i] = new /\ slot[i] = NoEntry /\ \A j \in Id : j # i => slot'[j] = slot[j]
      BY <1>1, <2>2, Zenon DEF Registered
    <3> QED
      BY <1>2, <3>1, NoEntryGood, Zenon
  <2> QED
    BY <2>1, <2>2, Zenon
<1>6. SizeOf' = SizeOf /\ Evictable' = Evictable /\ \A j \in Id : slot'[j].size \in Nat
  BY <1>5, Zenon DEF SizeOf, Evictable, CacheInv
<1>7. Range(recency)' = {j \in Id : Registered(j)}'
  <2>1. Range(recency) = {j \in Id : slot[j] # NoEntry}
    BY Zenon DEF CacheInv, Registered
  <2> QED
    BY <1>1, <1>4, <1>5, <2>1, Zenon DEF Registered
<1>8. SumFunctionOnSet(SizeOf, Range(recency')) = cur
  <2>1. cur = SumFunctionOnSet(SizeOf, Range(recency))
    BY Zenon DEF CacheInv
  <2>2. CASE i \in Range(recency)
    <3>1. Range(recency') = Range(recency)
      BY <1>4, <2>2, Zenon
    <3> QED
      BY <2>1, <3>1, Zenon
  <2>3. CASE i \notin Range(recency)
    <3>1. SizeOf[i] = 0 /\ \A j \in Range(recency) \cup {i} : SizeOf[j] \in Int
      BY <1>1, <2>3, CacheSizes, Zenon
    <3>2. IsFiniteSet(Range(recency))
      BY CacheSizes, Zenon
    <3>3. SumFunctionOnSet(SizeOf, Range(recency) \cup {i}) = SumFunctionOnSet(SizeOf, Range(recency)) + SizeOf[i]
      <4> DEFINE R == Range(recency)
                 z == SizeOf
      <4>1. IsFiniteSet(R) /\ i \notin R /\ \A j \in R \cup {i} : z[j] \in Int
        BY <2>3, <3>1, <3>2, Zenon
      <4> HIDE DEF R, z, i
      <4>2. SumFunctionOnSet(z, R \cup {i}) = SumFunctionOnSet(z, R) + z[i]
        BY <4>1, SumPut, Zenon
      <4> QED
        BY <4>2, Zenon DEF R, z, i
    <3>4. SumFunctionOnSet(SizeOf, Range(recency')) = cur + 0
      BY <1>4, <2>1, <3>1, <3>3, Zenon
    <3>5. cur \in Nat
      BY CacheSizes, Zenon
    <3> QED
      BY <3>4, <3>5
  <2> QED
    BY <2>2, <2>3, Zenon
<1> QED
  BY <1>1, <1>4, <1>6, <1>7, <1>8, Zenon DEF CacheInv

(* What is left when the entries of ids go. *)
LEMMA DropSizes ==
    ASSUME FetchInv, CacheInv, NEW ids \in SUBSET Id, IsFiniteSet(ids)
    PROVE  LET w == Without(slot, ids)
               s == Unlisted(ids)
               g == [i \in Id |-> w[i].size]
           IN
           /\ s \in Seq(Id) /\ Range(s) = Range(recency) \ ids
           /\ Range(s) = {i \in Id : w[i] # NoEntry}
           /\ DOMAIN w = Id
           /\ \A i \in Id : w[i].size \in Nat /\ w[i] = IF i \in ids THEN NoEntry ELSE slot[i]
           /\ {i \in Id : w[i].size # 0} = Evictable \ ids
           /\ SumFunctionOnSet(g, Range(s)) = cur - Bytes(ids)
           /\ Bytes(ids) \in Nat
<1> DEFINE w == Without(slot, ids)
           s == Unlisted(ids)
           g == [i \in Id |-> w[i].size]
           R == Range(recency)
<1>1. s \in Seq(Id) /\ Range(s) = Range(recency) \cap (Id \ ids)
  BY KeptElements, Zenon DEF CacheInv, Unlisted
<1>2. Range(s) = Range(recency) \ ids
  BY <1>1, CacheSizes, Zenon
<1>3. DOMAIN w = Id /\ \A i \in Id : w[i] = IF i \in ids THEN NoEntry ELSE slot[i]
  BY Zenon DEF Without
<1>4. \A i \in Id : w[i].size \in Nat /\ (w[i].size # 0 <=> slot[i].size # 0 /\ i \notin ids)
  BY <1>3, NoEntryGood DEF CacheInv
<1>5. Range(s) = {i \in Id : w[i] # NoEntry}
  BY <1>2, <1>3, Zenon DEF CacheInv, Registered
<1>6. {i \in Id : w[i].size # 0} = Evictable \ ids
  BY <1>4, Zenon DEF Evictable
<1>7. /\ \A i \in Range(recency) \cup ids : SizeOf[i] \in Int
      /\ \A i \in ids \ Range(recency) : SizeOf[i] = 0
      /\ \A i \in ids : SizeOf[i] \in Nat
      /\ IsFiniteSet(Range(recency)) /\ Range(recency) \subseteq Id
  BY CacheSizes, Zenon
<1>8. \A i \in Range(recency) \ ids : g[i] = SizeOf[i]
  BY <1>3, <1>7, Zenon DEF SizeOf
<1>9. SumFunctionOnSet(g, R \ ids) = SumFunctionOnSet(SizeOf, R) - SumFunctionOnSet(SizeOf, ids)
  <2> HIDE DEF g, R
  <2>1. /\ \A i \in R \cup ids : SizeOf[i] \in Int
        /\ \A i \in ids \ R : SizeOf[i] = 0
        /\ \A i \in R \ ids : g[i] = SizeOf[i]
        /\ IsFiniteSet(R)
    BY <1>7, <1>8, Zenon DEF R
  <2> QED
    BY <2>1, SumWithout
<1>10. SumFunctionOnSet(g, Range(s)) = cur - Bytes(ids)
  BY <1>2, <1>9, Zenon DEF CacheInv, Bytes, SizeOf
<1>11. Bytes(ids) \in Nat
  BY <1>7, SumNat, Zenon DEF Bytes, SizeOf
<1> QED
  BY <1>1, <1>2, <1>3, <1>4, <1>5, <1>6, <1>10, <1>11, Zenon

(* Entries leave the map and take their bytes with them. *)
LEMMA DropCharges ==
    ASSUME FetchInv, CacheInv, NEW ids \in SUBSET Id, IsFiniteSet(ids),
           slot' = Without(slot, ids), recency' = Unlisted(ids), cur' = cur - Bytes(ids)
    PROVE  CacheInv'
<1>1. /\ recency' \in Seq(Id)
      /\ Range(recency') = {i \in Id : slot'[i] # NoEntry}
      /\ \A i \in Id : slot'[i].size \in Nat
      /\ {i \in Id : slot'[i].size # 0} = Evictable \ ids
      /\ SumFunctionOnSet([i \in Id |-> slot'[i].size], Range(recency')) = cur - Bytes(ids)
      /\ Bytes(ids) \in Nat
  BY DropSizes, Zenon
<1>2. Evictable' = Evictable \ ids /\ SizeOf' = [i \in Id |-> slot'[i].size]
  BY <1>1, Zenon DEF Evictable, SizeOf
<1>3. cur' = SumFunctionOnSet(SizeOf', Range(recency'))
  BY <1>1, <1>2, Zenon
<1>4. ASSUME cur' > MaxBytes
      PROVE  \E i \in Id : Evictable' = {i}
  <2>1. cur > MaxBytes
    <3>1. cur \in Nat /\ MaxBytes \in Nat
      BY CacheSizes, PackFetchAssumption, Zenon
    <3> QED
      BY <1>1, <1>4, <3>1
  <2>2. PICK i \in Id : Evictable = {i}
    BY <2>1, Zenon DEF CacheInv
  <2>3. CASE i \notin ids
    BY <1>2, <2>2, <2>3, Zenon
  <2>4. CASE i \in ids
    <3>1. \A j \in Id : slot'[j].size = 0
      BY <1>1, <2>2, <2>4, Zenon
    <3>2. Range(recency') \subseteq Id /\ IsFiniteSet(Range(recency'))
      BY <1>1, RangeFinite, Zenon
    <3>3. \A j \in Range(recency') : SizeOf'[j] = 0
      BY <1>2, <3>1, <3>2, Zenon
    <3>4. cur' = 0
      BY <1>3, <3>2, <3>3, SumZero, Zenon
    <3> QED
      BY <1>4, <3>4, PackFetchAssumption
  <2> QED
    BY <2>3, <2>4, Zenon
<1> QED
  BY <1>1, <1>2, <1>3, <1>4, Zenon DEF CacheInv, Registered

(* fill fails, an open finds its file gone, or idle entries are evicted. *)
LEMMA ForgetCharges ==
    ASSUME FetchInv, CacheInv,
           \/ \E f \in Fetch : FillFails(f) \/ Open(f)
           \/ \E ids \in SUBSET Id : EvictIdle(ids)
    PROVE  CacheInv'
<1>1. ASSUME NEW f \in Fetch, FillFails(f) PROVE CacheInv'
  <2>1. f[2] \in Id /\ {f[2]} \in SUBSET Id /\ IsFiniteSet({f[2]})
    BY PackFetchAssumption, FS_Singleton, Zenon
  <2>2. SizeOf[f[2]] = slot[f[2]].size /\ SizeOf[f[2]] \in Int
    BY <2>1, CacheSizes, Zenon
  <2>3. Bytes({f[2]}) = slot[f[2]].size
    BY <2>2, SumOne, Zenon DEF Bytes, SizeOf
  <2> QED
    BY <1>1, <2>1, <2>3, DropCharges, Zenon DEF FillFails
<1>2. ASSUME NEW f \in Fetch, Open(f) PROVE CacheInv'
  <2> DEFINE drop == IF disk[f[2]] = Absent /\ access[f].held THEN {f[2]} ELSE {}
  <2>1. f[2] \in Id
    BY PackFetchAssumption, Zenon
  <2>2. drop \in SUBSET Id /\ IsFiniteSet(drop)
    BY <2>1, FS_Singleton, FS_EmptySet, Zenon
  <2>3. slot' = Without(slot, drop) /\ recency' = Unlisted(drop) /\ cur' = cur - Bytes(drop)
    BY <1>2, Zenon DEF Open
  <2> HIDE DEF drop
  <2> QED
    BY <2>2, <2>3, DropCharges, Zenon
<1>3. ASSUME NEW ids \in SUBSET Id, EvictIdle(ids) PROVE CacheInv'
  <2>1. ids \subseteq Range(recency) /\ IsFiniteSet(Range(recency))
    BY <1>3, CacheSizes, Zenon DEF EvictIdle
  <2>2. IsFiniteSet(ids)
    BY <2>1, FS_Subset, Zenon
  <2> QED
    BY <1>3, <2>2, DropCharges, Zenon DEF EvictIdle
<1> QED
  BY <1>1, <1>2, <1>3, Zenon

(* evictLocked stops when the budget is met or nothing is left to take. *)
LEMMA VictimsEnough ==
    ASSUME CacheInv, NEW over
    PROVE  /\ Victims(over) \subseteq Evictable
           /\ Victims(over) = Evictable \/ Bytes(Victims(over)) >= over
<1> DEFINE Taken(n) == Evictable \cap Range(SubSeq(recency, 1, n))
           N == {n \in 0 .. Len(recency) : n = Len(recency) \/ Bytes(Taken(n)) >= over}
           m == Min(N)
<1>1. Len(recency) \in Nat /\ SubSeq(recency, 1, Len(recency)) = recency
  BY DEF CacheInv
<1>2. N \subseteq Nat /\ Len(recency) \in N
  BY <1>1
<1> HIDE DEF N
<1>3. PICK n \in N : \A k \in N : n <= k
  BY <1>2, Least, Zenon
<1>4. m \in N
  BY <1>3, Zenon DEF Min
<1>5. Victims(over) = Taken(m)
  BY Zenon DEF Victims, N
<1> HIDE DEF m
<1>6. m = Len(recency) \/ Bytes(Taken(m)) >= over
  BY <1>4, Zenon DEF N
<1>7. m = Len(recency) => Taken(m) = Evictable
  BY <1>1, CacheSizes, Zenon
<1> QED
  BY <1>5, <1>6, <1>7, Zenon

(* fill's end: the pack is charged, and others leave until it fits or nothing
   else is left. *)
LEMMA AdmitCharges == ASSUME FetchInv, CacheInv, NEW f \in Fetch, Admit(f) PROVE CacheInv'
<1> DEFINE i == f[2]
           gone == Victims(cur + Length[f[2]] - MaxBytes)
           w == Without(slot, gone)
           s == Unlisted(gone)
           g == [j \in Id |-> w[j].size]
           r == [[w[i] EXCEPT !.state = "ready"] EXCEPT !.size = Length[i]]
<1>1. /\ slot' = [w EXCEPT ![i].state = "ready", ![i].size = Length[i]]
      /\ cur' = cur + Length[i] - Bytes(gone) /\ recency' = s
      /\ access[f].at = "renamed" /\ i \in Id /\ FetchGood(access[f], slot[i]) /\ SlotGood(slot[i], disk[i])
  BY PackFetchAssumption, Zenon DEF FetchInv, Admit
<1>2. slot[i].state = "staged" /\ slot[i].size = 0 /\ DOMAIN slot[i] = {"state", "size", "landed"}
  BY <1>1 DEF FetchGood, SlotGood
<1>3. gone \subseteq Evictable /\ (gone = Evictable \/ Bytes(gone) >= cur + Length[i] - MaxBytes)
  BY VictimsEnough, Zenon
<1> HIDE DEF gone, s
<1>4. gone \in SUBSET Id /\ IsFiniteSet(gone) /\ i \notin gone
  <2>1. gone \subseteq Range(recency) /\ IsFiniteSet(Range(recency)) /\ Range(recency) \subseteq Id
    BY <1>3, CacheSizes, Zenon
  <2>2. i \notin Evictable
    BY <1>2, Zenon DEF Evictable
  <2> QED
    BY <1>3, <2>1, <2>2, FS_Subset, Zenon
<1>5. /\ s \in Seq(Id) /\ Range(s) = {j \in Id : w[j] # NoEntry}
      /\ DOMAIN w = Id
      /\ \A j \in Id : w[j].size \in Nat /\ w[j] = IF j \in gone THEN NoEntry ELSE slot[j]
      /\ {j \in Id : w[j].size # 0} = Evictable \ gone
      /\ SumFunctionOnSet(g, Range(s)) = cur - Bytes(gone)
      /\ Bytes(gone) \in Nat
  BY <1>4, DropSizes, Zenon DEF s, w, g
<1> HIDE DEF w
<1>6. w[i] = slot[i] /\ w[i].size = 0 /\ DOMAIN w[i] = {"state", "size", "landed"} /\ w[i] # NoEntry
  BY <1>1, <1>2, <1>4, <1>5, NoEntryGood
<1>7. slot' = [w EXCEPT ![i] = r]
  BY <1>1, <1>5, Zenon
<1>8. r.state = "ready" /\ r.size = Length[i]
  BY <1>6, Zenon
<1> HIDE DEF r
<1>9. Length[i] \in Nat /\ Length[i] # 0 /\ MaxBytes \in Nat /\ cur \in Nat
  BY <1>1, PackFetchAssumption, CacheSizes
<1>10. slot'[i] = r /\ r # NoEntry /\ \A j \in Id : j # i => slot'[j] = w[j]
  <2>1. r # NoEntry
    BY <1>8, NoEntryGood
  <2> QED
    BY <1>1, <1>5, <1>7, <2>1, Zenon
<1>11. Range(recency') = {j \in Id : slot'[j] # NoEntry}
  <2>1. \A j \in Id : slot'[j] # NoEntry <=> w[j] # NoEntry
    BY <1>6, <1>10, Zenon
  <2> QED
    BY <1>1, <1>5, <2>1, Zenon
<1>12. \A j \in Id : slot'[j].size \in Nat
  BY <1>5, <1>8, <1>9, <1>10, Zenon
<1>13. Evictable' = (Evictable \ gone) \cup {i}
  <2>1. slot'[i].size # 0 /\ \A j \in Id : j # i => (slot'[j].size # 0 <=> w[j].size # 0)
    BY <1>8, <1>9, <1>10, Zenon
  <2>2. Evictable' = {j \in Id : w[j].size # 0} \cup {i}
    BY <1>1, <2>1, Zenon DEF Evictable
  <2> QED
    BY <1>5, <2>2, Zenon
<1>14. cur' = SumFunctionOnSet(SizeOf', Range(recency'))
  <2> DEFINE R == Range(s)
  <2>1. /\ i \in R /\ R \subseteq Id /\ IsFiniteSet(R) /\ IsFiniteSet(R \ {i})
        /\ Range(recency') = R
    <3>1. i \in R /\ R \subseteq Id
      BY <1>1, <1>5, <1>6, Zenon
    <3>2. IsFiniteSet(R)
      BY <1>5, RangeFinite, Zenon
    <3> QED
      BY <1>1, <3>1, <3>2, FS_RemoveElement, Zenon
  <2>2. /\ \A j \in R : g[j] \in Int
        /\ \A j \in R : SizeOf'[j] \in Int
        /\ \A j \in R \ {i} : g[j] \in Int /\ SizeOf'[j] = g[j]
        /\ g[i] = 0 /\ SizeOf'[i] = Length[i]
    <3>1. \A j \in Id : g[j] = w[j].size /\ SizeOf'[j] = slot'[j].size
      BY Zenon DEF SizeOf
    <3>2. \A j \in Id : g[j] \in Int /\ SizeOf'[j] \in Int
      BY <1>5, <1>12, <3>1
    <3> QED
      BY <1>1, <1>6, <1>8, <1>10, <2>1, <3>1, <3>2, Zenon
  <2> HIDE DEF R, g
  <2>3. SumFunctionOnSet(g, R) = g[i] + SumFunctionOnSet(g, R \ {i})
    BY <2>1, <2>2, SumTake, Zenon
  <2>4. SumFunctionOnSet(SizeOf', R) = SizeOf'[i] + SumFunctionOnSet(SizeOf', R \ {i})
    BY <2>1, <2>2, SumTake, Zenon
  <2>5. SumFunctionOnSet(g, R \ {i}) = SumFunctionOnSet(SizeOf', R \ {i})
    BY <2>1, <2>2, SumAgree, Zenon
  <2>6. SumFunctionOnSet(g, R \ {i}) \in Int
    BY <2>1, <2>2, SumType, Zenon
  <2> DEFINE a == SumFunctionOnSet(g, R \ {i})
  <2>7. cur - Bytes(gone) = 0 + a /\ SumFunctionOnSet(SizeOf', R) = Length[i] + a /\ a \in Int
    <3>1. SumFunctionOnSet(g, R) = cur - Bytes(gone)
      BY <1>5, Zenon DEF R
    <3> QED
      BY <2>2, <2>3, <2>4, <2>5, <2>6, <3>1, Zenon
  <2> HIDE DEF a
  <2>8. SumFunctionOnSet(SizeOf', R) = cur + Length[i] - Bytes(gone)
    BY <1>5, <1>9, <2>7
  <2> QED
    BY <1>1, <2>1, <2>8, Zenon
<1>15. ASSUME cur' > MaxBytes PROVE \E j \in Id : Evictable' = {j}
  <2>1. ~(Bytes(gone) >= cur + Length[i] - MaxBytes)
    BY <1>1, <1>5, <1>9, <1>15
  <2>2. Evictable' = {i}
    BY <1>3, <1>13, <2>1, Zenon
  <2> QED
    BY <1>1, <2>2, Zenon
<1>16. recency' \in Seq(Id)
  BY <1>1, <1>5, Zenon
<1> QED
  BY <1>11, <1>12, <1>14, <1>15, <1>16, Zenon DEF CacheInv, Registered

(* Every step keeps the account. *)
LEMMA CacheInvStep == FetchInv /\ CacheInv /\ [PackFetchNext]_pfVars => CacheInv'
<1> SUFFICES ASSUME FetchInv, CacheInv, [PackFetchNext]_pfVars PROVE CacheInv'
  OBVIOUS
<1>1. CASE UNCHANGED <<slot, recency, cur>>
  BY <1>1, SizesStay, Zenon
<1>2. ASSUME NEW f \in Fetch, StartPackFetch(f) \/ OpenFails(f) PROVE CacheInv'
  BY <1>1, <1>2, Zenon DEF StartPackFetch, OpenFails
<1>3. ASSUME NEW f \in Fetch, FetchStep(f), ~OpenFails(f) PROVE CacheInv'
  BY <1>3, ClaimCharges, FillStays, ForgetCharges, AdmitCharges, Zenon DEF FetchStep
<1>4. ASSUME NEW ids \in SUBSET Id, EvictIdle(ids) PROVE CacheInv'
  BY <1>4, ForgetCharges, Zenon
<1> QED
  BY <1>1, <1>2, <1>3, <1>4, Zenon DEF PackFetchNext, pfVars

(* Nothing is charged at the start. *)
LEMMA CacheInvInit == PackFetchInit => CacheInv
<1> SUFFICES ASSUME PackFetchInit PROVE CacheInv
  OBVIOUS
<1>1. recency = <<>> /\ cur = 0 /\ \A i \in Id : slot[i] = NoEntry
  BY Zenon DEF PackFetchInit
<1>2. recency \in Seq(Id) /\ Range(recency) = {}
  BY <1>1 DEF Range
<1>3. {i \in Id : Registered(i)} = {} /\ \A i \in Id : slot[i].size = 0
  BY <1>1, NoEntryGood, Zenon DEF Registered
<1>4. cur = SumFunctionOnSet(SizeOf, Range(recency))
  BY <1>1, <1>2, SumEmpty, Zenon
<1>5. ~(cur > MaxBytes)
  BY <1>1, PackFetchAssumption
<1> QED
  BY <1>2, <1>3, <1>4, <1>5 DEF CacheInv

(* Whatever the packs, their lengths and the budget: what the PackCache counts
   is the size of the entries it has, and it is over its budget only with one
   settled entry, which alone is larger (fill, forget, evictLocked and EvictIdle
   of packcache.go, in any order). *)
THEOREM BudgetIsKept == PackFetchSpec => []CacheAccounted
<1>1. CacheInv => CacheAccounted
  <2> SUFFICES ASSUME CacheInv PROVE CacheAccounted
    OBVIOUS
  <2>1. cur = Bytes(Range(recency))
    BY Zenon DEF CacheInv, Bytes, SizeOf
  <2>2. cur > MaxBytes => Cardinality(Evictable) = 1
    BY FS_Singleton, Zenon DEF CacheInv
  <2> QED
    BY <2>1, <2>2, Zenon DEF CacheAccounted
<1> QED
  BY <1>1, FetchInvInit, FetchInvStep, CacheInvInit, CacheInvStep, PTL DEF PackFetchSpec
=============================================================================
