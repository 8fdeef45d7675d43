------------------------------ MODULE Requests ------------------------------
(***************************************************************************)
(* How a request reaches a repository: the HTTP routes (http.go, lfs.go,   *)
(* webhook_settings.go) and the SSH commands (ssh.go, shell.go, lfs.go) of *)
(* one daemon, from the route through authorization (internal/auth) and    *)
(* resolution (internal/repofs, git_protocol.go) to the service.  What a   *)
(* service then does is modelled in the other modules.                     *)
(*                                                                         *)
(* The Authorizer is an interface: policy is what the daemon's decides on   *)
(* an auth.Request, the same as long as the daemon runs.                   *)
(***************************************************************************)
EXTENDS Integers, FiniteSets

CONSTANTS
    Request,     \* [name, route, dir, repo, cred, form]
    Authorizers  \* what Authorizers decide on each auth.Request

Routes == [http |-> {"refs", "rpc", "settings", "batch", "verify", "lock", "unlock", "locks", "lockverify"},
           ssh  |-> {"git", "sh", "sshsettings", "set", "authenticate"}]

VARIABLES
    config,    \* the daemon's flags (lfs, locks, hooks, http, ssh, url), and that it is up
    policy,    \* the decision on each auth.Request
    repos,     \* repositories that exist
    request    \* where each request is, or its answer

rqVars == <<config, policy, repos, request>>

Answers == {"no route", "malformed", "challenge", "denied", "not found", "error", "served"}
Operation == {"read", "write", "admin"}
Decision == {"deny", "allow", "unauthenticated"}

(* auth.Request: what an Authorizer is told of a request. *)
Transport(r) == IF r.route \in Routes.http THEN "http" ELSE "ssh"
AuthRequest == [repo : {r.repo : r \in Request}, op : Operation, cred : {r.cred : r \in Request},
                transport : {"http", "ssh"}]

(* AllowAnonymous, the Authorizer the daemon is started with. *)
AllowAnonymous(allowWrite) ==
    [q \in AuthRequest |-> IF q.op = "write" /\ ~allowWrite THEN "deny" ELSE "allow"]

ASSUME RequestsAssumption ==
    /\ Authorizers \subseteq [AuthRequest -> Decision] /\ AllowAnonymous(TRUE) \in Authorizers
    /\ \A r \in Request :
         /\ r.route \in Routes.http \union Routes.ssh
         /\ r.dir \in {"up", "down"} /\ r.form \in {"good", "bad path", "bad body"}

NotRunning == [lfs |-> FALSE, locks |-> FALSE, hooks |-> FALSE, http |-> FALSE, ssh |-> FALSE, url |-> FALSE, up |-> FALSE]

RequestsInit ==
    /\ config = NotRunning /\ policy = AllowAnonymous(FALSE)
    /\ repos = {} /\ request = [r \in Request |-> "route"]

(* main: something must be served; LFS needs HTTP, and a public URL beside SSH. *)
StartDaemon ==
    /\ config = NotRunning
    /\ config' \in [lfs : BOOLEAN, locks : BOOLEAN, hooks : BOOLEAN, http : BOOLEAN, ssh : BOOLEAN,
                    url : BOOLEAN, up : {TRUE}]
    /\ config'.http \/ config'.ssh
    /\ config'.lfs => config'.http /\ (config'.ssh => config'.url)
    /\ policy' \in Authorizers
    /\ UNCHANGED <<repos, request>>
-----------------------------------------------------------------------------
(* httpHandler, registerLFS and handleSSH: which commands there are. *)
Routed(r) ==
    /\ r.route \in Routes.http => config.http
    /\ r.route \in Routes.ssh => config.ssh
    /\ r.route \in {"batch", "verify", "lock", "unlock", "locks", "lockverify"} => config.lfs
    /\ r.route \in {"lock", "unlock", "locks", "lockverify"} => config.locks
    /\ r.route = "authenticate" => config.lfs /\ config.url
    /\ r.route = "sh" => config.hooks

(* Mutant of Needs: git-lfs-authenticate asks for read access only. *)
NeedsToAsk(r) ==
    CASE r.route \in {"settings", "sshsettings", "set"}          -> "admin"
      [] r.route \in {"verify", "lock", "unlock", "sh"}          -> "write"
      [] r.route \in {"locks", "lockverify", "authenticate"}     -> "read"
      [] OTHER                                                   -> IF r.dir = "up" THEN "write" ELSE "read"

(* operationFor and what each handler asks the Authorizer for. *)
Needs(r) ==
    CASE r.route \in {"settings", "sshsettings", "set"}          -> "admin"
      [] r.route \in {"verify", "lock", "unlock", "sh"}          -> "write"
      [] r.route \in {"locks", "lockverify"}                     -> "read"
      [] OTHER                                                   -> IF r.dir = "up" THEN "write" ELSE "read"

(* The auth.Request of r, had it come from the client of c; and its own. *)
AskedFor(c, r) == [repo |-> r.repo, op |-> Needs(r), cred |-> c.cred, transport |-> Transport(c)]
Asked(r) == AskedFor(r, r)

Go(r, at) == request' = [request EXCEPT ![r] = at]
OfGit(r) == r.route \in {"refs", "rpc", "git", "sh"}
Creates(r) == r.route \in {"refs", "rpc", "git"} /\ r.dir = "up"

(* The checks before authorization: repofs.Parse and the arguments; a batch
   reads its body first, since the operation is in it. *)
RouteRequest(r) ==
    /\ config.up /\ request[r] = "route"
    /\ Go(r, IF ~Routed(r) THEN "no route"
             ELSE IF r.form = "bad path" \/ (r.form = "bad body" /\ r.route \in {"batch"} \union Routes.ssh)
             THEN "malformed" ELSE "authorize")
    /\ UNCHANGED <<config, policy, repos>>

(* daemon.authorize as each transport renders it: only HTTP can challenge. *)
AuthorizeRequest(r) ==
    /\ request[r] = "authorize"
    /\ Go(r, IF policy[Asked(r)] = "allow" THEN "resolve"
             ELSE IF policy[Asked(r)] = "unauthenticated" /\ Transport(r) = "http" THEN "challenge" ELSE "denied")
    /\ UNCHANGED <<config, policy, repos>>

(* load, or for a push loadOrInit; LFS and the settings use no repository. *)
ResolveRequest(r) ==
    /\ request[r] = "resolve"
    /\ repos' = IF Creates(r) THEN repos \union {r.repo} ELSE repos
    /\ Go(r, IF OfGit(r) /\ r.repo \notin repos' THEN "not found" ELSE "serve")
    /\ UNCHANGED <<config, policy>>
ResolveFails(r) ==
    /\ request[r] = "resolve" /\ OfGit(r)
    /\ Go(r, "error")
    /\ UNCHANGED <<config, policy, repos>>

(* The service; the body of an RPC, and of an LFS request other than a batch,
   is first looked at here. *)
ServeRequest(r) ==
    /\ request[r] = "serve"
    /\ \/ Go(r, IF r.form = "bad body" THEN "malformed" ELSE "served")
       \/ Go(r, "error")
    /\ UNCHANGED <<config, policy, repos>>

RequestsNext ==
    \/ StartDaemon
    \/ \E r \in Request :
         RouteRequest(r) \/ AuthorizeRequest(r) \/ ResolveRequest(r) \/ ResolveFails(r) \/ ServeRequest(r)

RequestsSpec == RequestsInit /\ [][RequestsNext]_rqVars
-----------------------------------------------------------------------------
(* What is announced: the RPC after info/refs, and after git-lfs-authenticate
   the batch and the verify of an upload. *)
Announces(d, r) ==
    /\ d.repo = r.repo /\ d.dir = r.dir
    /\ <<d.route, r.route>> \in {<<"refs", "rpc">>, <<"authenticate", "batch">>}
        \/ (<<d.route, r.route>> = <<"authenticate", "verify">> /\ d.dir = "up")

(* The Authorizer would decide on r alike if it came with d's credential over
   d's transport: it does when they are the same, and AllowAnonymous always.
   git-lfs-authenticate hands out no credential for the HTTP requests after it. *)
Alike(d, r) == policy[Asked(r)] = policy[AskedFor(d, r)]

(* Discovery is kept: after an advertisement (info/refs) or an answer to
   git-lfs-authenticate was served, the request it announces finds its route and
   the repository, and is not refused by an Authorizer that does not tell the two
   clients apart: both are asked for the same operation. *)
DiscoveryKept == [][
    \A d, r \in Request :
      Announces(d, r) /\ request[d] = "served" /\ request'[r] # request[r]
        => /\ request'[r] \notin {"no route", "not found"}
           /\ Alike(d, r) => request'[r] \notin {"challenge", "denied"}]_rqVars
=============================================================================
