---------------------------- MODULE PostReceive -----------------------------
(***************************************************************************)
(* What a push does besides storing objects and refs: daemon.receivePack   *)
(* (hooks.go) loads the repository's webhook settings, receives, and then  *)
(* builds snapshot images (snapshots.go, internal/snapshot), runs hooks    *)
(* and delivers webhook events (webhooks.go, internal/webhook), while      *)
(* administrators change the settings over SSH (webhook_settings.go).      *)
(*                                                                         *)
(* A secret is the number of its generation.  A receiver may take an event *)
(* whose answer is lost; the delivery then comes again.                    *)
(***************************************************************************)
EXTENDS Integers, Sequences, FiniteSets

CONSTANTS
    PushCall,     \* [name, updates]; an update is [ref, kind, tree]
    SetCall,      \* objgit-webhook-set: [name, url, rotate]
    AllowHooks, Snapshots,  \* the daemon's flags
    MaxAttempts   \* maxAttempts of a delivery

NoSettings == [url |-> "", secret |-> 0]
Unreadable == [url |-> "?", secret |-> 0]
NoImage == "no tree"       \* an update that deletes, or points at no commit

ASSUME PostReceiveAssumption ==
    /\ AllowHooks \in BOOLEAN /\ Snapshots \in BOOLEAN /\ MaxAttempts \in Nat \ {0}
    /\ \A p, q \in PushCall : p.name = q.name => p = q
    /\ \A p \in PushCall :
         /\ Len(p.updates) \in Nat /\ DOMAIN p.updates = 1 .. Len(p.updates)
         /\ \A i \in DOMAIN p.updates : p.updates[i].kind \in {"branch", "tag", "other"} /\ p.updates[i].ref \in Int
         /\ \A i, j \in DOMAIN p.updates : p.updates[i].ref = p.updates[j].ref => i = j

VARIABLES
    settings,   \* the settings object: absent, unreadable, or url and secret
    secrets,    \* how many secrets were generated
    setCall,    \* each set command: where it is, the settings it will write
    push,       \* each push
    images,     \* trees with a stored image
    hooked,     \* hook runs, as push and update
    inbox       \* deliveries a receiver took: push, update, destination

prVars == <<settings, secrets, setCall, push, images, hooked, inbox>>

PostReceiveInit ==
    /\ settings = NoSettings /\ secrets = 0
    /\ setCall = [c \in SetCall |-> [at |-> "read", next |-> NoSettings]]
    /\ push = [p \in PushCall |-> [at |-> "load", dest |-> NoSettings, i |-> 1, try |-> 1, took |-> {}, seen |-> {},
                               failed |-> {}]]
    /\ images = {} /\ hooked = {} /\ inbox = {}
-----------------------------------------------------------------------------
(* webhook.ReadSettings: NoSettings when there is no file; a read may fail. *)
Readings == {settings, Unreadable}

(* handleSSHWebhookSet: read, merge with the flags, write (and print what is
   stored by then); settings that cannot be read can only be replaced whole. *)
ReadSettings(c) == \E reading \in Readings :
    LET current == IF reading = Unreadable THEN NoSettings ELSE reading
        url     == IF c.url # "" THEN c.url ELSE current.url
        rotated == c.rotate \/ current.secret = 0
    IN  /\ setCall[c].at = "read"
        /\ IF (reading = Unreadable /\ (c.url = "" \/ ~c.rotate)) \/ url = ""
           THEN setCall' = [setCall EXCEPT ![c].at = "failed"] /\ UNCHANGED secrets
           ELSE /\ secrets' = IF rotated THEN secrets + 1 ELSE secrets
                /\ setCall' = [setCall EXCEPT ![c] =
                     [at |-> "write", next |-> [url |-> url, secret |-> IF rotated THEN secrets + 1 ELSE current.secret]]]
        /\ UNCHANGED <<settings, push, images, hooked, inbox>>
WriteSettings(c) ==
    /\ setCall[c].at = "write"
    /\ \/ settings' = setCall[c].next /\ setCall' = [setCall EXCEPT ![c].at = "done"]
       \/ UNCHANGED settings /\ setCall' = [setCall EXCEPT ![c].at = "failed"]
    /\ UNCHANGED <<secrets, push, images, hooked, inbox>>
-----------------------------------------------------------------------------
Enabled(p) == push[p].dest # NoSettings
UpdateOf(p) == p.updates[push[p].i]
PushAt(p, at) == push' = [push EXCEPT ![p].at = at, ![p].i = 1, ![p].try = 1]
Advance(p) == push' = [push EXCEPT ![p].i = @ + 1, ![p].try = 1]
Over(p) == push[p].i > Len(p.updates)

(* webhook.Load, once for the push; settings that cannot be read, and settings
   without a secret, deliver nothing. *)
LoadSettings(p) ==
    /\ push[p].at = "load"
    /\ \E reading \in Readings :
         push' = [push EXCEPT ![p].at = "receive", ![p].dest = IF reading.secret = 0 THEN NoSettings ELSE reading]
    /\ UNCHANGED <<settings, secrets, setCall, images, hooked, inbox>>

(* receivePackStreaming: an error ends the push, and the callback sees the
   updates that were taken. *)
ReceivePack(p) ==
    /\ push[p].at = "receive"
    /\ \/ PushAt(p, "failed")
       \/ \E took \in SUBSET DOMAIN p.updates :
            push' = [push EXCEPT ![p].took = took,
                                 ![p].at = IF Snapshots THEN "snapshots" ELSE IF AllowHooks THEN "hooks"
                                           ELSE IF Enabled(p) THEN "webhooks" ELSE "done"]
    /\ UNCHANGED <<settings, secrets, setCall, images, hooked, inbox>>

(* runSnapshots: branches first, then tags, each by name; deletions and other
   refs are passed over.  The first of the refs on one tree runs Ensure, and the
   others find the tree in the seen map. *)
Before(u, v) ==
    IF (u.kind = "branch") = (v.kind = "branch") THEN u.ref < v.ref ELSE u.kind = "branch"
Sorted(S) == CHOOSE s \in [1 .. Cardinality(S) -> S] : \A i, j \in DOMAIN s : i < j => Before(s[i], s[j])
(* Mutant of Ordered: tags get no image. *)
OrderedBranches(p) == Sorted({p.updates[i] : i \in {j \in push[p].took : p.updates[j].kind = "branch"}})
Ordered(p) == Sorted({p.updates[i] : i \in {j \in push[p].took : p.updates[j].kind # "other"}})
TreeAtTip(p, n) == Ordered(p)[n].tree
Met(p, n) == TreeAtTip(p, n) \in push[p].seen \union {NoImage}
NextRef(p, seen, failed) ==
    push' = [push EXCEPT ![p].at = "snapshots", ![p].i = @ + 1, ![p].seen = @ \union seen, ![p].failed = @ \union failed]
SnapshotRef(p) ==
    LET n == push[p].i IN
    /\ push[p].at = "snapshots"
    /\ IF n > Len(Ordered(p)) THEN PushAt(p, IF AllowHooks THEN "hooks" ELSE "webhooks")
       ELSE \/ Met(p, n) /\ NextRef(p, {}, {})
            \/ ~Met(p, n) /\ TreeAtTip(p, n) \in images /\ NextRef(p, {TreeAtTip(p, n)}, {})
            \/ ~Met(p, n) /\ TreeAtTip(p, n) \notin images /\ push' = [push EXCEPT ![p].at = "build"]
    /\ UNCHANGED <<settings, secrets, setCall, images, hooked, inbox>>

(* EnsureWithLFS after the stat found nothing: build in a temp file and put
   the whole image, whoever put one since.  The stat, the build or the put
   may fail. *)
PutSnapshot(p) ==
    /\ push[p].at = "build"
    /\ images' = images \union {TreeAtTip(p, push[p].i)}
    /\ NextRef(p, {TreeAtTip(p, push[p].i)}, {})
    /\ UNCHANGED <<settings, secrets, setCall, hooked, inbox>>
SnapshotFails(p) ==
    /\ push[p].at \in {"snapshots", "build"} /\ push[p].i <= Len(Ordered(p)) /\ ~Met(p, push[p].i)
    /\ NextRef(p, {TreeAtTip(p, push[p].i)}, {TreeAtTip(p, push[p].i)})
    /\ UNCHANGED <<settings, secrets, setCall, images, hooked, inbox>>

(* peelToTree fails: the tree is not known, so it is not in runSnapshots' seen
   map, and another ref on it is tried. *)
PeelFails(p) ==
    /\ push[p].at = "snapshots" /\ push[p].i <= Len(Ordered(p))
    /\ NextRef(p, {}, {TreeAtTip(p, push[p].i)})
    /\ UNCHANGED <<settings, secrets, setCall, images, hooked, inbox>>

(* runHooks: branches that were not deleted; how a hook ends changes nothing. *)
RunHook(p) ==
    /\ push[p].at = "hooks"
    /\ IF Over(p) THEN PushAt(p, "webhooks") /\ UNCHANGED hooked
       ELSE /\ Advance(p)
            /\ hooked' = IF push[p].i \in push[p].took /\ UpdateOf(p).kind = "branch" /\ UpdateOf(p).tree # NoImage
                         THEN hooked \union {<<p.name, push[p].i>>} ELSE hooked
    /\ UNCHANGED <<settings, secrets, setCall, images, inbox>>

(* emitPushWebhooks: an event per update; Build, then up to MaxAttempts posts.
   healHEADAfterPush follows (Head). *)
NextEvent(p) ==
    /\ push[p].at = "webhooks"
    /\ \/ (~Enabled(p) \/ Over(p)) /\ PushAt(p, "done")
       \/ Enabled(p) /\ ~Over(p) /\ push[p].i \notin push[p].took /\ Advance(p)
       \/ Enabled(p) /\ ~Over(p) /\ push[p].i \in push[p].took
          /\ (Advance(p) \/ push' = [push EXCEPT ![p].at = "post"])
    /\ UNCHANGED <<settings, secrets, setCall, images, hooked, inbox>>

(* Deliver, one deliverOnce: the receiver may take the event whatever it or the
   network answers; a 2xx ends the event, a 429, a 5xx or no answer is retried
   within the attempts and the deadline, any other status is final. *)
EndEvent(p) == push' = [push EXCEPT ![p].at = "webhooks", ![p].i = @ + 1, ![p].try = 1]
(* Mutant of Destination: the settings are read again for each event. *)
DestinationNow(p) == settings
Destination(p) == push[p].dest
DeliverOnce(p) ==
    /\ push[p].at = "post"
    /\ inbox' \in {inbox, inbox \union {[by |-> p.name, at |-> push[p].i, dest |-> Destination(p)]}}
    /\ \/ EndEvent(p)
       \/ push[p].try < MaxAttempts /\ push' = [push EXCEPT ![p].try = @ + 1]
    /\ UNCHANGED <<settings, secrets, setCall, images, hooked>>

PushStep(p) ==
    \/ LoadSettings(p) \/ ReceivePack(p) \/ SnapshotRef(p) \/ PutSnapshot(p) \/ SnapshotFails(p)
    \/ PeelFails(p) \/ RunHook(p) \/ NextEvent(p) \/ DeliverOnce(p)
PostReceiveNext ==
    \/ \E p \in PushCall : PushStep(p)
    \/ \E c \in SetCall : ReadSettings(c) \/ WriteSettings(c)

PostReceiveSpec == PostReceiveInit /\ [][PostReceiveNext]_prVars
-----------------------------------------------------------------------------
(* The copies of a push's events (receivePack, emitPushWebhooks, Deliver): each
   of an update the push took, after the hook of that update, and all of them to
   one destination under one secret, although the settings change meanwhile. *)
DeliveriesOfOnePush ==
    \A k, l \in inbox : k.by = l.by =>
      /\ k.dest = l.dest /\ k.dest.secret # 0 /\ k.dest.url # ""
      /\ \E p \in PushCall :
           /\ p.name = k.by /\ k.at \in push[p].took
           /\ push[p].at = "post" => k.at <= push[p].i
           /\ AllowHooks /\ p.updates[k.at].kind = "branch" /\ p.updates[k.at].tree # NoImage
                => <<p.name, k.at>> \in hooked

(* When a push runs its hooks, and ever after, there is an image of the tree at
   every branch and tag tip it updated, whichever push built it, except of the
   trees whose build failed in that push (runSnapshots, EnsureWithLFS). *)
SnapshotsPresent ==
    Snapshots => \A p \in PushCall : push[p].at \in {"hooks", "webhooks", "post", "done"} =>
      \A i \in push[p].took :
        p.updates[i].kind # "other" => p.updates[i].tree \in images \union push[p].failed \union {NoImage}
=============================================================================
