# objgit in TLA+

objgit is a Git server whose repositories live in an object store (S3, Tigris).
There is no database and no lock service: several daemons serve the same
repository, and all they agree through is conditional PUTs and the order in
which they write and delete objects. These modules model that part of the
program, check it with TLC on small instances, and prove its main properties
with TLAPS for every instance.

## The system and its parts

A push runs through these parts, in this order:

1. A **transport** (`cmd/objgitd/http.go`, `ssh.go`) authorizes the request,
   opens the repository as a fresh `Storer` and shows the references.
2. **Receive-pack** (`cmd/objgitd/receivepack.go`, `pushlimit.go`) decodes the
   commands, waits for a push slot of the daemon, and has the pack unpacked.
3. The **pack writer** (`internal/storage/tigris/packwriter.go`, `indexpack.go`)
   splits the pack into containers. A container is a `.bin` object with the
   payloads and a `.cue` object with the index of the `.bin`. Each is registered in
   the **pack index** (`packindex.go`) and handed to the **uploader**
   (`upload.go`), whose queue is the **bundler** (`internal/bundler/bundler.go`).
4. Receive-pack flushes the uploader, then updates the **references**
   (`refs.go`, `refcache.go`, `packedrefs.go`).
5. It reports to the client and tells **hooks and webhooks** what changed
   (`hooks.go`, `webhooks.go`, `internal/pushevents`), heals HEAD
   (`git_protocol.go`) and makes **tree snapshots** (`internal/snapshot`).

A fetch reads references, pack index, **pack cache** (`packcache.go`) and
objects. **LFS** (`internal/lfs`) keeps large files and locks beside the
repository. `PROJECT.json` lists every part with its source files, whether it is
modelled, and why not.

## Modules

| module | what it models |
| --- | --- |
| `AtomicRefs` | abstract: a reference map changed by whole batches whose expectations hold |
| `RefStore` | `refs.go`, `refcache.go`: packed-refs, the loose layer, the compare-and-swap loop |
| `Bundler` | `bundler.go`: Add, AddWait, timer, handlers, Flush |
| `ReceivePack` | `receivepack.go`, `pushlimit.go`, and the write side of `packwriter.go` and `upload.go`, over `AtomicRefs` |
| `IndexPack` | `indexpack.go`, the segments of `packwriter.go`, the policy of `compress.go`: from a pack to containers |
| `ObjectStore` | `packindex.go`, `packtable.go`, `objects.go`, `writer.go`, `iter.go`, `upload.go`, sealing and jobs of `packwriter.go`: what Storers and the bucket know of objects |
| `PackFetch` | `packcache.go` and the whole-pack downloads of `packindex.go` |
| `Head` | `load`, `loadOrInit`, `ensureHEAD`, `pickDefaultBranch` of `git_protocol.go`, `healHEADAfterPush` of `hooks.go` |
| `PostReceive` | `hooks.go`, `snapshots.go`, `internal/snapshot/ensure.go`, `internal/webhook`, `webhooks.go`, `webhook_settings.go`: what follows a push |
| `PushEvents` | `internal/pushevents/push.go`: the event of one update |
| `LfsLocks`, `LfsObjects` | `internal/lfs` with its handlers in `lfs.go` |
| `Requests` | `http.go`, `ssh.go`, `lfs.go`, `auth.go`, `main.go`: route, authorization and resolution of requests |
| `ListingCache` | `internal/s3fs/listingcache.go` with the filesystem calls that read and invalidate it |
| `MCRefStore`, `MCReceivePack`, `MCServices`, `MCProgress` | the instances TLC checks |
| `Collections`, `CollectionLemmas` | loops that keep some elements of a slice; lemmas about them and about sums over finite sets |
| `BucketProofs` | proofs about `RefStore` (types, bystanders, the packed layout) and `ListingCache` |
| `UploadProofs` | proofs about `Bundler`, `LfsLocks` and `LfsObjects` |
| `PushProofs` | proofs about `ReceivePack` (durability, reports, slots, types) and `PushEvents` |
| `IndexPackProofs` | proofs about `IndexPack`: memory, containers, every entry stored once |
| `ObjectStoreProofs`, `ObjectStoreReads` | proofs about `ObjectStore`: delta chains, iterations, flushed objects; reads |
| `DaemonProofs` | proofs about `Requests`, `PostReceive` and `PackFetch` |

The components meet like this: `RefStore` implements `AtomicRefs` (checked and
proved, where there is no loose layer), and `ReceivePack` uses `AtomicRefs` for
its commits. `Bundler` gives `ReceivePack` its flush: `Flush` and `LooseFlush` of
`ReceivePack` wait for every job of the push to be settled, which is the promise
`FlushCovers` of `Bundler`. `ObjectStore` takes its containers from `IndexPack`:
`Container` asks of them that the base of each delta is an object of the same
container, which is what `ContainersReadAlone` proves of every container. It does
not ask that bases lead to a whole object. That is so in a container in which no
object of a delta comes twice; a pack that repeats one can make a circle of bases
(run `containers_repeat`), and `ObjectStore` has such containers, too. `PackFetch`
is the first tier of `ObjectStore`'s `FetchPayload`.

`MCServices` and `MCProgress` put several components into one run. They share no
state, so `focus`, chosen in the initial state, says which one moves, and nothing
is lost by not interleaving them.

### RefStore

The bucket is `packed` (one object) and `loose` (one object per name). An object
stands for its own ETag: two versions with the same content have the same ETag in
S3, too. A `Storer` is one request with its `cache`. Each S3 request is one step,
so Storers interleave between any two requests. A step of a Storer is named for
what it does:

- `Read`, `Commit`, `CommitLoose` and `PackRefs` start the exported calls.
- `FlushOk` and `FlushFailed` are the flush before any write.
- `GetPacked`, `ListLoose`, `GetLoose` and `LoadFailed` are `ensureRefsBuilt`.
- `ExpectationFailed`, `PutLands`, `PutRefused`, `PutFailed`, `PutLostReply` and
  `PutRepeated` are one attempt of `commitRefsNotifying`. The last two are the
  write whose answer is lost, and the SDK's repeat of it, which fails the
  precondition against its own first copy.
- `DropKey`, `DropKeyIgnored`, `DropFailed`, `DropLostReply` and `DropDone` are
  `dropFoldedLooseRefs`.
- `CheckLoose`, `WriteLoose`, `WriteLooseFailed` and `LooseLostReply` are the
  layout without packed refs. Here and above, `LostReply` is a request that took
  effect and whose answer was lost.
- `Crash` ends the request between any two of these.

Abstracted: a listing of more than 1000 loose keys, which the code reads in
pages, is one step. Loose objects that do not parse, which the code skips, do not
occur. Symbolic references are values like others.

### Bundler

One step per critical section under `b.mu`. Bundles are numbered in creation
order, which is also queue order, so the linked list is a set of numbers. `late`
counts timer callbacks that were already waiting for the lock when their timer
was stopped; `StopTimer` leaves it open whether there is one. The semaphore is
modelled from its use: first come first served, except that a request for more
than the whole capacity only waits for its context.

### ReceivePack

`pc` is where `receivePackStreaming` is. Uploads (`PutBin`, `PutCue`,
`UploadFailed`) run beside the push and outlive it. `Validate`, `Flush`,
`CommitLands`, `CommitRefused` and `CheckVisible` are `updateReferencesBatched`;
`StartOneByOne`, `ValidateNext`, `LooseFlush` and `LooseWrite` are
`updateReferencesOneByOne`. `Serve` divides into `Proceed`, what the daemon does
by itself, and the end of unpacking, which waits for the client. `Report` is the
report and the callback. `Crash` kills a daemon with all its pushes and uploads.
`landed` and `setBy` are history.

Abstracted: pack contents, framing and progress messages. `CommitLands` may end
in a failed cleanup for every batch; in the code that needs a folded loose key or
a removal. A limit of 0 pushes, which disables the limit, is not modelled.

### IndexPack

A pack is a sequence of entries: whole objects, deltas on an earlier entry,
deltas on a hash. `ReadPack` is the scan. `Root` and `ExternalBase` start a walk
at an object that is whole or of the repository; `InflateChild`, `ApplyChild`,
`PlaceChild` and `Return` are one delta of `walk`, and `TooDeep`, `BodyFails`,
`RootFails`, `PlaceChildFails` its errors. `Place` is `place` with
`packSegment.add`; `SealLast` and `SealLastFails` are the end of `Close`. Delta
commands are checked and applied by length (`ApplyOk`), payload bytes are sizes,
and a payload may compress to any size that is worth storing (`StoredSizes`).

`KeptRecords` is what `buildTable` may keep of a container that has an object
twice: `seal` sorts the records by hash with a sort that is not stable, so any of
them may come last.

Abstracted: `children` sorts the REF-deltas of a base by the hash of the base
only, so those of one base come in any order (`Orders`).

### ObjectStore

A container is a function from objects to bases, the one record that is kept of
each object; a table of the index is one to pack and base. `Name` is the part of
a container that has bytes, since a container is named by the digest of its
`.bin`. `store` holds each Storer's tables, pending overlay and upload error.
`Seal` and `WriteLoose` create jobs; `Stage`, `PutBin`, `PutCue`, `PutLoose` run
them; `Unlist` and `RemoveStaged` are the `done` of a job, one step for each of
its effects; `FlushUploads` is `flush`. `ListPacks`, `FetchCue`, `FetchFails` and
`PublishBuild` are `ensurePacksBuilt`, which several calls of a Storer may be in.
A read goes through `EncodedObject`, `OpenPending`, `LookUp`, `OpenStaged`,
`FetchPayload`, `FramePacked` and `GetLoose`, so that jobs end between any two of
them; `HeadInfo` and `DeltaObject` are the reads that need no body or no base.
`IterSnapshot` to `IterEnd` are an iteration.

### PackFetch

`slot`, `recency` and `cur` are the cache's map, list and byte count; `disk` is
the file under the final name; `access` is where a Storer's download of a pack
is. `Claim`, `TakeSlot`, `Land`, `Admit`, `Open`, `OpenFails`, `FillFails` are
`GetChecked` with `fill`; `EvictIdle` is the timer's. `PackPayload` gives what a
read may be served from at any moment.

### Head, PostReceive and PushEvents

`Head` has `head` and `branches`; each read and each write of `ensureHEAD` is a
step, so a branch may vanish after it was chosen. `InitCheck` and `InitWrite` are
go-git's `Init`, external.

`PostReceive` is `receivePack`: settings read first, then the push (its outcome is
any subset of the updates), snapshots in the code's order, hooks, and one event
per update with up to `MaxAttempts` copies. `ReadSettings` and `WriteSettings` are
`objgit-webhook-set`.

`PushEvents` runs the two walks of `push.go` frame by frame. `diffTrees`, a
recursive function, and `Event` are functions of the result.

### LfsLocks and LfsObjects

`LfsLocks`: the document with its version, and calls that read, decide
(`CreateVerdict`, `DeleteVerdict`) and put under a condition, `LockCASRetries`
times. `ListLocks`, `SplitLocks` and `Pages` are functions of the document. The handler
reads the document again for each page; `Pages` are those of one document.

`LfsObjects`: staged bytes, promoted blobs and markers. Clients ask
(`Batch`), upload (`Put`) and verify (`PostVerify`), and repeat what failed; a
verify may also come from a client that uploaded nothing. A
handler runs `HeadStaged`, `Rename`, `PutMarker`, or `RejectStaged`, or
`VerifyPromoted`, and may fail at each (`VerifyFails`).

### Requests and ListingCache

`Requests`: a daemon starts with some flags and some authorizer, and each request
passes `RouteRequest`, `AuthorizeRequest`, `ResolveRequest` and `ServeRequest`;
`ResolveRequest` creates the repository of a push. An authorizer is any function
of an `AuthRequest`: repository, operation, credential and transport.

`ListingCache`: entries for folders, for subtrees below registered roots and for
heads, each with the generation it was filled under. Reads consult, list, store
and seed; writes change the bucket first and invalidate afterwards. The daemon
does not turn this cache on.

## Runs

| run | properties | what it shows |
| --- | --- | --- |
| `refs_packed` | `TypeOK`, `AckedUpdateEffective`, `AtomicRefUpdates`, `CallReturns` | two Storers race checked and unchecked batches: packed-refs is an atomic map, acknowledged updates stay, every call returns |
| `refs_fold` | `BystanderKept` | two packed writers, one of which also packs, and a loose writer: a reference nobody changes keeps its value through every fold |
| `push` | `TypeOK`, `PackedRefsDurable`, `CueHasBin`, `ToldWhatLanded`, `SlotsAccounted`, `PushesEnd` | two pushes race for a reference on one or two daemons, with failing uploads, lost answers and crashes |
| `services` | `ContainersSelfContained`, `ContainersWithinCap`, `BodiesAccounted`, `EveryObjectStoredOnce` | packs of three entries in every delta relation, whole, flawed or with an object twice: containers hold the bases of their deltas and, where no object of a delta comes twice, can be read alone; they stay within the cap and hold each entry once; bodies stay within their budget |
| | `ChainsEnd`, `ReadsFind`, `IterationComplete`, `DurableObjectsStay` | two Storers seal, upload, fail, list, read and iterate, over containers of which one has a circle of its own: indexes add no other circle, own and flushed objects are found, flushed objects stay |
| | `LocksExclusive`, `LocksReleasedByHolder`, `VerifyReportsAll` | three lock calls race: one lock for each path, released by its holder or by force, reported once |
| | `CommitsInOrder`, `FilesAreNetChange` | events over a history with merges, an unrelated root, and trees in which files and directories trade places, against reachability and the difference by path |
| | `DeliveriesOfOnePush`, `SnapshotsPresent` | two pushes, or one and a change of settings: deliveries go to one destination after their hook; images exist when hooks run |
| | `DiscoveryKept` | what an advertisement announces is routed and found, and allowed by an authorizer that does not tell the two clients apart |
| | `ListingsFresh` | what is stored under a generation read before its listing (folders, subtrees, requested heads) hides no write of the process that has returned. Seeded heads are in `listing_seeded`; the answer of a flight that a read joins is not covered |
| `progress` | `TypeOK`, `FlushCovers`, `QueueOnlyWhenBusy`, `TimerGuardsCurrent`, `BytesAccounted`, `EverythingHandled` | four items and two flushes on a Bundler at all of its limits |
| | `CacheAccounted`, `CopiesVerified`, `DownloadsSettle` | three downloads in a cache too small for them: bytes exact, one download of a pack, only verified copies, every download ends |
| | `MarkersBacked`, `UploadsComplete` | three clients, one wrong about the size, that may verify before they upload: what a repository offers came through its own staging key and is there, and a right client completes |
| | `HeadHeals` | pushes create and delete branches: HEAD comes to name one that exists |

Seven runs show where the code does not do what a comment or a document says of
it. TLC's counterexample is the evidence, and `PROJECT.json` quotes the lines.

| run | property violated | what happens |
| --- | --- | --- |
| `refs_fold_lost` | `AckedUpdateEffective` | A writer of `tag` read the loose `main` before another writer's commit of `main` deleted it. Its own PUT folds the old `main` over the acknowledged one. |
| `refs_packrefs` | `PackRefsOnlyFolds` | `PackRefs` hands the loose values it cached to the commit as plain sets. After a refused compare-and-swap its second attempt reads the newer value and overwrites it. |
| `push_loose_error` | `RefsDurable` | Without packed refs, the first reference of a push takes the upload error out of the uploader. The second is set although its pack is not in the bucket. |
| `store_empty` | `DurableObjectsStay` | A container with an empty object has the bytes, hence the name, of the one without it. Its `.cue` is overwritten, and the empty object of an acknowledged push is gone. |
| `events_rewind` | `NewlyReachable` | The event of a reference set back to an ancestor lists that ancestor as new. |
| `containers_repeat` | `EveryContainerReadable` | A pack has an object whole and again as a delta of what was built on it. The reader of the container may keep the delta, and then neither object leads to a whole one. |
| `listing_seeded` | `HeadsFresh` | A listing begins before a local write and seeds heads after it, under the generation that the write made current: the old head hides the write. |

### Bounds

- References: two Storers with two calls each and `MaxRetries = 2` (8 in the
  code) reach every outcome of the loop, contention included. Two names are
  enough for a batch of several names and for a bystander. `refs_fold` has three
  Storers, because its question needs two folding writers and one loose writer.
- Bundler: one handler, a buffer of two bytes and a count threshold of two, so
  that bundles queue, callers block, and items join a queued bundle. The items
  weigh nothing, half of the buffer (two of them), and more than it. The last is
  never accepted, so three bundles would do; four are allowed.
- Pushes: two pushes, two daemons with one slot each, one container for each
  pack. Two containers take TLC too long; the proofs cover every number.
- Packs: three objects of sizes 1, 2 and 4 with a cap of 4, so that one fills a
  container exactly; stored chains of one link and incoming ones of two; a memory
  budget that two bodies exceed.
- Objects: three containers whose deltas lean on each other's objects in a
  circle, which is what could make a cycle, and one with a circle of its own; two
  tables before a merge (16 in the code); three links for a read (50). Each plan
  gives two Storers one or two containers or loose objects. Chains stitched
  together past the 50 links are not reached by this bound.
- Locks: room for one lock and two attempts, so that both limits are met. Three
  calls race at a time, out of five.
- Downloads: packs of one and two bytes, two bytes of cache, one live download.
  Uploads and HEAD: one fault each (`MaxFaults`, `MaxHeadFaults`).
- Listing cache: two files, one below a recursive root, and a folder; subtrees
  of more than one key are truncated. Three calls at a time, out of eight.
- `MaxCalls`, `MaxBundles` and `MaxContainers` bound what the code does not, and
  each is a guard of the action it bounds.

Deadlock is not checked: all calls made is a legitimate end.

### Fairness

Each action that is assumed fair is one the daemon takes by itself:

- `RefStore`: a started call keeps moving, since an S3 request is answered or
  times out (`internal/s3fs/resilient.go` limits the wait for an answer). Calls
  themselves need not happen.
- `Bundler`: goroutines that can run do, and handlers return, because
  `handleBundle` runs under a deadline (`uploadTimeout` in `upload.go`).
- `ReceivePack`: a push goes on where it does not wait for its client
  (`Proceed`), and an upload ends, by the same deadline. Unpacking reads from a
  connection without a read deadline (`main.go`), so neither its end nor its
  failure is assumed: a client that stops in the middle of its pack holds its
  slot. The limit on the wait for a slot (`-push-queue-timeout`) is not assumed
  either, since 0 turns it off. `PushesEnd` names these two exceptions.
- `MCProgress`: downloads, request handlers and HEAD's steps go on where they
  can. The timeout on bucket requests ends with the response headers; that the
  body of a download ends, well or in an error, is assumed of the bucket.

Two things are assumed of clients, in `MCProgress` alone: git-lfs repeats what
failed, and clones keep coming, since a HEAD that a failed write left dangling is
healed by the next one. Success is assumed nowhere, and neither are crashes.

## Proofs

TLAPS proves these for all sets of Storers, names, values, items, pushes,
objects, calls and requests, all thresholds and limits, and all initial buckets
that the assumptions allow. The assumptions are the `ASSUME`s of the modules,
which TLC evaluates in every run, and `NoLegacy` where stated.

| theorem | states | rests on |
| --- | --- | --- |
| `BucketProofs!TypeCorrect` | `TypeOK` | a running call always has an attempt left (`AttemptLeft`) |
| `BucketProofs!BystandersKept` | `BystanderKept` | `BystanderInv` |
| `BucketProofs!AckedUpdatesStay` | `AckedUpdateEffective` under `NoLegacy` | `PackedInv` |
| `BucketProofs!ImplementsAtomicRefs` | `AtomicRefUpdates` under `NoLegacy` | `PackedInv` |
| `UploadProofs!FlushKeepsItsPromise` | `FlushCovers` | `Inv` |
| `UploadProofs!NoWorkOverlooked` | `QueueOnlyWhenBusy` | `Busyness` |
| `UploadProofs!TimerAlwaysSet` | `TimerGuardsCurrent` | `Busyness` |
| `UploadProofs!WeightNeverLeaks` | `BytesAccounted` | `Inv`, `Weighed` |
| `UploadProofs!BundlerTypeCorrect` | `TypeOK` | `Inv`, `Busyness`, `Weighed`, `CallerType` |
| `PushProofs!CuesHaveBins` | `CueHasBin` | `UploadsInOrder` |
| `PushProofs!PackedRefsAreDurable` | `PackedRefsDurable` | `FlushedFirst` |
| `PushProofs!ToldIsTrue` | `ToldWhatLanded` | `Honest` |
| `PushProofs!NoSlotLost` | `SlotsAccounted` | `SlotsHeld` |
| `PushProofs!PushesAreTyped` | `TypeOK` | `Shape`, `SlotsHeld`, `CursorInv` |
| `PushProofs!EventListsCommits` | `CommitsInOrder` | `EventInv` |
| `IndexPackProofs!BodiesAreReleased` | `BodiesAccounted` | `Base` |
| `IndexPackProofs!ContainersKeepToCap` | `ContainersWithinCap` | `Base` and the property itself |
| `IndexPackProofs!ContainersReadAlone` | `ContainersSelfContained` | `Base`, `Chains` |
| `IndexPackProofs!PackIsStored` | `EveryObjectStoredOnce` | `Base`, `Stores` |
| `ObjectStoreProofs!ChainsAlwaysEnd` | `ChainsEnd` | `IndexInv` |
| `ObjectStoreProofs!IterationsComplete` | `IterationComplete` | `IndexInv`, `HeldInv`, `WalkInv` |
| `ObjectStoreProofs!FlushedObjectsStay` | `FlushedStay`: `DurableObjectsStay` but for the length of chains and the empty objects | `IndexInv`, `HeldInv`, `AckInv` |
| `ObjectStoreReads!ReadsNeverMiss` | `ReadsSucceed`: `ReadsFind` but for the same two, and objects that are their own base | `IndexInv`, `HeldInv`, `AckInv`, `OffersInv`, `ReadInv` |
| `UploadProofs!LocksAreExclusive` | `LocksExclusive` | `LocksInv` |
| `UploadProofs!OnlyHoldersRelease` | `LocksReleasedByHolder` | `LocksInv` |
| `UploadProofs!VerifyIsComplete` | `VerifyReportsAll` | `LocksInv` |
| `UploadProofs!HeldObjectsAreReal` | `MarkersBacked` | `ObjectsInv` |
| `DaemonProofs!AnnouncedRequestsPass` | `DiscoveryKept` | `RequestsInv` |
| `DaemonProofs!TipsHaveImages` | `SnapshotsPresent` | `PostInv` |
| `DaemonProofs!DeliveriesAgree` | `DeliveriesOfOnePush` | `PostInv` |
| `DaemonProofs!CopiesAreVerified` | `CopiesVerified` | `FetchInv` |
| `DaemonProofs!BudgetIsKept` | `CacheAccounted` | `FetchInv`, `CacheInv` |
| `BucketProofs!CachedListingsAreFresh` | `ListingsFresh` | `ListingInv` |

The right-hand column names the inductive invariant, defined in the proof module.

The arguments:

- **Bystanders.** The packed object and the loose keys are read by different
  requests, so a Storer can miss a reference in both. `BystanderInv` says that
  then packed-refs has taken the reference up since, so the compare-and-swap of
  that Storer will be refused.
- **Packed layout.** `NoLegacy` says that no loose reference exists at the start
  and every writer uses packed refs. Then a PUT that passes the precondition is
  one batch applied to the current content, with its expectations true in it.
  The run `refs_fold_lost` shows that the assumption is needed.
- **Flush.** An item that joins a queued bundle may count in the WaitGroup of an
  earlier Flush. `Inv` says that what a Flush has to wait for counts in its own
  group or in an older one, and that the Flush calls that returned are an initial
  piece of all of them.
- **Handlers and timer.** `Busyness` says that the handler count is exact, that
  all handlers are busy if a bundle is queued, and that at most one bundle is
  current.
- **Weight.** The semaphore is released per bundle, by the bytes the bundle has
  counted. `Weighed` says that these are the sizes of its items, that the weight
  taken is that of the items admitted or bundled, and that a handled item is in
  a bundle that is done.
- **Durability.** Flush takes the error only after every job is settled, and no
  container is sealed afterwards. So a push past its flush has only complete
  containers (`FlushedFirst`), and only such a push writes references.
- **Notification.** A status of "ok" is given only for a transition in `landed`.
- **Slots.** Exactly the pushes past `admit` are counted.
- **Types of a push.** The loop of `updateReferencesOneByOne` reads a command by
  index. `CursorInv` says that the index starts at the first command of a request
  that is not empty and that the loop leaves at the last, so what is written
  under a name is always a target or a removal.
- **Events.** `EventInv` describes the two walks of `push.go`. The first has seen
  commits the old tip reaches, and the parents of each are seen or on its stack.
  The stack of the second is a path of the history, so a parent that is on the
  stack below would close a cycle; hence a commit is listed when each of its
  parents is listed before it or excluded (`Listed`, `Visited`).
- **Memory of the pack writer.** `Base` says which bodies are alive: those of the
  walks on the stack and of the delta in hand. Each is counted once, and each way
  out of `run`, an error included, releases them in the order of the stack.
- **Containers.** `Chains` ranks the records of each container: a delta has a
  higher rank than a record of its base before it. A walk remembers the
  container its base went to (`serial`) and a depth. If that is still the open
  container, the base is on record there with at most this rank (`Based`), so
  `place` may keep the delta; if it was sealed meanwhile, the numbers differ. The
  records of an object that is not repeated have one rank, which is then the depth
  of the object for whatever a reader keeps (`RankedReadable`).
- **Entries stored once.** `Stores` sorts the entries of the pack into stored,
  waiting with a walk, and neither. A whole object is stored once the roots are
  past it, an OFS-delta is stored or waits exactly if its base is stored, a
  REF-delta exactly if it was handed out; no entry waits twice, and the stored
  entries are the records, one to one. At the end nothing waits, so what is
  neither is what the pack does not define, and `run` has counted it.
- **Chains.** A base is looked up by hash and may be found in another container
  than its delta, so chains that end in each container could form a circle
  together. They do not, because lookup takes the newest table that has the hash
  and every table holds the bases of its own deltas: along a chain the table only
  gets newer, so a circle lies within one table. There it is a circle that one
  container was sealed with (`CirclesAreSealed`, `LookupsEnd`). Containers without
  one give indexes without one.
  `IndexInv` says that every table of a Storer without an upload error is of this
  kind, and that what its cold builds have fetched is too. Merging keeps it
  (`MergeTable`). After a failed upload `deregister` may hide records of a merged
  table and the argument breaks, so the theorem speaks of Storers without one.
- **Iterations.** An iteration walks a snapshot of the tables and skips a record
  that a newer table shadows, then lists the loose objects and skips those the
  snapshot has. `HeldInv` says that every record of a Storer without an upload
  error leads to a `.bin` in the bucket or to a container it sealed itself and
  still has. So the walk can always open the pack it comes to, although packs are
  uploaded and leave the disk meanwhile. `WalkInv` says that each object due was
  yielded or is still ahead, under its newest record or as a loose key, and that
  nothing ahead was yielded before.
- **Flushed objects.** `AckInv` says that a `.cue` fits its name, which keeps its
  objects but for the empty ones when it is overwritten, and that a job that is
  over has landed unless its Storer has an error. So a flush without error covers
  only what is in the bucket. What a later Storer builds from it has no
  circles but those of single containers, by the argument for chains.
- **Reads.** A read looks into the overlay, the index and the loose objects one
  after the other, while uploads move objects from the first to the last and cold
  builds replace the index. `OffersInv` says that what a Storer wrote is at every
  moment in one of them, and that a build has, or is yet to read, what was flushed
  before its listing. `ReadInv` says that an object still sought is in a place the
  read has yet to look at, that the pack it is about to open is on disk or in the
  bucket, and that the base it goes on to is in the index. It is another object,
  unless a container has an object as its own base (`SelfBased`), which
  `framePacked` takes for damage.
- **Locks.** A call decides on the document it read and writes it back only if it
  is still the same. `LocksInv` says of a call that is about to PUT that its
  decision is right for the document it read (`Decided`), that the id it is about
  to write is not in the document yet (`IdsUsed`), and that a granted lock is in
  the document until an unlock was shown it (`GrantsKept`).
- **Pages of locks.** The page at a cursor and the pages behind it are the rest of
  the document, by induction from its end; `SplitLocks` divides it in two.
- **LFS objects.** A marker is put by a handler that compared the size with what
  the client declared and moved the bytes from the staging key of its own
  repository. `ObjectsInv` says so of the handler at each of its steps, so it is
  true of every marker, whoever else promotes or rejects the same object, and
  whoever verifies what only others uploaded.
- **Requests.** `RequestsInv` says that a request past a check still passes it:
  flags and authorizer stay as they were at the start of the daemon, and
  repositories are only added. What an announcement passed, the request it
  announces passes too, since it asks for the same operation on the same
  repository; for the authorizer, if it decides alike on the two clients (`Alike`).
- **After a push.** `PostInv` says of a push how far it has come: the refs before
  its index, in sorted order, have their images, the updates before its index ran
  their hooks, and each delivery in the inbox is of an update it has passed, to
  the destination it loaded once. Images and hook runs are only added.
- **Downloads.** `FetchInv` ties each goroutine to the state of the entry it fills
  and each entry to its file. At most one goroutine fills an entry (`OneFills`), a
  file has its final name exactly while the entry is staged or ready, and an entry
  still registered for a goroutine that is about to open it is ready.
- **Budget of the cache.** `CacheInv` says that the list of recency names the
  registered entries once, that what is charged is the sum of their sizes, and
  that eviction stops above the budget only when one settled entry is left.
- **Listings.** This is about entries whose generation is read before the
  listing; seeded heads are not among them. A write invalidates after it changed
  the bucket, so an entry may be stale until then, and a fill that began before
  may store what it listed. `ListingInv` says that an entry, or a fill about to
  store, whose generation is still the current one of its prefix shows the bucket
  as it is, as far as no write that has not yet invalidated affects it (`Shows`).

What the `ASSUME`s ask of the constants is what the code guarantees of them:

- Requests and calls are told apart by their name, and their fields are of the
  kinds the handlers know. Limits, budgets and retry counts are positive where
  the flags and constants of the code make them so.
- A push names each reference once and has a command (`ReceivePack`,
  `PostReceive`).
- Containers hold the bases of their own deltas (`ObjectStore`), which
  `ContainersReadAlone` proves of `IndexPack`.
- Sizes and limits are natural numbers, and an entry of a pack is of one of three
  kinds (`EntryAssumption`, `LimitAssumption` of `IndexPack`). Nothing else is
  asked of a pack: bases may be missing, lead in circles or come later, deltas may
  be wrong, and objects may come more than once.
- Parents lead to no cycle (`HistoryAssumption` of `PushEvents`): commits are named
  by a digest of their parents.
- Keys are cleaned paths without empty parts; only directory markers end in an
  empty name, and nobody asks for the head of one (`ListingCache`; `key` and
  `cleanPath` of `filesystem.go`, `MkdirAll` of `dir.go`).

## Only model-checked

- Liveness: `CallReturns`, `EverythingHandled`, `PushesEnd`, `DownloadsSettle`,
  `UploadsComplete`, `HeadHeals`. The prover does not do fairness or ENABLED.
- `FilesAreNetChange` of `PushEvents`. It compares the recursion of `diffTrees`
  over two trees with the difference by path, and trees are nested to any depth.
- Two parts of `ReadsFind` and `DurableObjectsStay`. How many links a chain has
  depends on what several pushes store, and no invariant bounds it for all
  containers: a chain stitched together from several may be longer than
  `MaxLinks`. And both are about empty objects too, for which
  `DurableObjectsStay` is false where a push writes one (run `store_empty`).
  `FlushedObjectsStay` and `ReadsNeverMiss` prove the rest.

Sums over sets, the loops that filter a slice and the pages of a listing are
recursive functions. `CollectionLemmas` and `UploadProofs` show what they return by
induction over the set of arguments for which it holds, since the prover does not
instantiate the induction rules of its library.

## Not modelled

- `segmentstore.go`, which only tests use; the decoding of `.cue` and
  `packed-refs` bytes; the shallow list, config and index, which are single
  objects overwritten whole.
- The pack cache's sweep of files an earlier process left.
- Chains longer than 50 links that are stitched together from several
  containers, and what a read is answered that joins a flight of the listing cache
  begun before a write: see the notes of the hazards in `PROJECT.json`.
- Removing a reference with `-packed-refs` off that was packed while it was on:
  `RemoveReference` deletes the loose key, reports success, and the packed value
  stays visible. `RefStore` has this case; no run has it in its instance.
- s3fs beyond its listing cache: file bodies, temporary files, symlinks.
- Image format and mounting of snapshots, codecs of compression, signatures of
  webhooks and presigned URLs.
- Transport framing and the SSH host key, wiring and shutdown of the daemon,
  hooks in Kubernetes and in the sandbox, read-only filesystems, metrics,
  benchmarks and generated code. They keep no state that others race for, or run
  programs outside the repository.
