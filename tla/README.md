# A TLA+ model of mbx-cache

mbx-cache is a remote build cache: an HTTP server in front of an object store (blobs under
their digests) and a metadata store (which namespace holds which blob, which result was
published for which action, which actions a selector predicts). This directory holds TLA+ modules
that model its stateful parts, TLC configurations that check them on small instances, and TLAPS
proofs of the properties that matter most.

| file | contents |
| --- | --- |
| `CacheData`, `DirectoryWalk`, `CacheService`, `CacheInvariant`, `ActionCache` | uploads, downloads, publication, and what they promise |
| `CacheRetention` | the same service while objects expire and the sweep runs |
| `TreeValidation` | `validate_tree` on every small graph |
| `WalkInvariant` | what an accepted tree rests on, shared by the invariants of the two |
| `ManifestStore` | action manifests under compare-and-swap |
| `PackUpload` | the pack reader and `put_blob_pack` |
| `PackDownload`, `CacheQueries` | `pack_blobs` with its guard and stream, and the read-only queries |
| `BlobStore`, `AzurePut` | what a put promises, and Azure's copy protocol that implements it |
| `OidcKeys`, `Authorizer` | the OIDC key cache, and `authorize` on top of it |
| `MC*.tla`, `*.cfg` | the instances TLC checks |
| `WalkProofs` | the lemmas on the walk, checked by `tlapm` |
| `TreeValidationProofs` | the theorems on `validate_tree` |
| `CacheServiceProofs` | the theorems on the service and on retention |
| `ManifestProofs`, `PackProofs`, `DownloadProofs`, `AzurePutProofs`, `AuthorizerProofs` | the theorems on the other components |
| `PROJECT.json` | components, runs, mutants, map to the source, hazards, theorems |

`tlc -workers 2 -config X.cfg M` checks a run, `tlapm M.tla` the proofs of a module.

## 1. Inventory

| component | source | state | operations |
| --- | --- | --- | --- |
| blob upload and download | `server.rs` `put_blob`, `get_blob`, `missing_blobs` | none between requests; a spool file, a digest and the put's outcome within one | verify the body, `BlobStore::put`, `register_blob`; look the row up, record the access, `BlobStore::get` |
| action results | `server.rs` `put_action_result`, `validate_*`, `require_blob` | the walk's stack and its `visiting` and `seen` sets | read and validate the descriptor, the shape, the metadata, the output tree; `commit` |
| metadata store | `metadata/mod.rs`, `memory.rs`, `postgres.rs` | `namespace_blobs`, `action_results`, `action_manifests` | `register_blob`, `visible_blobs`, `touch_blobs`, `get`, `get_batch`, `commit`, `get_manifest`, `commit_manifest`, `sweep` |
| sweep | `main.rs`, `postgres.rs` `sweep` | one transaction | delete old rows, delete results that dangle, delete old manifests, commit |
| manifests | `server.rs` `get/put_action_manifest` | none between requests | read with an entity tag; compare-and-swap on it |
| pack upload | `server.rs` `put_blob_pack`, `pack.rs` | `PackReader`, the frame being spooled, the receipt's counts | parse chunks into events; spool, verify, put and register each frame |
| pack download | `server.rs` `pack_blobs`, `metrics.rs` `PackGuard` | the response stream, the in-flight gauge | announce a length, fetch objects ahead, stream frames, count the outcome |
| result queries | `server.rs` `get_action_result`, `batch_action_results` | none | one look-up or one per action; hits and misses are counted |
| OIDC verification | `auth.rs` `verify`, `refresh_keys` | the cached key set and when it was fetched and attempted; a mutex | look a key up, refresh under the mutex with a cooldown |
| authorisation | `auth.rs` `Authorizer` | configuration only | check the namespace; anonymous access, static grants, claim rules |
| object stores | `storage/*.rs` | the objects; on Azure also temporary uploads and pending copies | `put` (create or report existing), `get`; on Azure upload, copy, wait |
| schemas | `model.rs` | none | parse and validate objects |
| configuration, routing, metrics | `config.rs`, `main.rs`, `metrics.rs` | counters | none that another part depends on |

**Interaction.** Every request is a tokio task. Tasks share no memory of their own except the in-memory
metadata store (one lock) and the OIDC key cache (a lock and a mutex); all other sharing goes through
PostgreSQL statements and object-store calls, none combined into a transaction except the
sweep. So the interleavings that matter are between awaits, and, for the statements on several rows, between
the rows they lock. A task may stop at any await: a call fails, with or without its effect,
its client goes away and it is dropped, the process dies. The sweep is a separate process beside live
servers; objects expire by a lifecycle rule of the store that knows nothing of either.

**What is hard**, and what makes each part correct:

- A publication checks many things in many queries and commits in another: what was checked must
  still be so, and two publishers must agree on one result.
- The put and the registration of a blob are two steps on two stores, and either may fail: an acknowledged
  upload must be readable, and what `blobs:missing` lets a client skip must be in the store.
- `validate_tree` walks graphs that clients made up: it must end, tell a shared directory from a cycle, and
  count to its limit exactly.
- The sweep judges by rows, objects expire by themselves, and uploads restart one, the other or
  both ages: a row that names nothing must not stay. The sweep's DELETE and the UPDATE that records the accesses of
  a pack lock several rows each, in any order.
- Manifest updates are retried over a network that loses and repeats them.
- A pack arrives cut into chunks at any byte.
- A pack's length is announced from rows before an object is read; objects expire or are half copied, gets are answered
  in any order, the client may leave: the client must be able to tell, and the gauge must come down once.
- Azure may accept a copy and make it later, or say nothing at all: the put must not answer before the blob can be read.
- Many requests meet a stale key set at once, and a refresh can fail or be abandoned while it holds the mutex.

`PROJECT.json` lists these, and the rest, as hazards at their lines.

## 2. The modules and the code

A definition has the name of the function it models where it models one; `PROJECT.json` maps it to its
lines. `Mutation:` definitions are the plausible bugs each property was tried against.

**`CacheData`** reduces data to what the protocol tells apart. A digest stands for the
(algorithm, hash, size) triple; bytes are identified by the digest they hash to, so "the body matches its
digest" is equality and a corrupt body is another digest. `Content` is what the bytes behind a
digest parse to: whose fields they have (an action's, a metadata record's, a directory's, nobody's), kind, version, references, and the
`Defects` of their values. `TaskAction`, `RustcAction`, `CcAction`, `BuildScriptAction` and `MetadataDefects` say which defects the
`validate()` of each struct refuses, `IsDescriptor`, `IsMetadataOf` and `IsDirectory` what the validators of `server.rs` accept. The module also holds the
reference definitions: `Complete`, `WithinLimits`, `Acyclic` say what a good result is without
saying how it is checked.

**`DirectoryWalk`** is the local state of `validate_tree`: the stack of `Visit`s, `visiting`, `seen`. **`WalkInvariant`** says
what the directories walked so far have passed (`WalkOK`); it models no code of its own.

**`CacheService`** has one action per query or object-store call of `put_blob`, `put_action_result`
and `get_blob`, with the local computation after the call folded in. The put is two steps, as on the filesystem: it looks for the
object (`blobs_put`), then writes its own unless one came up meanwhile (`persist_noclobber`); S3's conditional put is the second step alone, or
the first when an object is there. S3's client repeats a request whose answer it lost, so a put may be told that its own object exists.
`upload_fails`, `publish_fails`, `read_fails` stop a handler at any await, and `restart` stops them all (and empties `memory://`). On PostgreSQL a statement can
take effect while its answer is an error: `register_unheard`, `insert_unheard` (a 500 with the result published).
`commit` is one step in memory and two on PostgreSQL: the `INSERT ... ON CONFLICT DO NOTHING`, then the
read of what was there. Objects are there whole or not at all, as on the filesystem and S3; `AzurePut` has the copies that are not.
Requests refused before they reach a store are left out.

**`ActionCache`** is the abstract specification: a write-once map per namespace which decides in one
step and only takes a complete result (`Spec`), or, when entries may be evicted, at least never
turns one result into another (`EvictingSpec`). A publisher whose result was taken may be told that it failed; it is never told
"created", "exists" or "conflict" when that is not so.

**`CacheRetention`** adds ages and row locks. `upsert_row`, `insert_result` and `touch_row` are the service's statements on a single
row: they wait until it is free, then lock, write and commit in one step (`upsert_unheard`, `insert_result_unheard`: with their answer lost).
Two statements are on several rows and take them one by one, in any order, keeping what they have: the sweep's first DELETE (`sweep_blobs`, `sweep_row`), which looks
at each row again when it gets its lock, and the UPDATE by which a pack download records its accesses (`touch_blobs`, `touch_next`, `touch_commit`).
They can deadlock; PostgreSQL then fails one of them (`deadlock_ends`: `touch_fails`, whose error `record_blob_access` swallows, or `sweep_fails`).
The sweep goes on with `sweep_action_results` and `sweep_commit`, and can fail at any point. Statements are at READ COMMITTED: the second
DELETE sees what was registered after the first. `expire` is the store's lifecycle rule (external). There is
no `restart` here: on PostgreSQL a restart is every handler failing. The manifests' DELETE, the
last statement of the same transaction, touches no other table and is modelled in `ManifestStore`.

**`TreeValidation`** runs `DirectoryWalk` alone over all graphs of a size, the stores being fixed.

**`ManifestStore`** has the workers (external), a wire that loses, repeats and reorders PUTs, the
conditional INSERT or UPDATE, and the sweep of old manifests. Both backends do the same compare-and-swap;
the sweep exists only on PostgreSQL. That `memory://` loses its manifests on a restart is not modelled: nothing is promised across one.

**`PackUpload`** has one action per turn of `PackReader::push`'s loop and one per event the handler takes. Bytes are positions
in the body. `Init` chooses the frames, one defect or none, where the body is cut, and a declaration that is at most one above the totals. An empty
chunk leaves the reader as it is and is not modelled.

**`PackDownload`** splits `pack_blobs` and its response stream at every await and yield; the stream can be dropped at each. `Started` is the
window of gets that `buffered` has under way, `storage_get` answers any of them, `next_entry` takes them up in order. What an object's
stream yields is external. `guard`, `in_flight` and `ended` are `PackGuard` and its metrics. It extends **`CacheQueries`**: the
read-only endpoints on both metadata stores, beside an environment that uploads, publishes, expires and sweeps
(`CacheService` and `CacheRetention` say how those come about; here they are one step each). Each handler serves one request.

**`BlobStore`** is the abstract put. **`AzurePut`** is `AzureStore::put` and `get` under `put_blob` and `get_blob`: the upload to a temporary
key, the conditional copy, the deletion of the temporary key, the polling, the registration. Azure (external) makes a pending copy while its
source exists; a call can have its effect and end in an error; `object_store` repeats a request that met a server error, so a put may be told
of its own copy or its own empty blob that it exists (`copy_exists`, `put_empty`); a put can be dropped at any step. `Store` maps a blob to "stored" when its copy is made.

**`OidcKeys`** splits `verify` and `refresh_keys` at their awaits; the issuer (external) rotates its keys, a fetch
gets the set in force when the issuer answers, a task can be dropped anywhere and releases the mutex. **`Authorizer`** adds the rest of
`authorize`: everything before the keys is one step, since nothing in it waits, and the rules are applied in the step that finds the key.
A static token may be listed more than once; the code's `find` takes the first listing, and so does `Granted`, which says what the
configuration promises its holder. A JWT is what it decodes to; soundness of signature, audience and times is a flag; a claim is the set of its values. Namespaces and patterns are
sequences of characters, because patterns match by prefix. `Covers`, `Public`, `Granted` and `Identified` state what the configuration promises
in other terms than the code's, and `PlainName` says which names are good without cutting them into components as `valid_namespace` does: no
slash at an edge or after another, and nothing between two edges that is "." or "..". `Deserves` allows a 401 to a request with good credentials only in the step in which that request's own refresh fails. There is one provider: several have different issuers and separate caches.

## 3. The runs

| run | instance | states | shows |
| --- | --- | --- | --- |
| `publish` | one publisher, one uploader, five digests, `memory://`, restarts | 255,932 | a committed result is complete and within the limits (`ResultsComplete`); a 422 is deserved (`RejectionDeserved`); the service refines the write-once map (`KeepsPromise`); every publication answers; the inductive invariant of the proofs holds |
| `serve` | two publishers with conflicting results, two uploaders, PostgreSQL | 265,456 | the INSERT and the read after it act as one step, an INSERT whose answer is lost included (`KeepsPromise`); answers given stay true (`AnswersHold`); an acknowledged upload is readable; of two uploads that found no object only one is told that it created it (`CreatedOnce`); a row never names a missing object |
| `tree` | all graphs of three directories, two entries each, limits 2 and 3 | 716,920 | `validate_tree` accepts exactly the whole, acyclic trees within the limits, and ends |
| `retention` | one publisher, one uploader, expiry, sweep | 1,186,022 | the sweep removes only old rows, leaves no result it looked at dangling, and never changes a result |
| `sweeplocks` | an uploader, a reader that downloads blobs and packs, repeated sweeps | 119,035 | nobody waits for ever behind the sweep's row locks, nor the sweep behind the others', deadlocks included; a row whose object expired does not stay for good, as long as sweeps succeed again and again (`StaleRowsGo`) |
| `manifests` | two workers, one selector | 36,592 | no acknowledged prediction is lost; the sweep spares fresh manifests; every worker merges in the end |
| `pack` | up to two frames, every chunking, cut, defect and declaration | 246,566 | the verdict does not depend on chunks; a receipt accounts for every frame; no more than declared is spooled |
| `authorize` | five populations over four configurations, two rotations, two faults | 33,905 | grants, refusals, 400s and 401s are deserved (`AnswerDeserved`); fetches are spaced by the cooldown, keys never go back to an older set, every request is answered, the cache catches up |
| `download` | queries on either store, one pack of up to three blobs, or two packs at once | 116,871 | as many bytes as announced means every visible blob, whole and in the order of the entries (`LengthTellsWhole`); the gauge is exact (`GuardExact`); queries are exact though the stores change (`QueriesExact`); packs end |
| `azure` | three puts, a reader, an empty and a non-empty blob | 228,006 | copy, wait and give up implement the abstract put (`ImplementsPut`); an accepted copy arrives; a blob that is not whole is served only under a row that outlived an expired object; puts end |
| `dangling`, `unverified` | `MCRetention` | | TLC finds the disagreements of section 6 |

**Bounds.** They are the constants of the `.cfg` files; ages, clocks and walks need none (an age stops
where it changes nothing any more). One digest of each type is enough for a publication's paths,
two subdirectories for sharing, a limit of two or three directories to be at it and over it.
Two handlers of a kind are enough for each pairwise race: a step of one handler depends on others only
through the stores, whose changes a second handler can all make. `retention` uses one handler of a kind
because the third actor, the sweep, is what it is about; `sweeplocks` has two rows, so that an UPDATE and a DELETE can hold one each; `Retention = 0` and `SweepAge = 1` put the
sweep after expiry, and since the lifecycle rule may act late, the other order happens too. The packs of the run have two frames and the bounds of `Init`: two frames
have a first, a last and a boundary between frames; the magic and the header are two bytes
long so that each can be split. `authorize` and `download` choose one of
several populations in the initial state (`Setups`), each with the requests that its configuration tells apart: handlers meet only in the stores, the
key cache and the gauge, so a population holds those that can. One more setup, `unclaimed`, is a configuration the server refuses to start with.
`RefreshAfter = 2` and `Cooldown = 1` put a set's age on either side of both limits; a window of two gets ahead lets a later one overtake. Three puts on Azure
are the one whose copy is pending, the retry or rival that finds it, and one after expiry; only two of them may put the empty blob (`Uploads`), which meets no copy; two polls are one that is repeated and
one that is the last. `serve` and `retention` have one namespace: namespaces share only the objects, and an object whose row is missing
also comes from a failed registration. `MaxFaults` bounds failures in `authorize` because for ever failing fetches
refute convergence trivially. No symmetry is used.

**Fairness.** `WF` on the steps of a handler: a tokio task is polled until it returns, and every call
ends (in an answer or an error). `WF` on the sweep once it has begun, on PostgreSQL's detection of a deadlock, and on the passing of days. None on other failures, restarts, expiry, the start
of a sweep or, with one exception, new requests (`StaleRowsGo` takes as its premise that sweeps succeed again and again): in `authorize` builds with OIDC tokens keep coming and time passes, since only
requests refresh the keys. `SF` on a statement that waits for a row lock: PostgreSQL queues the waiters;
and on taking the refresh mutex: tokio's is FIFO. In `manifests` a worker goes on to read again, and the answer it waits for
has `SF`: the network does not lose its requests for ever. `EveryWorkerMerges` is claimed of behaviours in which the
sweeps stop; a sweep before every put could otherwise take the row away each time.
`TreeValidation` has one actor, which runs. In `download` a store answers every get and an object's stream ends or fails; its client
reads on or goes away (the server has no timeout for one that does neither). In `azure` a pending copy whose source exists is made
in the end: that is Azure's part, and `PutsEnd` does not need it.

## 4. What is proved

The theorems hold for every value of the constants that satisfies the assumptions: any finite set of digests, any
number of handlers, namespaces, workers, any directory graphs and limits, either backend, packs of any length with at most one defect under any chunking, any
configuration of the authorizer. Every safety property of a run is stated by a theorem.
A property is rarely inductive; each module has the invariant it needed.

**The walk** (`WalkProofs`, lemmas only). Three things are kept by every operation of `validate_tree` on its stack, each stated on the walk alone and
proved once for the tree by itself and for the service:

- `WalkOK`, why an accepted tree is whole: a directory that went through the loop body is held, its files are
  held, and its subdirectories are seen, being visited, or on the stack; and a directory being
  visited has its Exit on the stack. When the stack is empty, nothing is being visited, so `seen` is a closed tree that contains
  the root (`WalkEnds`).
- `WalkBounded`, why it is acyclic and within the limits: the subdirectories of a directory being visited are seen or above its Exit, so when that Exit is
  on top they are all seen, and a directory that is added after its subdirectories closes no cycle (`AddAcyclic`); `seen` and `visiting` are disjoint, so
  their cardinalities, which the code adds, are the number of directories entered, and an Exit does not change the sum (`BoundedExit`).
- `StaysWithin` and `Descends`, why nothing else is refused: what is on the stack lies in every closed tree that contains the root, and below the top of the stack
  the directories being visited descend from one another. That path is what a refusal for a cycle needs: a directory met again while being visited is
  reached from itself, so no acyclic tree contains it. The limit is right because `seen` and `visiting` are disjoint subsets of every such tree (`NoneRefused`).

**`validate_tree` by itself** (`TreeValidationProofs`). The module takes the lemmas through an INSTANCE whose `Content` is the variable `content`, and shows
that its walk is the model's, which is another instance (`SameWalks`, `SameTests`).

- `TreeInductive` (`TreeSafe`: the three of the walk, and that a refusal is right when it is made) starts from `AnyTree`: any parse of any finite set of digests, any objects missing or
  oversized, any limit and any root, not only the graphs `Init` enumerates. From it `AnyVerdictRight` (`VerdictRight`), and, since the graphs of `Init` are
  such inputs, `VerdictsRight`: `Spec => []VerdictRight`.
- `TurnsAdvance`: every turn ends the walk, pops a visit, or enters a directory never entered before and pushes one visit per entry. With finitely many
  digests this is the argument for termination; that the walk ends (`WalkEnds`, a liveness property) is checked by TLC.

**The service** (`CacheServiceProofs`).

- `TypeCorrect`: `SafeSpec => []TypeOK`. Besides shapes it says that a handler past a
  point has what it needed to get there (a walk with a current directory, a metadata digest).
- `Inductive`: `SafeSpec => []CheckedStaysChecked`, and from it
  `CommittedComplete`: `SafeSpec => []ResultsComplete`. `ResultsComplete` is not inductive: nothing in it says why
  the result about to be committed is complete. `CheckedStaysChecked` adds what each handler has established at each await
  (`HandlerOK`), for the walk in particular (`WalkOK`); an empty stack leaves the witness `TreeComplete` asks for.
  `StorageOK` says that rows name stored objects with the right bytes.
  Every fact is of the form "is held", so it survives other handlers because held sets only grow (`HandlerMonotone`,
  `CompleteMonotone`), and a restart loses handlers and results together.
- `LimitsInductive` (`LimitsKept`), the other half of `ResultsComplete`: at each await a publication has parsed nothing too large and its walk satisfies `WalkBounded`
  (`HandlerBounded`), so what it commits is `WithinLimits`. None of this speaks of the stores, which is why it carries over to retention.
- `AnswersInductive` (`AnswersKept`): what a handler has answered stays true. The one fact the code does not spell out
  is that a handler which lost the race for an entry finds an entry when it looks for it. From it and `StorageOK`: `PublicationsHonest`
  (`AnswersHold`), `UploadsReadable` (`AcknowledgedReadable`), `RowsHaveObjects` (`SkippedStored`), `ReadsExact` (`ServedBytesMatch`: of stores whose
  objects are there whole or not at all; with a lifecycle rule and Azure's copies `RowsServeWhole` is what is left of it).
- `CreatorsApart`: `SafeSpec => []CreatedOnce`, because who was told "created" knows that the object is there (`CreatorsStored`), and nothing is persisted over it.
- `ImplementsActionCache`: `SafeSpec => KeepsPromise`, the refinement of `ActionCache`, step by step. The commit of the in-memory store, and on PostgreSQL an INSERT
  that took effect, heard of or not, or the read after one that did not, is the abstract decision; every other step is a stutter or a failure.
  That the decision takes a complete result is `CheckedStaysChecked`.
- `RefusalsDeserved`: `SafeSpec => RejectionDeserved`. The step that refuses has to be shown right for each check, so the handler must have looked at nothing
  but its own result (`LooksOK`): `StaysWithin` and `Descends` for the walk, and the streams and files it still needs are those of its metadata and its directory.

**Retention** (`CacheServiceProofs` too, on top of the service's lemmas).

- `RetentionTypes` (`RTypeOK`), and `SweepInductive` (`SweepOK`): the rows an open sweep has yet to delete are taken off its list when they are renewed, those it has deleted stay old, because whoever would
  write them waits for its locks, and the results it looked at and kept do not dangle, because rows and results otherwise only grow.
  From it `SweptResultsWhole` (`SweepLeavesNoDangling`) and `SweepSparesYoung` (`SweptRowsOld`).
- `CommittedBoundedWhileExpiring` (`ResultsBounded`): a result can be committed after a blob of it has gone (section 6), but never one that is over the limits or whose tree has a cycle.
- `WriteOnceWhileSweeping`: `RSafeSpec => KeepsWriteOnce`, the refinement of `ActionCache!EvictingSpec`.

**Manifests** (`ManifestProofs`).

- `MergesNeverLost`: `SafeSpec => []NoLostUpdate`. Inductive with `RequestsGrow`: every request ever sent replaces a manifest by a
  superset, so one that still applies, however late, removes nothing. This covers the case where a manifest returns to an
  earlier value after a sweep.
- `SweepSparesFresh`: `SafeSpec => SweptManifestsOld`, from `SweepHoldsOldRows`: rows an open sweep deletes
  stay old, because whoever would write them waits.

**Pack upload** (`PackProofs`).

- `PackInductive` (`PackInv`) relates three things that move at different speeds: the bytes of the body, the reader, and the handler. `ReaderHas` ties the reader's position and
  header to the layout of the body; `Path` says that the events between reader and handler lead, one stage after another, from where the handler is to where the reader is,
  so that a handler behind a queue of events is at a place the reader has been, whatever the chunks were. `LedgerOK` ties rows, objects and counts to the frames handled.
- From it `ChunkingImmaterial` (`ChunksDoNotMatter`), `ReceiptsComplete`, `OnlyVerifiedRegistered` (`RegisteredVerified`), `NeverMoreThanDeclared` (`WithinDeclared`).
- Where a frame starts is a sum over the frames before it. What that recursive function computes is proved too (`PayloadAdds`, `StartAdds`, `LayoutGrows`): the induction is written out as
  an argument about the least number for which the claim fails, which needs no induction rule with an operator as its parameter.

**Queries and pack download** (`DownloadProofs`).

- The lemmas say what `Kept`, `Dedup` and `Join` return for every list: which elements, in what order, and that no element is repeated (`KeptFacts`, `DedupFacts`, `JoinFacts`).
- `QueriesAnswerExactly`: `DSafeSpec => QueriesExact`, with the invariant `Looking`: the looks a batch has taken and the looks to come share no action, and what was there throughout is behind one or the other.
- `DownloadsInductive` (`DownloadInv`): a pack's frames are those of its first entries, all but the last whole (`FramesOK`); what was sent is exactly these
  (`SentOK`); the blob being sent was found and fits (`ReadsOK`); a guard is live exactly while its stream is, and the counters are the cardinalities of the guards (`Counted`).
- `GaugeExact` (`GuardExact`) follows by counting. `LengthTells` (`LengthTellsWhole`) follows because the bytes due grow strictly with
  every frame (`DueGrows`), an empty blob's included: hence the assumption that a header has at least one byte.

**Azure** (`AzurePutProofs`).

- `PutsInductive` (`ZInv`): what a put knows of its temporary key, its copy and the destination at each await; from it `RowsServeWhole` (`ServesWholeUnlessExpired`).
- `ImplementsBlobStore`: `ZSafeSpec => ImplementsPut`, the refinement of `BlobStore`, step by step. A put appears to create the blob when Azure makes the copy it asked for,
  which may be while the put waits, after it gave up, or in the very step that asks for it (an empty blob is always put in one step).

**Authorisation** (`AuthorizerProofs`).

- `AuthorizerInductive`: mutual exclusion of refreshes, the cooldown that the holder saw over is still over when it records its attempt, the response it holds is no older than the cache
  (`RefreshOK`), and a request reaches the keys only when nothing else could decide it (`AsksOK`). From it `KeysTypeCorrect`, `RefreshesSpaced` (`FetchesSpaced`) and
  `KeySetsAdvance` (`KeysNeverRegress`).
- `AnswersDeserved` (`AnswerDeserved`), for any grants, rules and patterns. The core is that the code's matching of a pattern by its prefix is what `Covers` says without saying how, and that a name whose components
  `valid_namespace` accepts is a `PlainName` (`ValidIsPlain`).
  The proof failed for an earlier statement in which any listing of a static token granted access; the code takes the first, and the statement now says so.

The assumptions are the named `ASSUME`s of the modules, and TLC evaluates each of them: `None`, which stands for `Option::None`, is none of the values it is told apart from;
`Content` and `Size` are functions on digests; limits, ages and lengths are naturals, the polls, the window, the format's lengths and the refresh age not 0; digests and packs are finitely many;
requests and setups are built from the sets they are about.

**Only model-checked:** everything with fairness (`*Settles`, `*End(s)`, `StaleRowsGo`, `EveryWorkerMerges`, `RequestsAnswered`, `KeysConverge`, `AcceptedCopyArrives`), which is out of
the prover's reach.

## 5. Not modelled

- The start-up fetch of the OIDC provider (three attempts, the discovery document): it only decides whether the server starts. `Init` is the state
  after it.
- Signature, audience and time checks of tokens, hashing, JSON canonicalisation, finding a defect in the strings of a document (`model.rs`): what they decide
  is a constant of the models.
- A statement that is still running in PostgreSQL when the server that sent it has died or given up on it: a failed statement has had its effect by then, or has none.
- Multipart uploads and credentials of the object stores.
- Configuration, routing, body limits; counters and histograms other than the pack guard's and the result queries'.
- `digest.size as i64` on registration: sizes over `max_blob_bytes` are refused before the cast. Look-ups of such sizes are modelled.

## 6. Where code and words differ

The first two are runs in which TLC finds the stated sentence violated.

- `dangling`: `src/src/metadata/postgres.rs:90` says the sweep is one transaction "so no reader sees a result whose blobs
  this sweep has already removed". The publication's checks are not part of any transaction: rows are looked up, the sweep commits, the
  publication inserts its result, and readers see it until the next sweep. What does hold is
  `SweepLeavesNoDangling`.
- `unverified`: `src/README.md:257` says the server "verifies uploaded content and every blob reachable from result metadata and
  output trees before publishing an action result". Files, stdout and stderr are looked up as rows only
  (`require_blob`), and a row can outlive its object.

Other things the models made visible, each a behaviour they contain:

- `src/src/metadata/postgres.rs:192` names "the one case" in which a row's age cannot follow its object's. An upload
  that wrote the object and failed to register, then a retry, is another: the row stays older than the object, and a sweep takes it early.
  The cost is one repeated upload. The other way round, an outcome of a put that is out of date when it is registered makes a row that names nothing; it
  ages out (`StaleRowsGo`).
- A publisher that is told 500 may have published its result: the INSERT took effect and its answer was lost. Its retry is answered 204.
- When the answer to Copy Blob is lost, `AzureStore::put` deletes the source (`azure.rs:158`), though Azure may have accepted the copy, which the
  comment at `azure.rs:144` keeps the source for. The destination can then stay empty, and every put of that digest waits its 60 seconds and
  fails until the blob expires. No put reports success meanwhile (`ImplementsPut`).
- `get_blob` serves whatever length the object has. Under a row that outlived its object, while a new copy is pending, that is an
  empty body; `pack_blobs` compares lengths and ends the stream instead.
- A pack whose last byte has been sent may be counted as "cancelled", if the transport drops the body there instead of polling it again; and
  an error after the last byte is possible. The bytes are whole in both cases, which is why `LengthTellsWhole` speaks of bytes.
- A request whose refresh fails is refused by the `known_key` it read before, even if another task has installed its key meanwhile.

Two comments in `src/src/pack.rs` are loose rather than wrong about behaviour anyone relies on: lines 28-29 say a bad pack is
rejected "rather than storing part of it", while the handler keeps the frames before the defect, as its own comment
says; line 83 says `blobs()` counts frames read in full, and it counts started ones.

## 7. Plan

Done, in this order: data and walk, the service, its invariant and proofs, retention and the sweep, tree validation, manifests and
their proofs, pack upload, OIDC keys, authorisation, queries and pack download, the Azure store; then the proofs of every safety property of these and the verdict of
`validate_tree` on any graph; last, statements that take effect and err, the locks of single rows and deadlocks, and the schemas' defects.

What could follow: a ranking of the steps of each handler, as `TurnsAdvance` is for the walk, so that the liveness properties rest on proved action properties
wherever fairness itself is out of the prover's reach.
