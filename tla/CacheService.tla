---------------------------- MODULE CacheService ----------------------------
(***************************************************************************)
(* The HTTP handlers that change the cache: put_blob, put_action_result    *)
(* and get_blob, over a metadata store (namespace_blobs and action_results)*)
(* and a blob store.  Every handler is a task of the server; it is split   *)
(* at its awaits, one action per query or object-store call, with the      *)
(* local computation that follows the call folded into it.  A handler can  *)
(* stop at any await: the query failed, with or without its effect, the    *)
(* client went away and the task was dropped, or the process died.         *)
(*                                                                         *)
(* Of the object stores this is the filesystem and S3, whose objects are   *)
(* there whole or not at all; AzurePut shows what its copies add.          *)
(*                                                                         *)
(* Requests refused before they touch a store (authorisation, a missing    *)
(* If-None-Match, a body that does not match its path) are left out.       *)
(***************************************************************************)
EXTENDS DirectoryWalk

CONSTANTS
    Publishers,   \* concurrent put_action_result handlers
    Uploaders,    \* concurrent put_blob handlers
    Readers,      \* concurrent get_blob handlers
    Backend       \* "memory" or "postgres"

ASSUME BackendAssumption == Backend \in {"memory", "postgres"}
(* Option::None is no result, no request and no outcome of a put. *)
ASSUME OptionAssumption ==
    \A result \in Results : /\ result # None
                            /\ \A n \in Namespaces : [ns |-> n, result |-> result] # None
ASSUME NoneIsNoOutcome == None # "created"

VARIABLES
    objects,  \* blob store: the bytes stored under each digest's key
    rows,     \* namespace_blobs: the digests each namespace holds
    results,  \* action_results: what each namespace has published per action
    pub,      \* each put_action_result handler
    walk,     \* each put_action_result handler's validate_tree locals
    up,       \* each put_blob handler
    read      \* each get_blob handler

stores == <<objects, rows, results>>
vars == <<objects, rows, results, pub, walk, up, read>>

PubSettled == {"idle", "created", "exists", "conflict", "rejected", "failed"}
PubRunning == {"descriptor", "descriptorGet", "metadata", "metadataGet", "outputs",
               "tree", "directoryGet", "files", "compare"}
UpSettled == {"idle", "created", "exists", "rejected", "failed"}
UpRunning == {"put", "persist", "register"}
ReadSettled == {"idle", "served", "missing", "failed"}
ReadRunning == {"touch", "get"}

IdlePub == [pc |-> "idle", ns |-> None, result |-> None, kind |-> None, need |-> <<>>]
IdleUp == [pc |-> "idle", ns |-> None, digest |-> None, bytes |-> None, stored |-> None]
IdleRead == [pc |-> "idle", ns |-> None, digest |-> None, bytes |-> None]

Init ==
    /\ objects = [d \in Digests |-> None]
    /\ rows = [n \in Namespaces |-> {}]
    /\ results = [n \in Namespaces |-> [a \in Digests |-> None]]
    /\ pub = [p \in Publishers |-> IdlePub]
    /\ walk = [p \in Publishers |-> NoWalk]
    /\ up = [u \in Uploaders |-> IdleUp]
    /\ read = [g \in Readers |-> IdleRead]

-----------------------------------------------------------------------------
(* put_blob: the body is spooled and hashed, and refused unless it is what *)
(* the path declares; then it is put, then registered.                     *)

(* Mutation: the body is not compared with the digest. *)
put_blob_unverified(u, n, d, bytes) ==
    /\ up[u].pc \in UpSettled
    /\ up' = [up EXCEPT ![u] = [pc |-> "put", ns |-> n, digest |-> d,
                                bytes |-> bytes, stored |-> None]]
    /\ UNCHANGED <<stores, pub, walk, read>>

put_blob(u, n, d, bytes) ==
    /\ up[u].pc \in UpSettled
    /\ \/ /\ bytes = d
          /\ up' = [up EXCEPT ![u] = [pc |-> "put", ns |-> n, digest |-> d,
                                      bytes |-> bytes, stored |-> None]]
       \/ /\ bytes # d
          /\ up' = [up EXCEPT ![u] = [IdleUp EXCEPT !.pc = "rejected"]]
    /\ UNCHANGED <<stores, pub, walk, read>>

(* BlobStore::put looks for the object first ... *)
blobs_put(u) ==
    /\ up[u].pc = "put"
    /\ up' = IF objects[up[u].digest] = None
             THEN [up EXCEPT ![u].pc = "persist"]
             ELSE [up EXCEPT ![u].pc = "register", ![u].stored = "exists"]
    /\ UNCHANGED <<stores, pub, walk, read>>

Write(u) == objects' = [objects EXCEPT ![up[u].digest] = up[u].bytes]

(* Mutation: the staged file is renamed over whatever is there. *)
persist_noclobber_replaces(u) ==
    /\ up[u].pc = "persist"
    /\ Write(u)
    /\ up' = [up EXCEPT ![u].pc = "register", ![u].stored = "created"]
    /\ UNCHANGED <<rows, results, pub, walk, read>>

(* Mutation: the outcome of the put is not passed on. *)
persist_noclobber_unreported(u) ==
    /\ up[u].pc = "persist"
    /\ objects[up[u].digest] = None /\ Write(u)
    /\ up' = [up EXCEPT ![u].pc = "register"]
    /\ UNCHANGED <<rows, results, pub, walk, read>>

(* ... and writes its own only if there is still none: what came up in the *)
(* meantime is not replaced.  S3's client repeats a request whose answer   *)
(* it lost, and the put is then told that its own object exists.           *)
persist_noclobber(u) ==
    /\ up[u].pc = "persist"
    /\ \/ /\ objects[up[u].digest] = None /\ Write(u)
          /\ \E told \in {"created", "exists"} :
                up' = [up EXCEPT ![u].pc = "register", ![u].stored = told]
       \/ /\ objects[up[u].digest] # None
          /\ up' = [up EXCEPT ![u].pc = "register", ![u].stored = "exists"]
          /\ UNCHANGED objects
    /\ UNCHANGED <<rows, results, pub, walk, read>>

Register(u) == rows' = [rows EXCEPT ![up[u].ns] = @ \cup {up[u].digest}]

register_blob(u) ==
    /\ up[u].pc = "register" /\ Register(u)
    /\ up' = [up EXCEPT ![u].pc = up[u].stored]
    /\ UNCHANGED <<objects, results, pub, walk, read>>

(* Mutation: a failed upload takes its object back. *)
upload_fails_undoes(u) ==
    /\ up[u].pc \in UpRunning
    /\ objects' = [objects EXCEPT ![up[u].digest] = None]
    /\ up' = [up EXCEPT ![u] = [IdleUp EXCEPT !.pc = "failed"]]
    /\ UNCHANGED <<rows, results, pub, walk, read>>

upload_fails(u) ==
    /\ up[u].pc \in UpRunning
    /\ up' = [up EXCEPT ![u] = [IdleUp EXCEPT !.pc = "failed"]]
    /\ UNCHANGED <<stores, pub, walk, read>>

(* The upsert took effect, and its answer is an error or finds nobody.  (A *)
(* put that took effect and then fails is one that fails before the upsert;*)
(* memory:// registers under a lock and has no answer to lose.)            *)
register_unheard(u) ==
    /\ Backend = "postgres"
    /\ up[u].pc = "register" /\ Register(u)
    /\ up' = [up EXCEPT ![u] = [IdleUp EXCEPT !.pc = "failed"]]
    /\ UNCHANGED <<objects, results, pub, walk, read>>

-----------------------------------------------------------------------------
(* put_action_result: descriptor, shape, metadata, tree, commit. *)

Goto(p, pc) == pub' = [pub EXCEPT ![p].pc = pc]

Settle(p, outcome) ==
    /\ pub' = [pub EXCEPT ![p].pc = outcome, ![p].kind = None, ![p].need = <<>>]
    /\ walk' = [walk EXCEPT ![p] = NoWalk]

Reject(p) == Settle(p, "rejected") /\ UNCHANGED stores

put_action_result(p, n, result) ==
    /\ pub[p].pc \in PubSettled
    /\ pub' = [pub EXCEPT ![p] = [IdlePub EXCEPT !.pc = "descriptor",
                                                 !.ns = n, !.result = result]]
    /\ walk' = [walk EXCEPT ![p] =
                    IF result.root = None THEN NoWalk ELSE StartWalk(result.root)]
    /\ UNCHANGED <<stores, up, read>>

Visible(p, d) == d \in rows[pub[p].ns]

(* read_canonical_object, up to its row look-up. *)
LookUp(p, from, d, to) ==
    /\ pub[p].pc = from
    /\ \/ /\ d \notin Oversized /\ Visible(p, d)
          /\ Goto(p, to)
          /\ UNCHANGED <<stores, walk>>
       \/ /\ d \in Oversized \/ ~Visible(p, d)
          /\ Reject(p)
    /\ UNCHANGED <<up, read>>

descriptor_visible(p) == LookUp(p, "descriptor", pub[p].result.action, "descriptorGet")

(* The object is read and parsed; validate_action_result_shape is local. *)
descriptor_get(p) ==
    LET result == pub[p].result
        bytes == objects[result.action]
        valid == /\ bytes # None
                 /\ IsDescriptor(bytes)
                 /\ HasShape(result, Content[bytes].kind)
    IN  /\ pub[p].pc = "descriptorGet"
        /\ \/ /\ valid
              /\ pub' = [pub EXCEPT
                    ![p].pc = IF result.metadata = None THEN "tree" ELSE "metadata",
                    ![p].kind = Content[bytes].kind]
              /\ UNCHANGED <<stores, walk>>
           \/ ~valid /\ Reject(p)
        /\ UNCHANGED <<up, read>>

metadata_visible(p) == LookUp(p, "metadata", pub[p].result.metadata, "metadataGet")

metadata_get(p) ==
    LET bytes == objects[pub[p].result.metadata]
        valid == bytes # None /\ IsMetadataOf(bytes, pub[p].kind)
    IN  /\ pub[p].pc = "metadataGet"
        /\ \/ /\ valid
              /\ pub' = [pub EXCEPT ![p].pc = "outputs", ![p].need = Content[bytes].blobs]
              /\ UNCHANGED <<stores, walk>>
           \/ ~valid /\ Reject(p)
        /\ UNCHANGED <<up, read>>

(* One look-up per stdout, stderr or file, in order; only the row counts. *)
require_blob(p) ==
    /\ pub[p].pc \in {"outputs", "files"}
    /\ pub[p].need # <<>>
    /\ \/ /\ Visible(p, Head(pub[p].need))
          /\ pub' = [pub EXCEPT ![p].need = Tail(@)]
          /\ UNCHANGED <<stores, walk>>
       \/ ~Visible(p, Head(pub[p].need)) /\ Reject(p)
    /\ UNCHANGED <<up, read>>

outputs_present(p) ==
    /\ pub[p].pc = "outputs" /\ pub[p].need = <<>>
    /\ Goto(p, "tree")
    /\ UNCHANGED <<stores, walk, up, read>>

(* validate_tree, the visits that make no call. *)
skip_visit(p) ==
    /\ pub[p].pc = "tree" /\ walk[p].pending # <<>>
    /\ SkipsTop(walk[p])
    /\ walk' = [walk EXCEPT ![p] = SkipTop(@)]
    /\ UNCHANGED <<stores, pub, up, read>>

(* validate_tree, an Enter up to its row look-up. *)
enter_directory(p) ==
    LET refused == RefusesTop(walk[p]) \/ ~Visible(p, Top(walk[p].pending).dir)
    IN  /\ pub[p].pc = "tree" /\ walk[p].pending # <<>>
        /\ ~SkipsTop(walk[p])
        /\ \/ /\ ~refused
              /\ walk' = [walk EXCEPT ![p] = EnterTop(@)]
              /\ Goto(p, "directoryGet")
              /\ UNCHANGED stores
           \/ refused /\ Reject(p)
        /\ UNCHANGED <<up, read>>

directory_get(p) ==
    LET bytes == objects[walk[p].current]
        valid == bytes # None /\ IsDirectory(bytes)
    IN  /\ pub[p].pc = "directoryGet"
        /\ \/ /\ valid
              /\ pub' = [pub EXCEPT ![p].pc = "files", ![p].need = Content[bytes].blobs]
              /\ UNCHANGED <<stores, walk>>
           \/ ~valid /\ Reject(p)
        /\ UNCHANGED <<up, read>>

leave_directory(p) ==
    /\ pub[p].pc = "files" /\ pub[p].need = <<>>
    /\ walk' = [walk EXCEPT ![p] = LeaveCurrent(@, Content[walk[p].current].dirs)]
    /\ Goto(p, "tree")
    /\ UNCHANGED <<stores, up, read>>

Validate(p) ==
    \/ descriptor_visible(p) \/ descriptor_get(p)
    \/ metadata_visible(p) \/ metadata_get(p)
    \/ require_blob(p) \/ outputs_present(p)
    \/ skip_visit(p) \/ enter_directory(p) \/ directory_get(p) \/ leave_directory(p)

(* Every check has passed: the metadata is done and the stack is empty. *)
Validated(p) == pub[p].pc = "tree" /\ walk[p].pending = <<>>

Stored(p) == results[pub[p].ns][pub[p].result.action]

Insert(p) ==
    results' = [results EXCEPT ![pub[p].ns][pub[p].result.action] = pub[p].result]

(* Mutation: any existing entry is taken for the same one. *)
memory_commit_assumes(p) ==
    /\ Backend = "memory" /\ Validated(p)
    /\ \/ Stored(p) = None /\ Insert(p) /\ Settle(p, "created")
       \/ Stored(p) # None /\ Settle(p, "exists") /\ UNCHANGED results
    /\ UNCHANGED <<objects, rows, up, read>>

(* MemoryMetadata::commit, under one write lock. *)
memory_commit(p) ==
    /\ Backend = "memory" /\ Validated(p)
    /\ \/ Stored(p) = None /\ Insert(p) /\ Settle(p, "created")
       \/ /\ Stored(p) # None
          /\ Settle(p, IF Stored(p) = pub[p].result THEN "exists" ELSE "conflict")
          /\ UNCHANGED results
    /\ UNCHANGED <<objects, rows, up, read>>

(* Mutation: ON CONFLICT DO UPDATE. *)
postgres_insert_updates(p) ==
    /\ Backend = "postgres" /\ Validated(p)
    /\ Insert(p) /\ Settle(p, "created")
    /\ UNCHANGED <<objects, rows, up, read>>

(* PostgresMetadata::commit: INSERT ... ON CONFLICT DO NOTHING ... *)
postgres_insert(p) ==
    /\ Backend = "postgres" /\ Validated(p)
    /\ \/ Stored(p) = None /\ Insert(p) /\ Settle(p, "created")
       \/ Stored(p) # None /\ Goto(p, "compare") /\ UNCHANGED <<results, walk>>
    /\ UNCHANGED <<objects, rows, up, read>>

(* Mutation: a conflict is answered without reading what was there. *)
postgres_compare_blind(p) ==
    /\ pub[p].pc = "compare"
    /\ Settle(p, "conflict")
    /\ UNCHANGED <<stores, up, read>>

(* ... then, in a second query, a read of what was there. *)
postgres_compare(p) ==
    /\ pub[p].pc = "compare"
    /\ Settle(p, CASE Stored(p) = None -> "failed"
                   [] Stored(p) = pub[p].result -> "exists"
                   [] OTHER -> "conflict")
    /\ UNCHANGED <<stores, up, read>>

Abandon(p) ==
    /\ pub' = [pub EXCEPT ![p] = [IdlePub EXCEPT !.pc = "failed"]]
    /\ walk' = [walk EXCEPT ![p] = NoWalk]

publish_fails(p) ==
    /\ pub[p].pc \in PubRunning
    /\ Abandon(p)
    /\ UNCHANGED <<stores, up, read>>

(* The INSERT took effect, and its answer is an error or finds nobody: the *)
(* result is published behind a 500.                                       *)
insert_unheard(p) ==
    /\ Backend = "postgres" /\ Validated(p)
    /\ Stored(p) = None /\ Insert(p)
    /\ Abandon(p)
    /\ UNCHANGED <<objects, rows, up, read>>

-----------------------------------------------------------------------------
(* get_blob: a row look-up, the access record, then the object. *)

get_blob(g, n, d) ==
    /\ read[g].pc \in ReadSettled
    /\ read' = [read EXCEPT ![g] =
                [pc |-> IF d \in rows[n] THEN "touch" ELSE "missing",
                 ns |-> n, digest |-> d, bytes |-> None]]
    /\ UNCHANGED <<stores, pub, walk, up>>

(* record_blob_access swallows its error: the read goes on either way. *)
record_blob_access(g) ==
    /\ read[g].pc = "touch"
    /\ read' = [read EXCEPT ![g].pc = "get"]
    /\ UNCHANGED <<stores, pub, walk, up>>

blobs_get(g) ==
    LET bytes == objects[read[g].digest] IN
    /\ read[g].pc = "get"
    /\ read' = [read EXCEPT ![g].pc = IF bytes = None THEN "missing" ELSE "served",
                            ![g].bytes = bytes]
    /\ UNCHANGED <<stores, pub, walk, up>>

read_fails(g) ==
    /\ read[g].pc \in ReadRunning
    /\ read' = [read EXCEPT ![g] = [IdleRead EXCEPT !.pc = "failed"]]
    /\ UNCHANGED <<stores, pub, walk, up>>

-----------------------------------------------------------------------------
(* The process stops and starts again.  Handlers are lost; memory:// loses *)
(* its metadata too, while the objects stay in the blob store.             *)
restart ==
    /\ pub' = [p \in Publishers |-> IdlePub]
    /\ walk' = [p \in Publishers |-> NoWalk]
    /\ up' = [u \in Uploaders |-> IdleUp]
    /\ read' = [g \in Readers |-> IdleRead]
    /\ \/ Backend = "postgres" /\ UNCHANGED <<rows, results>>
       \/ /\ Backend = "memory"
          /\ rows' = [n \in Namespaces |-> {}]
          /\ results' = [n \in Namespaces |-> [a \in Digests |-> None]]
    /\ UNCHANGED objects

-----------------------------------------------------------------------------
Commit(p) == memory_commit(p) \/ postgres_insert(p) \/ postgres_compare(p)
PublishStep(p) == Validate(p) \/ Commit(p)
UploadStep(u) == blobs_put(u) \/ persist_noclobber(u) \/ register_blob(u)
ReadStep(g) == record_blob_access(g) \/ blobs_get(g)

Next ==
    \/ \E p \in Publishers :
        \/ \E n \in Namespaces, result \in Submissions : put_action_result(p, n, result)
        \/ PublishStep(p)
        \/ publish_fails(p) \/ insert_unheard(p)
    \/ \E u \in Uploaders :
        \/ \E n \in Namespaces, d, bytes \in Digests : put_blob(u, n, d, bytes)
        \/ UploadStep(u)
        \/ upload_fails(u) \/ register_unheard(u)
    \/ \E g \in Readers :
        \/ \E n \in Namespaces, d \in Digests : get_blob(g, n, d)
        \/ ReadStep(g)
        \/ read_fails(g)
    \/ restart

(* Each handler is a tokio task: it is polled until it returns. *)
Fairness ==
    /\ \A p \in Publishers : WF_vars(PublishStep(p))
    /\ \A u \in Uploaders : WF_vars(UploadStep(u))
    /\ \A g \in Readers : WF_vars(ReadStep(g))

SafeSpec == Init /\ [][Next]_vars
Spec == SafeSpec /\ Fairness

-----------------------------------------------------------------------------
Available(n) == {d \in rows[n] : objects[d] = d}

StoresOK ==
    /\ objects \in [Digests -> Digests \cup {None}]
    /\ rows \in [Namespaces -> SUBSET Digests]
    /\ results \in [Namespaces -> [Digests -> Results \cup {None}]]

PubRecords == [pc : PubSettled \cup PubRunning, ns : Namespaces \cup {None},
               result : Results \cup {None}, kind : Kinds \cup {None},
               need : Seq(Digests)]

PubTyped(r, w) ==
    /\ r \in PubRecords
    /\ w \in Walks
    /\ r.pc \in PubRunning => r.ns \in Namespaces /\ r.result \in Results
    /\ r.pc \in {"metadata", "metadataGet"} => r.result.metadata # None
    /\ r.pc \in {"directoryGet", "files"} => w.current # None

PubOK ==
    /\ pub \in [Publishers -> PubRecords]
    /\ walk \in [Publishers -> Walks]
    /\ \A p \in Publishers : PubTyped(pub[p], walk[p])

UpRecords == [pc : UpSettled \cup UpRunning, ns : Namespaces \cup {None},
              digest : Digests \cup {None}, bytes : Digests \cup {None},
              stored : {"created", "exists", None}]

UpOK ==
    /\ up \in [Uploaders -> UpRecords]
    /\ \A u \in Uploaders :
        /\ up[u].pc \in UpRunning =>
              up[u].ns \in Namespaces /\ up[u].digest \in Digests /\ up[u].bytes # None
        /\ up[u].pc = "register" => up[u].stored \in {"created", "exists"}

ReadOK ==
    /\ read \in [Readers -> [pc : ReadSettled \cup ReadRunning,
                             ns : Namespaces \cup {None},
                             digest : Digests \cup {None},
                             bytes : Digests \cup {None}]]
    /\ \A g \in Readers : read[g].pc \in ReadRunning =>
            read[g].ns \in Namespaces /\ read[g].digest \in Digests

(* The stores and the handlers' locals have the shapes the code gives them,*)
(* and a handler past a point has what it had to have to get there.        *)
TypeOK == StoresOK /\ PubOK /\ UpOK /\ ReadOK

(* A committed result is within the limits: nothing of it that was parsed  *)
(* is too large, and its tree is acyclic and has not too many directories. *)
ResultsBounded ==
    \A n \in Namespaces, a \in Digests : results[n][a] # None => WithinLimits(results[n][a])

(* While nothing expires, a committed result is complete in its namespace: *)
(* put_action_result commits only after every object reachable from the    *)
(* metadata and the output tree was found, and nothing it found goes away. *)
(* It is within the limits besides.                                        *)
ResultsComplete ==
    /\ \A n \in Namespaces, a \in Digests :
        results[n][a] # None =>
            results[n][a].action = a /\ Complete(results[n][a], Available(n))
    /\ ResultsBounded

(* What put_action_result answered stays true of the store: 201 and 204    *)
(* mean that this very result is published, 409 that another one is.       *)
AnswersHold ==
    \A p \in Publishers :
        LET kept == results[pub[p].ns][pub[p].result.action]
        IN  /\ pub[p].pc \in {"created", "exists"} => kept = pub[p].result
            /\ pub[p].pc = "conflict" => kept # None /\ kept # pub[p].result

(* put_blob acknowledges an upload only when any reader of the namespace   *)
(* can have it: the object holds the right bytes and the row names it.     *)
AcknowledgedReadable ==
    \A u \in Uploaders :
        up[u].pc \in {"created", "exists"} => up[u].digest \in Available(up[u].ns)

(* Uploads that meet at one digest: no two of them are told that they      *)
(* created the object, though both found none when they looked.            *)
CreatedOnce ==
    \A u, v \in Uploaders :
        up[u].stored = "created" /\ up[v].stored = "created" /\ u # v =>
            up[u].digest # up[v].digest

(* get_blob serves exactly the bytes that hash to the digest in the path.  *)
ServedBytesMatch ==
    \A g \in Readers : read[g].pc = "served" => read[g].bytes = read[g].digest

(* A 422 is deserved: at the step that refuses a submission it is either   *)
(* incomplete in the namespace or over a limit.  In particular a directory *)
(* shared by two parents is not taken for a cycle.                         *)
RejectionDeserved ==
    [][\A p \in Publishers :
        pub[p].pc \in PubRunning /\ pub'[p].pc = "rejected" =>
            ~ (Complete(pub[p].result, Available(pub[p].ns)) /\ WithinLimits(pub[p].result))
      ]_vars

(* missing_blobs looks at rows only: what it lets a client skip is in the  *)
(* store, whatever uploads of the same digest failed in between.           *)
SkippedStored ==
    \A n \in Namespaces : \A d \in rows[n] : objects[d] # None

(* Every put_action_result handler answers: validate_tree ends whatever    *)
(* graph it is given, and no commit waits for another handler for ever.    *)
PublishSettles ==
    \A p \in Publishers : pub[p].pc \in PubRunning ~> pub[p].pc \in PubSettled

(* Every put_blob and get_blob handler answers. *)
TransfersSettle ==
    /\ \A u \in Uploaders : up[u].pc \in UpRunning ~> up[u].pc \in UpSettled
    /\ \A g \in Readers : read[g].pc \in ReadRunning ~> read[g].pc \in ReadSettled

(* The handlers, their interleavings and their failures included, behave   *)
(* as the write-once map of ActionCache: a publication decides in one step *)
(* (the INSERT, or the read after a conflict), on a complete result; one   *)
(* that is told "failed" may have been decided all the same.               *)
Promise == INSTANCE ActionCache WITH
    held <- [n \in Namespaces |-> Available(n)],
    cache <- results,
    request <- [p \in Publishers |-> IF pub[p].pc \in PubRunning
                    THEN [ns |-> pub[p].ns, result |-> pub[p].result] ELSE None],
    answer <- [p \in Publishers |-> IF pub[p].pc \in PubRunning
                    THEN "idle" ELSE pub[p].pc]

KeepsPromise == Promise!Spec

=============================================================================
