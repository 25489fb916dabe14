---------------------------- MODULE CacheQueries ----------------------------
(***************************************************************************)
(* The read-only endpoints of one namespace, blobs:missing, action-results *)
(* and action-results:batch, while uploads, publications, expiry and the   *)
(* sweep change the stores.  memory:// answers a batch by one look-up after*)
(* another; PostgreSQL answers every query in one statement, of the digests*)
(* whose size a bigint can hold.                                           *)
(*                                                                         *)
(* The stores are the environment: CacheService and CacheRetention say how *)
(* they come to change.  objects[d] is the length of the stored object,    *)
(* which is not Size[d] while an Azure copy is pending.                    *)
(***************************************************************************)
EXTENDS Naturals, FiniteSets, Sequences, SequencesExt

CONSTANTS
    Digests,
    Size,              \* the size each digest declares
    Unrepresentable,   \* the digests whose size does not fit a bigint
    Queries,           \* query handlers
    MaxBatch,          \* MAX_BATCH_ITEMS
    Setups,            \* [backend, clients, asks, stored, published]: a metadata store,
                       \* the handlers at work, the digest lists they are sent, the blobs
                       \* and the results that come and go meanwhile
    None

ASSUME SizeAssumption == Size \in [Digests -> Nat]
ASSUME SetupsAssumption ==
    \A s \in Setups :
        /\ s.backend \in {"memory", "postgres"}
        /\ s.asks \subseteq Seq(Digests)
        /\ s.stored \subseteq Digests /\ s.published \subseteq Digests

VARIABLES
    setup,     \* the setup in force
    rows,      \* namespace_blobs
    objects,   \* the length of each stored object, or None
    results,   \* the actions that have a result
    query      \* each query handler

stores == <<rows, objects, results>>

IdleQuery == [pc |-> "idle", kind |-> None, ask |-> <<>>, left |-> <<>>, answer |-> <<>>,
              hits |-> 0, misses |-> 0, held |-> {}]

QueriesInit ==
    /\ setup \in Setups
    /\ rows = {}
    /\ objects = [d \in Digests |-> None]
    /\ results = {}
    /\ query = [q \in Queries |-> IdleQuery]

-----------------------------------------------------------------------------
(* The metadata store's look-ups. *)

Indexes(seq) == [i \in DOMAIN seq |-> i]

(* The members of seq that are in the set, in their order. *)
Kept(seq, set) ==
    LET kept[n \in 0 .. Len(seq)] ==
            IF n = 0 THEN <<>>
            ELSE IF seq[n] \in set THEN Append(kept[n - 1], seq[n]) ELSE kept[n - 1]
    IN  kept[Len(seq)]

(* The first occurrences, which `if seen.insert(digest)` lets through. *)
Firsts(seq) == {i \in DOMAIN seq : \A j \in 1 .. i - 1 : seq[j] # seq[i]}
Pick(seq, indexes) == [i \in DOMAIN indexes |-> seq[indexes[i]]]
Dedup(seq) == Pick(seq, Kept(Indexes(seq), Firsts(seq)))

representable_digests(seq) == Kept(seq, Digests \ Unrepresentable)

(* The indexes whose digests have a row, as the statement's ordinals. *)
Ordinals(seq, table) == Kept(Indexes(seq), {i \in DOMAIN seq : seq[i] \in table})

(* Mutation: the ordinals are taken for indexes of the unfiltered list. *)
Join_shifted(seq, table) == Pick(seq, Ordinals(representable_digests(seq), table))

(* The statement returns ordinals, which index the list that was sent. *)
Join(seq, table) ==
    LET sent == representable_digests(seq) IN Pick(sent, Ordinals(sent, table))

visible_blobs(seq) ==
    IF setup.backend = "memory" THEN Kept(seq, rows) ELSE Join(seq, rows)

-----------------------------------------------------------------------------
Begin(q, record) ==
    /\ q \in setup.clients /\ query[q].pc = "idle"
    /\ query' = [query EXCEPT ![q] = record]
    /\ UNCHANGED <<setup, stores>>

(* One query, so its answer is made in one step. *)
missing_blobs(q, seq) ==
    LET visible == ToSet(visible_blobs(seq)) IN
    Begin(q, [IdleQuery EXCEPT
        !.pc = IF Len(seq) > MaxBatch THEN "rejected" ELSE "answered",
        !.kind = "missing", !.ask = seq,
        !.answer = IF Len(seq) > MaxBatch THEN <<>>
                   ELSE Kept(seq, Digests \ visible)])

(* The size of the action is cast to i64: one that does not fit becomes    *)
(* negative, which no published row has.                                   *)
get_action_result(q, a) ==
    Begin(q, [IdleQuery EXCEPT
        !.pc = "answered", !.kind = "get", !.ask = <<a>>,
        !.answer = IF a \in results THEN <<a>> ELSE <<>>,
        !.hits = IF a \in results THEN 1 ELSE 0,
        !.misses = IF a \in results THEN 0 ELSE 1])

(* Mutation: repeated actions are looked up again. *)
batch_action_results_repeats(q, seq) ==
    Begin(q, [IdleQuery EXCEPT
        !.pc = IF Len(seq) > MaxBatch THEN "rejected" ELSE "lookup",
        !.kind = "batch", !.ask = Dedup(seq), !.left = seq,
        !.held = results \cap ToSet(seq)])

batch_action_results(q, seq) ==
    Begin(q, [IdleQuery EXCEPT
        !.pc = IF Len(seq) > MaxBatch THEN "rejected" ELSE "lookup",
        !.kind = "batch", !.ask = Dedup(seq), !.left = Dedup(seq),
        !.held = results \cap ToSet(seq)])

Answer(q, found) ==
    query' = [query EXCEPT ![q].pc = "answered", ![q].left = <<>>, ![q].answer = found,
                           ![q].hits = Len(found), ![q].misses = Len(query[q].ask) - Len(found)]

(* MetadataStore::get_batch, the loop of the trait ... *)
memory_get_batch(q) ==
    LET seq == query[q].left
        found == query[q].answer
    IN  /\ setup.backend = "memory" /\ query[q].pc = "lookup"
        /\ \/ /\ seq # <<>>
              /\ query' = [query EXCEPT ![q].left = Tail(seq),
                    ![q].answer = IF Head(seq) \in results THEN Append(@, Head(seq)) ELSE @]
           \/ seq = <<>> /\ Answer(q, found)
        /\ UNCHANGED <<setup, stores>>

(* ... and PostgreSQL's one statement. *)
postgres_get_batch(q) ==
    /\ setup.backend = "postgres" /\ query[q].pc = "lookup"
    /\ Answer(q, Join(query[q].left, results))
    /\ UNCHANGED <<setup, stores>>

query_fails(q) ==
    /\ query[q].pc = "lookup"
    /\ query' = [query EXCEPT ![q] = [IdleQuery EXCEPT !.pc = "failed"]]
    /\ UNCHANGED <<setup, stores>>

-----------------------------------------------------------------------------
(* The environment.  `held` follows what a batch in progress asked for and *)
(* was there all the time (history).                                       *)

upload(d) ==
    /\ d \notin Unrepresentable
    /\ rows' = rows \cup {d}
    /\ objects' = [objects EXCEPT ![d] = Size[d]]
    /\ UNCHANGED <<setup, results, query>>

(* Azure has accepted a copy and not made it: an empty object. *)
copy_pending(d) ==
    /\ d \notin Unrepresentable /\ objects[d] = None
    /\ objects' = [objects EXCEPT ![d] = 0]
    /\ UNCHANGED <<setup, rows, results, query>>

expire(d) ==
    /\ objects[d] # None
    /\ objects' = [objects EXCEPT ![d] = None]
    /\ UNCHANGED <<setup, rows, results, query>>

publish(a) ==
    /\ a \notin results \cup Unrepresentable
    /\ results' = results \cup {a}
    /\ UNCHANGED <<setup, rows, objects, query>>

(* Only PostgreSQL is swept. *)
sweep(d) ==
    /\ setup.backend = "postgres"
    /\ rows' = rows \ {d}
    /\ results' = results \ {d}
    /\ query' = [q \in Queries |-> [query[q] EXCEPT !.held = @ \ {d}]]
    /\ UNCHANGED <<setup, objects>>

Environment ==
    \/ \E d \in setup.stored : upload(d) \/ copy_pending(d) \/ expire(d)
    \/ \E a \in setup.published : publish(a)
    \/ \E d \in rows \cup results : sweep(d)

QueryStep(q) == memory_get_batch(q) \/ postgres_get_batch(q)

QueryNext(q) ==
    \/ \E seq \in setup.asks : missing_blobs(q, seq) \/ batch_action_results(q, seq)
    \/ \E a \in setup.published : get_action_result(q, a)
    \/ QueryStep(q)
    \/ query_fails(q)

-----------------------------------------------------------------------------
(* At the step that answers: blobs:missing lists, in the client's order and*)
(* repetitions, what the namespace has no row for, sizes PostgreSQL cannot *)
(* hold included; a batch has each result at most once, every one that was *)
(* there throughout and none that is not there now, though the in-memory   *)
(* store looks at different moments; and the hits and misses it counts are *)
(* the distinct actions asked for.                                         *)
QueriesExact ==
    [][\A q \in Queries :
        LET after == query'[q] IN
        query[q].pc # "answered" /\ after.pc = "answered" =>
            /\ after.kind = "missing" =>
                    after.answer = Kept(after.ask, Digests \ rows)
            /\ after.kind # "missing" =>
                    /\ IsInjective(after.answer)
                    /\ after.held \subseteq ToSet(after.answer)
                    /\ ToSet(after.answer) \subseteq results \cap ToSet(after.ask)
                    /\ after.hits = Len(after.answer)
                    /\ after.hits + after.misses = Cardinality(ToSet(after.ask))
      ]_<<setup, stores, query>>
=============================================================================
