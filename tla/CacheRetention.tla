--------------------------- MODULE CacheRetention ---------------------------
(***************************************************************************)
(* The cache while things expire.  The service runs on PostgreSQL; the     *)
(* object store's lifecycle rule deletes objects older than Retention days *)
(* (external), and `mbx-cache --sweep-metadata-older-than-days SweepAge`   *)
(* runs beside the live server, one transaction at READ COMMITTED.  Its    *)
(* DELETE takes the locks of its rows one by one and keeps them; so does   *)
(* the UPDATE by which a pack download records its accesses.  Statements   *)
(* on a single row lock, write and commit in one step, when the row is     *)
(* free.                                                                   *)
(*                                                                         *)
(* Time is kept as ages.  An age beyond MaxAge changes nothing any more,   *)
(* so ages stop there and the model needs no bound on the calendar.        *)
(***************************************************************************)
EXTENDS CacheService, Integers

CONSTANTS
    Retention,  \* days the lifecycle rule keeps an object
    SweepAge    \* days given to the sweep

ASSUME RetentionAssumption == Retention \in Nat /\ SweepAge \in Nat

VARIABLES
    objectAge,  \* days since each object was written
    rowAge,     \* now() - created_at of each namespace_blobs row
    sweep,      \* the sweep's transaction
    touch       \* each reader's UPDATE of the accesses to a pack of blobs

aging == <<objectAge, rowAge, sweep, touch>>
rvars == <<vars, objectAge, rowAge, sweep, touch>>

MaxAge == (IF Retention > SweepAge THEN Retention ELSE SweepAge) + 1
Older(age) == IF age < MaxAge THEN age + 1 ELSE age

Keys == Namespaces \X Digests

RowKeys == {key \in Keys : key[2] \in rows[key[1]]}

(* todo: the rows the first DELETE has yet to take, and next the one it is *)
(* at; blobs, results: the rows deleted so far, locked and still visible to*)
(* others; checked: the action results the second DELETE looked at.        *)
NoSweep == [pc |-> "idle", todo |-> {}, next |-> None,
            blobs |-> {}, results |-> {}, checked |-> {}]

(* todo: the rows the UPDATE has yet to take; held: those it has locked. *)
NoTouch == [pc |-> "idle", todo |-> {}, next |-> None, held |-> {}]

(* A statement takes its rows in some order, and waits at each of them. *)
Nexts(todo) == IF todo = {} THEN {None} ELSE todo

Touched(key) == \E g \in Readers : key \in touch[g].held

Free(key) == key \notin sweep.blobs /\ ~Touched(key)

RInit ==
    /\ Init
    /\ objectAge = [d \in Digests |-> 0]
    /\ rowAge = [n \in Namespaces |-> [d \in Digests |-> 0]]
    /\ sweep = NoSweep
    /\ touch = [g \in Readers |-> NoTouch]

-----------------------------------------------------------------------------
(* The service's steps that neither write a row nor an object.  A read may *)
(* skip its touch: the row was touched within the hour, or the UPDATE      *)
(* failed.                                                                 *)
quiet_step ==
    /\ \/ \E p \in Publishers :
            \/ \E n \in Namespaces, result \in Submissions : put_action_result(p, n, result)
            \/ Validate(p) \/ postgres_compare(p) \/ publish_fails(p)
       \/ \E u \in Uploaders :
            \/ \E n \in Namespaces, d, bytes \in Digests : put_blob(u, n, d, bytes)
            \/ blobs_put(u) \/ upload_fails(u)
       \/ \E g \in Readers :
            \/ touch[g].pc = "idle" /\ \E n \in Namespaces, d \in Digests : get_blob(g, n, d)
            \/ blobs_get(g) \/ read_fails(g)
            \/ record_blob_access(g)
    /\ UNCHANGED aging

put_object(u) ==
    /\ persist_noclobber(u)
    /\ objectAge' = IF objects[up[u].digest] = None
                    THEN [objectAge EXCEPT ![up[u].digest] = 0] ELSE objectAge
    /\ UNCHANGED <<rowAge, sweep, touch>>

(* The upsert's row: an insert starts at now(), an existing row restarts   *)
(* only if the put wrote, and is then no row of the DELETE's any more.     *)
Renew(n, d, stored) ==
    IF d \notin rows[n] \/ stored = "created"
    THEN /\ rowAge' = [rowAge EXCEPT ![n][d] = 0]
         /\ sweep' = [sweep EXCEPT !.todo = @ \ {<<n, d>>}]
    ELSE UNCHANGED <<rowAge, sweep>>

(* Mutation: the upsert does not wait. *)
upsert_row_unlocked(u) ==
    /\ register_blob(u)
    /\ Renew(up[u].ns, up[u].digest, up[u].stored)
    /\ UNCHANGED <<objectAge, touch>>

(* The upsert waits for whoever holds its row. *)
upsert_row(u) ==
    /\ register_blob(u)
    /\ Free(<<up[u].ns, up[u].digest>>)
    /\ Renew(up[u].ns, up[u].digest, up[u].stored)
    /\ UNCHANGED <<objectAge, touch>>

upsert_unheard(u) ==
    /\ register_unheard(u)
    /\ Free(<<up[u].ns, up[u].digest>>)
    /\ Renew(up[u].ns, up[u].digest, up[u].stored)
    /\ UNCHANGED <<objectAge, touch>>

(* An INSERT on a key whose row is being deleted waits for the deleter. *)
insert_result(p) ==
    /\ postgres_insert(p)
    /\ <<pub[p].ns, pub[p].result.action>> \notin sweep.results
    /\ UNCHANGED aging

insert_result_unheard(p) ==
    /\ insert_unheard(p)
    /\ <<pub[p].ns, pub[p].result.action>> \notin sweep.results
    /\ UNCHANGED aging

(* Mutation: an access restarts the row like an upload. *)
touch_row_renews(g) ==
    /\ record_blob_access(g)
    /\ Free(<<read[g].ns, read[g].digest>>)
    /\ Renew(read[g].ns, read[g].digest, "created")
    /\ UNCHANGED <<objectAge, touch>>

(* touch_blobs for get_blob, when the row was not touched lately; it sets  *)
(* last_accessed_at, by which nothing is swept.                            *)
touch_row(g) ==
    /\ record_blob_access(g)
    /\ Free(<<read[g].ns, read[g].digest>>)
    /\ UNCHANGED aging

(* touch_blobs for a reader that downloads a pack next (the rest of the    *)
(* download is PackDownload's): the UPDATE is at the first of its rows ... *)
touch_blobs(g, n, digests) ==
    /\ read[g].pc \in ReadSettled /\ touch[g].pc = "idle"
    /\ digests # {} /\ digests \subseteq rows[n]
    /\ read' = [read EXCEPT ![g] = IdleRead]
    /\ \E next \in {n} \X digests :
          touch' = [touch EXCEPT ![g] = [NoTouch EXCEPT
                        !.pc = "rows", !.todo = {n} \X digests, !.next = next]]
    /\ UNCHANGED <<stores, pub, walk, up, objectAge, rowAge, sweep>>

(* ... takes one after the other, skipping what a sweep has deleted ...    *)
touch_next(g) ==
    LET todo == touch[g].todo \ {touch[g].next} IN
    /\ touch[g].next # None /\ Free(touch[g].next)
    /\ \E next \in Nexts(todo) :
          touch' = [touch EXCEPT ![g].todo = todo, ![g].next = next,
                                 ![g].held = @ \cup ({touch[g].next} \cap RowKeys)]
    /\ UNCHANGED <<vars, objectAge, rowAge, sweep>>

(* ... and commits. *)
touch_commit(g) ==
    /\ touch[g].pc = "rows" /\ touch[g].next = None
    /\ touch' = [touch EXCEPT ![g] = NoTouch]
    /\ UNCHANGED <<vars, objectAge, rowAge, sweep>>

(* Mutation: a failed touch leaves its transaction open. *)
touch_fails_holding(g) ==
    /\ touch[g].pc = "rows"
    /\ touch' = [touch EXCEPT ![g] = [NoTouch EXCEPT !.held = touch[g].held]]
    /\ UNCHANGED <<vars, objectAge, rowAge, sweep>>

(* The UPDATE fails, is given up with its download or chosen to break a    *)
(* deadlock; record_blob_access swallows the error.                        *)
touch_fails(g) ==
    /\ touch[g].pc = "rows"
    /\ touch' = [touch EXCEPT ![g] = NoTouch]
    /\ UNCHANGED <<vars, objectAge, rowAge, sweep>>

-----------------------------------------------------------------------------
tick ==
    /\ objectAge' = [d \in Digests |->
                        IF objects[d] # None THEN Older(objectAge[d]) ELSE 0]
    /\ rowAge' = [n \in Namespaces |-> [d \in Digests |->
                        IF d \in rows[n] THEN Older(rowAge[n][d]) ELSE 0]]
    /\ UNCHANGED <<vars, sweep, touch>>

(* The lifecycle rule, at some time after the object became due. *)
expire(d) ==
    /\ objects[d] # None /\ objectAge[d] > Retention
    /\ objects' = [objects EXCEPT ![d] = None]
    /\ objectAge' = [objectAge EXCEPT ![d] = 0]
    /\ UNCHANGED <<rows, results, pub, walk, up, read, rowAge, sweep, touch>>

(* DELETE FROM namespace_blobs WHERE created_at < now() - age: the rows    *)
(* its snapshot shows, ...                                                 *)
sweep_blobs ==
    LET old == {key \in RowKeys : rowAge[key[1]][key[2]] > SweepAge} IN
    /\ sweep.pc = "idle"
    /\ \E next \in Nexts(old) :
          sweep' = [NoSweep EXCEPT !.pc = "blobs", !.todo = old, !.next = next]
    /\ UNCHANGED <<vars, objectAge, rowAge, touch>>

(* ... each locked when it is free and deleted if it is still that old. *)
sweep_row ==
    LET todo == sweep.todo \ {sweep.next} IN
    /\ sweep.pc = "blobs" /\ sweep.next # None /\ ~Touched(sweep.next)
    /\ \E next \in Nexts(todo) :
          sweep' = [sweep EXCEPT !.todo = todo, !.next = next,
                                 !.blobs = @ \cup ({sweep.next} \cap sweep.todo)]
    /\ UNCHANGED <<vars, objectAge, rowAge, touch>>

(* A result points nowhere when its metadata or its root has no row; the   *)
(* transaction sees its own deletions.                                     *)
Dangling(n, a, gone) ==
    \E d \in {results[n][a].metadata, results[n][a].root} \ {None} :
        d \notin rows[n] \/ <<n, d>> \in gone

(* Mutation: the results are judged by the rows before the deletion. *)
sweep_action_results_first ==
    /\ sweep.pc = "blobs" /\ sweep.next = None
    /\ LET present == {key \in Keys : results[key[1]][key[2]] # None}
       IN  sweep' = [sweep EXCEPT
                !.pc = "commit",
                !.checked = present,
                !.results = {key \in present : Dangling(key[1], key[2], {})}]
    /\ UNCHANGED <<vars, objectAge, rowAge, touch>>

sweep_action_results ==
    /\ sweep.pc = "blobs" /\ sweep.next = None
    /\ LET present == {key \in Keys : results[key[1]][key[2]] # None}
       IN  sweep' = [sweep EXCEPT
                !.pc = "commit",
                !.checked = present,
                !.results = {key \in present : Dangling(key[1], key[2], sweep.blobs)}]
    /\ UNCHANGED <<vars, objectAge, rowAge, touch>>

sweep_commit ==
    /\ sweep.pc = "commit"
    /\ rows' = [n \in Namespaces |-> {d \in rows[n] : <<n, d>> \notin sweep.blobs}]
    /\ rowAge' = [n \in Namespaces |-> [d \in Digests |->
                    IF <<n, d>> \in sweep.blobs THEN 0 ELSE rowAge[n][d]]]
    /\ results' = [n \in Namespaces |-> [a \in Digests |->
                    IF <<n, a>> \in sweep.results THEN None ELSE results[n][a]]]
    /\ sweep' = NoSweep
    /\ UNCHANGED <<objects, pub, walk, up, read, objectAge, touch>>

(* Mutation: a failed sweep keeps its locks. *)
sweep_fails_holding ==
    /\ sweep.pc # "idle"
    /\ sweep' = [sweep EXCEPT !.pc = "idle"]
    /\ UNCHANGED <<vars, objectAge, rowAge, touch>>

(* The sweep's process or connection dies, or it is chosen to break a      *)
(* deadlock: everything is rolled back.                                    *)
sweep_fails ==
    /\ sweep.pc # "idle"
    /\ sweep' = NoSweep
    /\ UNCHANGED <<vars, objectAge, rowAge, touch>>

-----------------------------------------------------------------------------
RNext ==
    \/ quiet_step
    \/ \E u \in Uploaders : put_object(u) \/ upsert_row(u) \/ upsert_unheard(u)
    \/ \E p \in Publishers : insert_result(p) \/ insert_result_unheard(p)
    \/ \E g \in Readers :
        \/ touch_row(g)
        \/ \E n \in Namespaces, digests \in SUBSET Digests : touch_blobs(g, n, digests)
        \/ touch_next(g) \/ touch_commit(g) \/ touch_fails(g)
    \/ tick
    \/ \E d \in Digests : expire(d)
    \/ sweep_blobs \/ sweep_row \/ sweep_action_results \/ sweep_commit \/ sweep_fails

(* Every one of these downloads, and the sweep if it takes part, waits for *)
(* a row that one of them holds.                                           *)
SweepWaits(waiters) == \E g \in waiters : sweep.next \in touch[g].held
Deadlock(waiters) ==
    /\ waiters # {}
    /\ \A g \in waiters :
        \/ \E h \in waiters : touch[g].next \in touch[h].held
        \/ touch[g].next \in sweep.blobs /\ SweepWaits(waiters)

(* PostgreSQL ends a deadlock by failing one of the statements in it. *)
deadlock_ends ==
    \E waiters \in SUBSET Readers :
        /\ Deadlock(waiters)
        /\ \/ \E g \in waiters : touch_fails(g)
           \/ SweepWaits(waiters) /\ sweep_fails

(* Handlers and the sweep run on; a statement that waits for a row lock    *)
(* gets its turn, since PostgreSQL queues the waiters: strong fairness.    *)
(* Deadlocks are detected, and days pass.                                  *)
RFairness ==
    /\ \A p \in Publishers :
        /\ WF_rvars((Validate(p) \/ postgres_compare(p)) /\ UNCHANGED aging)
        /\ SF_rvars(insert_result(p))
    /\ \A u \in Uploaders :
        /\ WF_rvars((blobs_put(u) /\ UNCHANGED aging) \/ put_object(u))
        /\ SF_rvars(upsert_row(u))
    /\ \A g \in Readers :
        /\ WF_rvars((blobs_get(g) /\ UNCHANGED aging) \/ touch_commit(g))
        /\ SF_rvars(touch_row(g) \/ touch_next(g))
    /\ SF_rvars(sweep_row) /\ WF_rvars(sweep_action_results \/ sweep_commit)
    /\ WF_rvars(deadlock_ends) /\ WF_rvars(tick)

RSafeSpec == RInit /\ [][RNext]_rvars
RSpec == RSafeSpec /\ RFairness

-----------------------------------------------------------------------------
(* The shapes of the ages and of the sweep's transaction, TypeOK besides.  *)
RTypeOK ==
    /\ TypeOK
    /\ objectAge \in [Digests -> 0 .. MaxAge]
    /\ rowAge \in [Namespaces -> [Digests -> 0 .. MaxAge]]
    /\ sweep \in [pc : {"idle", "blobs", "commit"}, todo : SUBSET Keys,
                  next : Keys \cup {None}, blobs : SUBSET Keys,
                  results : SUBSET Keys, checked : SUBSET Keys]
    /\ touch \in [Readers -> [pc : {"idle", "rows"}, todo : SUBSET Keys,
                                next : Keys \cup {None}, held : SUBSET Keys]]

(* A row a sweep removes is old at the moment it disappears: no upload     *)
(* that was acknowledged while the sweep ran is undone by its commit.      *)
SweptRowsOld ==
    [][\A n \in Namespaces, d \in Digests :
        d \in rows[n] /\ d \notin rows'[n] => rowAge[n][d] > SweepAge]_rvars

(* No result the sweep looked at is left dangling by its commit, whatever  *)
(* was registered or published since it looked.                            *)
SweepLeavesNoDangling ==
    sweep.pc = "commit" =>
        \A key \in sweep.checked \ sweep.results :
            ~ Dangling(key[1], key[2], sweep.blobs)

(* Sweeping and expiry keep the write-once promise: an action result can   *)
(* disappear, and no step turns it into another.                           *)
KeepsWriteOnce == Promise!EvictingSpec

(* Nobody waits for ever behind the row locks a sweep holds, although the  *)
(* next sweep may take the same rows: TransfersSettle and PublishSettles   *)
(* hold here too.  Nor does the sweep behind downloads that record their   *)
(* accesses, one after the other and in the opposite order of rows.        *)
SweepSettles == sweep.pc # "idle" ~> sweep.pc = "idle"

(* A row that names an object the lifecycle rule has deleted does not stay *)
(* for good, however often it is asked for and whatever uploads registered *)
(* with an outcome that no longer holds: as long as sweeps succeed again   *)
(* and again, it is swept or the object is uploaded anew.                  *)
StaleRowsGo ==
    []<><<sweep_commit>>_rvars =>
        \A n \in Namespaces, d \in Digests :
            d \in rows[n] /\ objects[d] = None ~> d \notin rows[n] \/ objects[d] # None

(* postgres.rs on sweep: "One transaction, so no reader sees a result      *)
(* whose blobs this sweep has already removed."                            *)
NoDanglingResult ==
    \A n \in Namespaces, a \in Digests : results[n][a] # None => ~ Dangling(n, a, {})

(* README: the server verifies "every blob reachable from result metadata  *)
(* and output trees before publishing": what put_action_result accepts as  *)
(* present is in the store.                                                *)
AcceptedBlobsStored ==
    [][\A p \in Publishers :
        pub[p].pc \in {"outputs", "files"} /\ pub[p].need # <<>>
            /\ pub'[p].need = Tail(pub[p].need) /\ pub'[p].pc = pub[p].pc
        => objects[Head(pub[p].need)] # None]_rvars
=============================================================================
