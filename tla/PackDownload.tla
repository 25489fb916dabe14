---------------------------- MODULE PackDownload ----------------------------
(***************************************************************************)
(* pack_blobs and its response stream, with the PackGuard that counts it.  *)
(* The length is announced from the rows before any object is read; then   *)
(* the objects are fetched, a window of them ahead of the one being sent,  *)
(* and each get may be answered in any order, while objects expire.  The   *)
(* stream stops at every await and every yield, and may be dropped there.  *)
(*                                                                         *)
(* What is sent is kept as the frames begun, [digest, bytes], and the      *)
(* number of bytes yielded.  An object's stream is external: it may end,   *)
(* fail or go on at any point.                                             *)
(***************************************************************************)
EXTENDS CacheQueries

CONSTANTS
    Packs,          \* pack_blobs handlers
    MagicLen,       \* length of BLOB_PACK_MAGIC
    HeaderLen,      \* BLOB_PACK_HEADER_BYTES
    MaxBlobBytes,   \* max_blob_bytes
    Window          \* MAX_PACK_STORAGE_READS

ASSUME WindowAssumption == Window \in Nat \ {0}
ASSUME FormatAssumption ==
    MagicLen \in Nat /\ HeaderLen \in Nat \ {0} /\ MaxBlobBytes \in Nat /\ MaxBatch \in Nat
ASSUME PacksAssumption == IsFiniteSet(Packs)

VARIABLES
    pack,       \* each pack_blobs handler and its response stream
    guard,      \* its PackGuard: None, "live", or the outcome it finished with
    in_flight,  \* the gauge
    ended       \* pack_requests, by outcome

metrics == <<guard, in_flight, ended>>
dvars == <<setup, rows, objects, results, query, pack, guard, in_flight, ended>>

Outcomes == {"completed", "error", "cancelled"}
Reads == [answer : {"found", "missing", "error"}, size : Nat]
ASSUME NoneAssumption == None \notin Outcomes \cup {"live"} /\ None \notin Reads
Streaming == {"announced", "next", "blob"}
Over == {"ending", "closed", "rejected", "failed"}

IdlePack == [pc |-> "idle", ask |-> <<>>, entries |-> <<>>, announced |-> 0,
             reads |-> <<>>, frames |-> <<>>, sent |-> 0]

DInit ==
    /\ QueriesInit
    /\ pack = [k \in Packs |-> IdlePack]
    /\ guard = [k \in Packs |-> None]
    /\ in_flight = 0
    /\ ended = [o \in Outcomes |-> 0]

-----------------------------------------------------------------------------
(* PackGuard. *)

start_pack(k) ==
    /\ guard' = [guard EXCEPT ![k] = "live"]
    /\ in_flight' = in_flight + 1
    /\ UNCHANGED ended

(* Mutation: an outcome is counted whenever one is reported. *)
finish_again(k, outcome) ==
    /\ guard' = [guard EXCEPT ![k] = outcome]
    /\ in_flight' = in_flight - 1
    /\ ended' = [ended EXCEPT ![outcome] = @ + 1]

(* The first outcome counts. *)
finish(k, outcome) ==
    \/ /\ guard[k] = "live"
       /\ guard' = [guard EXCEPT ![k] = outcome]
       /\ in_flight' = in_flight - 1
       /\ ended' = [ended EXCEPT ![outcome] = @ + 1]
    \/ guard[k] # "live" /\ UNCHANGED metrics

-----------------------------------------------------------------------------
(* The sizes of the first i digests of a list, and of all of them. *)
Sums(seq) == LET sum[i \in 0 .. Len(seq)] == IF i = 0 THEN 0 ELSE sum[i - 1] + Size[seq[i]] IN sum
Total(seq) == Sums(seq)[Len(seq)]

pack_blobs(k, seq) ==
    /\ k \in setup.clients /\ pack[k].pc = "idle"
    /\ pack' = [pack EXCEPT ![k] = [IdlePack EXCEPT
            !.pc = IF Len(seq) > MaxBatch \/ Total(Dedup(seq)) > MaxBlobBytes
                   THEN "rejected" ELSE "lookup",
            !.ask = Dedup(seq)]]
    /\ UNCHANGED <<setup, stores, query, metrics>>

lookup_visible(k) ==
    /\ pack[k].pc = "lookup"
    /\ pack' = [pack EXCEPT ![k].pc = "access", ![k].entries = visible_blobs(pack[k].ask)]
    /\ UNCHANGED <<setup, stores, query, metrics>>

(* record_blob_access has returned; the guard is taken and the head of the *)
(* response goes out, with its Content-Length.                             *)
announce(k) ==
    LET entries == pack[k].entries IN
    /\ pack[k].pc = "access"
    /\ start_pack(k)
    /\ pack' = [pack EXCEPT ![k].pc = "announced",
            ![k].announced = MagicLen + Len(entries) * HeaderLen + Total(entries),
            ![k].reads = [i \in DOMAIN entries |-> None]]
    /\ UNCHANGED <<setup, stores, query>>

lookup_fails(k) ==
    /\ pack[k].pc \in {"lookup", "access"}
    /\ pack' = [pack EXCEPT ![k] = [IdlePack EXCEPT !.pc = "failed"]]
    /\ UNCHANGED <<setup, stores, query, metrics>>

yield_magic(k) ==
    /\ pack[k].pc = "announced"
    /\ pack' = [pack EXCEPT ![k].pc = "next", ![k].sent = MagicLen]
    /\ UNCHANGED <<setup, stores, query, metrics>>

Turn(k) == Len(pack[k].frames) + 1

(* buffered() starts gets up to Window entries ahead, when it is polled. *)
Started(k) ==
    {i \in DOMAIN pack[k].reads :
        IF pack[k].pc = "next" THEN i < Turn(k) + Window ELSE i < Turn(k) + Window - 1}

Ahead(k) == IF pack[k].pc \in {"next", "blob"} THEN Started(k) ELSE {}

(* Mutation: a get of a missing object is tried until there is one. *)
storage_get_persists(k, i) ==
    LET stored == objects[pack[k].entries[i]] IN
    /\ i \in Ahead(k) /\ pack[k].reads[i] = None /\ stored # None
    /\ pack' = [pack EXCEPT ![k].reads[i] = [answer |-> "found", size |-> stored]]
    /\ UNCHANGED <<setup, stores, query, metrics>>

(* The store answers one of the gets under way: the object's length, or    *)
(* "missing", or "error".                                                  *)
storage_get(k, i) ==
    LET stored == objects[pack[k].entries[i]] IN
    /\ i \in Ahead(k) /\ pack[k].reads[i] = None
    /\ \E answer \in {IF stored = None THEN "missing" ELSE "found", "error"} :
        pack' = [pack EXCEPT ![k].reads[i] = [answer |-> answer,
                                size |-> IF answer = "found" THEN stored ELSE 0]]
    /\ UNCHANGED <<setup, stores, query, metrics>>

Fails(k) == pack' = [pack EXCEPT ![k].pc = "ending"] /\ finish(k, "error")

(* Mutation: whichever get was answered is sent next. *)
TakesUp_unordered(k, i) == i \in DOMAIN pack[k].reads /\ i \notin 1 .. Len(pack[k].frames)

(* buffered() hands the answers over in order. *)
TakesUp(k, i) == i = Turn(k)

(* Mutation: the object's length is not compared. *)
Fits_any(k, i) == pack[k].reads[i].answer = "found"

Fits(k, i) ==
    pack[k].reads[i].answer = "found" /\ pack[k].reads[i].size = Size[pack[k].entries[i]]

next_entry(k, i) ==
    /\ pack[k].pc = "next" /\ i \in DOMAIN pack[k].reads
    /\ TakesUp(k, i) /\ pack[k].reads[i] # None
    /\ \/ /\ Fits(k, i)
          /\ pack' = [pack EXCEPT ![k].pc = "blob", ![k].sent = @ + HeaderLen,
                ![k].frames = Append(@, [digest |-> pack[k].entries[i], bytes |-> 0])]
          /\ UNCHANGED metrics
       \/ ~Fits(k, i) /\ Fails(k)
    /\ UNCHANGED <<setup, stores, query>>

Current(k) == Len(pack[k].frames)
Streamed(k) == pack[k].frames[Current(k)].bytes
Length(k) == pack[k].reads[Current(k)].size

(* The object's stream yields a chunk, an error or its end. *)
chunk(k, n) ==
    /\ pack[k].pc = "blob"
    /\ \/ /\ Streamed(k) + n <= Length(k)
          /\ pack' = [pack EXCEPT ![k].sent = @ + n, ![k].frames[Current(k)].bytes = @ + n]
          /\ UNCHANGED metrics
       \/ Streamed(k) + n > Length(k) /\ Fails(k)
    /\ UNCHANGED <<setup, stores, query>>

chunk_fails(k) ==
    /\ pack[k].pc = "blob"
    /\ Fails(k)
    /\ UNCHANGED <<setup, stores, query>>

(* Mutation: a stream that ends early is taken for a whole blob. *)
blob_ends_early(k) ==
    /\ pack[k].pc = "blob"
    /\ pack' = [pack EXCEPT ![k].pc = "next"] /\ UNCHANGED metrics
    /\ UNCHANGED <<setup, stores, query>>

blob_ends(k) ==
    /\ pack[k].pc = "blob"
    /\ \/ /\ Streamed(k) = Length(k)
          /\ pack' = [pack EXCEPT ![k].pc = "next"] /\ UNCHANGED metrics
       \/ Streamed(k) # Length(k) /\ Fails(k)
    /\ UNCHANGED <<setup, stores, query>>

complete(k) ==
    /\ pack[k].pc = "next" /\ Current(k) = Len(pack[k].entries)
    /\ pack' = [pack EXCEPT ![k].pc = "ending"]
    /\ finish(k, "completed")
    /\ UNCHANGED <<setup, stores, query>>

(* The stream is dropped, having ended, or because the client went away or *)
(* the transport has all the bytes it was to send.                         *)
drop(k) ==
    /\ pack[k].pc \in Streaming \cup {"ending"}
    /\ pack' = [pack EXCEPT ![k].pc = "closed", ![k].reads = <<>>]
    /\ finish(k, "cancelled")
    /\ UNCHANGED <<setup, stores, query>>

-----------------------------------------------------------------------------
PackStep(k) ==
    \/ lookup_visible(k) \/ announce(k) \/ yield_magic(k) \/ blob_ends(k) \/ complete(k)
    \/ \E i \in DOMAIN pack[k].reads : storage_get(k, i) \/ next_entry(k, i)

PackNext(k) ==
    \/ \E seq \in setup.asks : pack_blobs(k, seq)
    \/ PackStep(k)
    \/ \E n \in 1 .. MaxBlobBytes : chunk(k, n)
    \/ chunk_fails(k) \/ lookup_fails(k) \/ drop(k)

DNext ==
    \/ Environment /\ UNCHANGED <<pack, metrics>>
    \/ (\E q \in Queries : QueryNext(q)) /\ UNCHANGED <<pack, metrics>>
    \/ \E k \in Packs : PackNext(k)

(* Tasks and response streams are polled until they return; the client     *)
(* reads on or goes away; the store answers every get.                     *)
DFairness ==
    /\ \A k \in Packs : WF_dvars(PackStep(k)) /\ WF_dvars(pack[k].pc = "ending" /\ drop(k))
    /\ \A q \in Queries : WF_dvars(QueryStep(q) /\ UNCHANGED <<pack, metrics>>)

DSafeSpec == DInit /\ [][DNext]_dvars
DSpec == DSafeSpec /\ DFairness

-----------------------------------------------------------------------------
(* However packs end and however they interleave, the gauge shows the ones *)
(* that have a response stream and no outcome, and every stream that is    *)
(* over was counted under one outcome.                                     *)
GuardExact ==
    /\ in_flight = Cardinality({k \in Packs : pack[k].pc \in Streaming})
    /\ \A o \in Outcomes : ended[o] = Cardinality({k \in Packs : guard[k] = o})
    /\ ended["completed"] + ended["error"] + ended["cancelled"]
            = Cardinality({k \in Packs : pack[k].pc \in {"ending", "closed"}})

Whole(k) ==
    /\ Len(pack[k].frames) = Len(pack[k].entries)
    /\ \A i \in DOMAIN pack[k].entries :
        pack[k].frames[i] = [digest |-> pack[k].entries[i], bytes |-> Size[pack[k].entries[i]]]

(* A client can tell a broken pack by its length: never more is sent than  *)
(* was announced, and as much only when every visible blob was sent, once, *)
(* in the order of the entries whose sizes were announced and with the     *)
(* bytes its digest declares, whatever expired, or was still being copied, *)
(* behind the announcement.  "completed" is counted for such packs alone.  *)
LengthTellsWhole ==
    \A k \in Packs :
        LET p == pack[k] IN
        p.pc \in Streaming \cup {"ending", "closed"} =>
            /\ p.sent <= p.announced
            /\ p.sent = p.announced => Whole(k)
            /\ guard[k] = "completed" => p.sent = p.announced
            /\ IsInjective(p.entries)

(* Every pack comes to an end, and its guard with it. *)
PacksEnd == \A k \in Packs : pack[k].pc # "idle" ~> pack[k].pc \in Over \ {"ending"}
=============================================================================
