----------------------------- MODULE PackUpload -----------------------------
(***************************************************************************)
(* put_blob_pack and the PackReader it feeds: a pack arrives in chunks the *)
(* network chooses, the reader turns each chunk into events, the handler   *)
(* spools, verifies and stores one frame at a time.                        *)
(*                                                                         *)
(* Bytes are positions in the body.  The body is well framed as far as it  *)
(* goes (a magic prefix, then header and payload per frame), may be cut    *)
(* short, and may hold a wrong magic, an unknown algorithm tag, a blob     *)
(* over the limit or a payload that does not hash to its digest.  A reader *)
(* that looked for a header anywhere but at a frame's start would find     *)
(* garbage, which is an unknown algorithm.                                 *)
(***************************************************************************)
EXTENDS Naturals, Sequences, FiniteSets

CONSTANTS
    Blobs,          \* the digests frames declare
    Size,           \* the size each digest declares
    None,
    MagicLen,       \* 8 in the code
    HeaderLen,      \* 41 in the code
    MaxBlobBytes,   \* MBX_CACHE_MAX_BLOB_BYTES
    MaxBatch,       \* MAX_BATCH_ITEMS
    MaxFrames       \* bound: frames per body

ASSUME PackAssumption ==
    /\ Size \in [Blobs -> Nat]
    /\ {MagicLen, HeaderLen} \subseteq Nat \ {0}
    /\ {MaxBlobBytes, MaxBatch, MaxFrames} \subseteq Nat

(* Option::None is no frame. *)
ASSUME NoneAssumption == None \notin [index : Nat, from : Nat, to : Nat]

VARIABLES
    body,      \* the request body: [magic, frames]
    sent,      \* the bytes of it the client sends before it ends the body
    declared,  \* the two headers: [blobs, bytes]
    unread,    \* bytes of the body that have not arrived
    rest,      \* bytes of the current chunk that are not consumed
    reader,    \* PackReader
    events,    \* what push has returned, or is about to
    frame,     \* the handler's Option<PackFrame>
    objects,   \* blobs in the object store
    rows,      \* frames whose blob was registered
    counts,    \* the receipt: [created, existing]
    phase      \* where the handler is, or how it ended

request == <<body, sent, declared>>
vars == <<body, sent, declared, unread, rest, reader, events, frame, objects, rows, counts, phase>>

Faults == {"none", "algorithm", "content"}
Frames == [blob : Blobs, fault : Faults]

(* malformed: push or finish returned a PackError; refused: the handler's  *)
(* own 4xx; failed: an error that is not about the pack.                   *)
Settled == {"accepted", "malformed", "refused", "failed"}

(* The payload bytes of the frames before the i-th. *)
PayloadIn(frames, i) ==
    LET sum[k \in 0 .. i - 1] == IF k = 0 THEN 0 ELSE sum[k - 1] + Size[frames[k].blob]
    IN  sum[i - 1]

SizeOf(i) == Size[body.frames[i].blob]
PayloadBefore(i) == PayloadIn(body.frames, i)
HeaderStart(i) == MagicLen + (i - 1) * HeaderLen + PayloadBefore(i)
PayloadStart(i) == HeaderStart(i) + HeaderLen
Count == Len(body.frames)
Total == HeaderStart(Count + 1)
FrameAt(start) == {i \in 1 .. Count : HeaderStart(i) = start}

(* Bodies with at most one defect of their own. *)
FrameLists == UNION {[1 .. n -> Frames] : n \in 0 .. MaxFrames}
Sound(frames) == \A i \in 1 .. Len(frames) : frames[i].fault = "none"
OneFault(frames) ==
    Cardinality({i \in 1 .. Len(frames) : frames[i].fault # "none"}) = 1

(* A shorter body would be one of fewer frames. *)
FirstCut == IF Count = 0 THEN 0 ELSE HeaderStart(Count) + 1

Init ==
    /\ \E frames \in {f \in FrameLists : Sound(f) \/ OneFault(f)}, good \in BOOLEAN :
          /\ Sound(frames) \/ good
          /\ body = [magic |-> good, frames |-> frames]
          /\ sent \in IF Sound(frames) /\ good THEN FirstCut .. Total ELSE {Total}
          /\ \E b \in 0 .. MaxFrames + 1, s \in 0 .. PayloadBefore(Count + 1) + 1 :
                declared = [blobs |-> b, bytes |-> s]
    /\ unread = sent
    /\ rest = 0
    /\ reader = [state |-> "magic", held |-> 0, blobs |-> 0, payload |-> 0,
                 remaining |-> 0, pos |-> 0]
    /\ events = <<>>
    /\ frame = None
    /\ objects \in {{}, Blobs}
    /\ rows = {}
    /\ counts = [created |-> 0, existing |-> 0]
    /\ phase = "start"

-----------------------------------------------------------------------------
Finish(outcome) ==
    /\ phase' = outcome
    /\ UNCHANGED <<request, unread, rest, reader, events, frame, objects, rows, counts>>

(* The declared limits are checked before the body is read. *)
put_blob_pack ==
    /\ phase = "start"
    /\ IF declared.blobs > MaxBatch \/ declared.bytes > MaxBlobBytes
       THEN Finish("refused") ELSE Finish("stream")

(* The next chunk, of whatever length. *)
next_chunk ==
    /\ phase = "stream" /\ unread > 0
    /\ \E n \in 1 .. unread : rest' = n /\ unread' = unread - n
    /\ phase' = "push"
    /\ UNCHANGED <<request, reader, events, frame, objects, rows, counts>>

-----------------------------------------------------------------------------
(* PackReader::push, one action per turn of its loop. *)

Least(a, b) == IF a < b THEN a ELSE b

(* Mutation: the bytes that complete the buffer are not taken off the      *)
(* chunk when the buffer held some already.                                *)
fill_rereads(wanted) ==
    LET take == Least(wanted - reader.held, rest)
        eaten == IF reader.held > 0 THEN 0 ELSE take
    IN  [reader |-> [reader EXCEPT !.held = @ + take, !.pos = @ + eaten],
         rest |-> rest - eaten]

(* fill: take what is missing from the chunk, or all there is. *)
fill(wanted) ==
    LET take == Least(wanted - reader.held, rest)
    IN  [reader |-> [reader EXCEPT !.held = @ + take, !.pos = @ + take],
         rest |-> rest - take]

Reading(state) == phase = "push" /\ reader.state = state

(* push returns its events, and the handler goes through them. *)
Return(r, left) ==
    /\ reader' = r /\ rest' = left
    /\ phase' = "events"
    /\ UNCHANGED <<request, unread, events, frame, objects, rows, counts>>

(* The loop goes round with the reader in r. *)
Continue(r, left, new) ==
    /\ reader' = r /\ rest' = left
    /\ events' = events \o new
    /\ UNCHANGED <<request, unread, frame, objects, rows, counts, phase>>

push_magic ==
    LET filled == fill(MagicLen)
        full == filled.reader.held = MagicLen
    IN  /\ Reading("magic")
        /\ \/ ~full /\ Return(filled.reader, filled.rest)
           \/ full /\ ~body.magic /\ Finish("malformed")
           \/ /\ full /\ body.magic
              /\ Continue([filled.reader EXCEPT !.held = 0, !.state = "header"],
                          filled.rest, <<>>)

(* The frame whose header is in the buffer, if it is acceptable. *)
parse_header(start) ==
    {i \in FrameAt(start) : body.frames[i].fault # "algorithm" /\ SizeOf(i) <= MaxBlobBytes}

Started(i) == [type |-> "started", frame |-> i, from |-> 0, to |-> 0]
Payload(from, to) == [type |-> "payload", frame |-> 0, from |-> from, to |-> to]
Complete == [type |-> "complete", frame |-> 0, from |-> 0, to |-> 0]

push_header ==
    LET filled == fill(HeaderLen)
        full == filled.reader.held = HeaderLen
        parsed == parse_header(filled.reader.pos - HeaderLen)
    IN  /\ Reading("header")
        /\ \/ rest = 0 /\ reader.held = 0 /\ Return(reader, 0)
           \/ rest + reader.held > 0 /\ ~full /\ Return(filled.reader, filled.rest)
           \/ full /\ (parsed = {} \/ reader.blobs + 1 > declared.blobs) /\ Finish("malformed")
           \/ /\ full /\ reader.blobs + 1 <= declared.blobs
              /\ \E i \in parsed :
                    Continue([filled.reader EXCEPT !.held = 0, !.blobs = @ + 1,
                                  !.remaining = SizeOf(i),
                                  !.state = IF SizeOf(i) = 0 THEN "header" ELSE "payload"],
                             filled.rest,
                             IF SizeOf(i) = 0 THEN <<Started(i), Complete>> ELSE <<Started(i)>>)

(* Mutation: the payload limit is checked by the frame, not by the pack. *)
OverBudget_frame(taken) == taken > declared.bytes

OverBudget(taken) == reader.payload + taken > declared.bytes

push_payload ==
    LET take == Least(reader.remaining, rest)
        ends == take = reader.remaining
        read == <<Payload(reader.pos, reader.pos + take)>>
    IN  /\ Reading("payload")
        /\ \/ rest = 0 /\ Return(reader, 0)
           \/ rest > 0 /\ OverBudget(take) /\ Finish("malformed")
           \/ /\ rest > 0 /\ ~OverBudget(take)
              /\ Continue([reader EXCEPT !.remaining = @ - take, !.payload = @ + take,
                               !.pos = @ + take, !.state = IF ends THEN "header" ELSE @],
                          rest - take, IF ends THEN Append(read, Complete) ELSE read)

-----------------------------------------------------------------------------
(* The handler's loop over the events. *)
Handling(type) == phase = "events" /\ events # <<>> /\ Head(events).type = type

events_done ==
    /\ phase = "events" /\ events = <<>>
    /\ Finish("stream")

start_frame ==
    /\ Handling("started")
    /\ frame' = [index |-> Head(events).frame, from |-> 0, to |-> 0]
    /\ events' = Tail(events)
    /\ UNCHANGED <<request, unread, rest, reader, objects, rows, counts, phase>>

(* PackFrame::write extends the spool and the hash. *)
write_payload ==
    LET e == Head(events)
    IN  /\ Handling("payload")
        /\ frame' = [frame EXCEPT !.from = IF frame.to = 0 THEN e.from ELSE @, !.to = e.to]
        /\ events' = Tail(events)
        /\ UNCHANGED <<request, unread, rest, reader, objects, rows, counts, phase>>

(* The spooled bytes are the payload this frame declared. *)
Matches ==
    LET i == frame.index
    IN  /\ frame.to - frame.from = SizeOf(i)
        /\ SizeOf(i) > 0 => frame.from = PayloadStart(i)
        /\ body.frames[i].fault # "content"

(* Mutation: the digest is not checked. *)
store_unverified ==
    LET blob == body.frames[frame.index].blob
    IN  /\ Handling("complete")
        /\ objects' = objects \cup {blob}
        /\ counts' = IF blob \in objects THEN [counts EXCEPT !.existing = @ + 1]
                                         ELSE [counts EXCEPT !.created = @ + 1]
        /\ phase' = "register"
        /\ UNCHANGED <<request, unread, rest, reader, events, frame, rows>>

(* PackFrame::store: verify and put ... *)
store ==
    LET blob == body.frames[frame.index].blob
    IN  /\ Handling("complete")
        /\ \/ ~Matches /\ Finish("refused")
           \/ /\ Matches
              /\ objects' = objects \cup {blob}
              /\ counts' = IF blob \in objects THEN [counts EXCEPT !.existing = @ + 1]
                                               ELSE [counts EXCEPT !.created = @ + 1]
              /\ phase' = "register"
              /\ UNCHANGED <<request, unread, rest, reader, events, frame, rows>>

(* ... and register. *)
register ==
    /\ phase = "register"
    /\ rows' = rows \cup {frame.index}
    /\ frame' = None
    /\ events' = Tail(events)
    /\ phase' = "events"
    /\ UNCHANGED <<request, unread, rest, reader, objects, counts>>

(* Mutation: only the counts the headers declare are compared. *)
finish_unframed ==
    /\ phase = "stream" /\ unread = 0
    /\ IF reader.blobs = declared.blobs /\ reader.payload = declared.bytes
       THEN Finish("accepted") ELSE Finish("refused")

(* The body has ended: on a frame boundary, with what was declared. *)
finish ==
    LET whole == reader.state = "header" /\ reader.held = 0
        asDeclared == reader.blobs = declared.blobs /\ reader.payload = declared.bytes
    IN  /\ phase = "stream" /\ unread = 0
        /\ \/ ~whole /\ Finish("malformed")
           \/ whole /\ ~asDeclared /\ Finish("refused")
           \/ whole /\ asDeclared /\ Finish("accepted")

(* A chunk, a spool write, the put or the registration fails, or the       *)
(* client goes away.                                                       *)
pack_fails == phase \in {"stream", "events", "register"} /\ Finish("failed")

settled == phase \in Settled /\ UNCHANGED vars

Next ==
    \/ put_blob_pack \/ next_chunk
    \/ push_magic \/ push_header \/ push_payload
    \/ events_done \/ start_frame \/ write_payload \/ store \/ register
    \/ finish \/ pack_fails \/ settled

Spec == Init /\ [][Next]_vars

-----------------------------------------------------------------------------
(* What the pack is worth, with no reference to chunks or to the reader. *)
Acceptable ==
    /\ body.magic /\ sent = Total
    /\ \A i \in 1 .. Count : body.frames[i].fault = "none" /\ SizeOf(i) <= MaxBlobBytes
    /\ declared = [blobs |-> Count, bytes |-> PayloadBefore(Count + 1)]
    /\ declared.blobs <= MaxBatch /\ declared.bytes <= MaxBlobBytes

(* However the body is cut into chunks, put_blob_pack accepts exactly the  *)
(* packs that are whole, well formed, verified and as declared.            *)
ChunksDoNotMatter ==
    /\ phase = "accepted" => Acceptable
    /\ phase \in {"malformed", "refused"} => ~Acceptable

(* A receipt accounts for every frame, each of which is stored and         *)
(* registered by then.                                                     *)
ReceiptComplete ==
    phase = "accepted" =>
        /\ rows = 1 .. Count
        /\ counts.created + counts.existing = Count

(* Whatever ends the request, what it registered is a run of frames from   *)
(* the first, each with an algorithm and bytes that pass verification, and *)
(* in the store.                                                           *)
RegisteredVerified ==
    /\ rows = 1 .. Cardinality(rows)
    /\ \A i \in rows : body.frames[i].fault = "none" /\ body.frames[i].blob \in objects

(* An overlong pack is refused as it arrives: the handler never spools or  *)
(* stores more blobs or bytes than the request declared.                   *)
WithinDeclared ==
    LET spooled == IF frame = None THEN 0 ELSE frame.to - frame.from
    IN  /\ Cardinality(rows) + (IF frame = None THEN 0 ELSE 1) <= declared.blobs
        /\ PayloadBefore(Cardinality(rows) + 1) + spooled <= declared.bytes
=============================================================================
