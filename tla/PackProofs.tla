----------------------------- MODULE PackProofs -----------------------------
(* PackUpload for any frames, lengths, limits and chunks: what a pack is   *)
(* answered, and what is stored of it, does not depend on how it arrives.  *)
EXTENDS PackUpload, SequenceTheorems, FiniteSetTheorems, WellFoundedInduction, TLAPS

(* A set of numbers that is not empty has a least one. *)
LEMMA LeastOfNat ==
    ASSUME NEW T, T \subseteq Nat, T # {}
    PROVE  \E m \in T : \A k \in T : m <= k
<1> DEFINE R == OpToRel(<, Nat)
<1>1. IsWellFoundedOn(R, Nat)
  BY NatLessThanWellFounded
<1>2. \A a, b \in Nat : a < b => <<a, b>> \in R
  BY DEF OpToRel
<1> HIDE DEF R
<1>3. PICK m \in T : \A k \in T : ~ (<<k, m>> \in R)
  BY <1>1, WFMin
<1>4. \A k \in T : ~ (k < m)
  BY <1>2, <1>3
<1> QED BY <1>4

-----------------------------------------------------------------------------
(* The layout of a body. *)

(* g sums the payloads of the first n frames. *)
Sums(frames, n, g) ==
    g = [k \in 0 .. n |-> IF k = 0 THEN 0 ELSE g[k - 1] + Size[frames[k].blob]]

(* There is such a function ... *)
LEMMA SumsExist ==
    ASSUME NEW frames, NEW c \in Nat, \A k \in 1 .. c : Size[frames[k].blob] \in Nat,
           NEW n \in 0 .. c
    PROVE  \E g \in [0 .. n -> Nat] : Sums(frames, n, g)
<1> DEFINE T == {m \in 0 .. c : ~ \E g \in [0 .. m -> Nat] : Sums(frames, m, g)}
<1> SUFFICES ASSUME T # {} PROVE FALSE
  OBVIOUS
<1>0. T \subseteq Nat
  OBVIOUS
<1>1. PICK m \in T : \A k \in T : m <= k
  <2> HIDE DEF T
  <2> QED BY <1>0, LeastOfNat
<1>2. m # 0
  <2>1. [k \in 0 .. 0 |-> 0] \in [0 .. 0 -> Nat]
    OBVIOUS
  <2>2. Sums(frames, 0, [k \in 0 .. 0 |-> 0])
    BY DEF Sums
  <2> QED BY <2>1, <2>2
<1>3. m \in 0 .. c /\ m - 1 \in 0 .. c /\ m - 1 \notin T
  BY <1>1, <1>2
<1>4. PICK g \in [0 .. m - 1 -> Nat] : Sums(frames, m - 1, g)
  BY <1>3
<1> DEFINE h == [k \in 0 .. m |-> IF k = m THEN g[m - 1] + Size[frames[m].blob] ELSE g[k]]
<1>5. Size[frames[m].blob] \in Nat
  BY <1>2, <1>3
<1>6. h \in [0 .. m -> Nat]
  BY <1>2, <1>3, <1>5
<1>7. \A k \in 0 .. m : h[k] = IF k = 0 THEN 0 ELSE h[k - 1] + Size[frames[k].blob]
  <2> SUFFICES ASSUME NEW k \in 0 .. m
               PROVE  h[k] = IF k = 0 THEN 0 ELSE h[k - 1] + Size[frames[k].blob]
    OBVIOUS
  <2>1. CASE k = m
    BY <1>2, <1>3, <2>1
  <2>2. CASE k # m
    <3>1. k \in 0 .. m - 1 /\ h[k] = g[k] /\ (k # 0 => k - 1 \in 0 .. m - 1 /\ h[k - 1] = g[k - 1])
      BY <1>3, <2>2
    <3>2. g[k] = IF k = 0 THEN 0 ELSE g[k - 1] + Size[frames[k].blob]
      BY <1>4, <3>1 DEF Sums
    <3> QED BY <3>1, <3>2
  <2> QED BY <2>1, <2>2
<1>8. Sums(frames, m, h)
  BY <1>6, <1>7 DEF Sums
<1> QED BY <1>1, <1>6, <1>8

(* ... two of them agree where both are defined ... *)
LEMMA SumsAgree ==
    ASSUME NEW frames, NEW n \in Nat, NEW m \in Nat, n <= m, NEW g, NEW h,
           Sums(frames, n, g), Sums(frames, m, h)
    PROVE  \A k \in 0 .. n : g[k] = h[k]
<1> DEFINE T == {k \in 0 .. n : g[k] # h[k]}
<1> SUFFICES ASSUME T # {} PROVE FALSE
  OBVIOUS
<1>0. T \subseteq Nat
  OBVIOUS
<1>1. PICK k \in T : \A j \in T : k <= j
  <2> HIDE DEF T
  <2> QED BY <1>0, LeastOfNat
<1>2. k \in 0 .. n /\ k \in 0 .. m /\ g[k] # h[k]
  BY <1>1
<1>3. k # 0 => k - 1 \in 0 .. n /\ g[k - 1] = h[k - 1]
  BY <1>1, <1>2
<1>4. g[k] = IF k = 0 THEN 0 ELSE g[k - 1] + Size[frames[k].blob]
  BY <1>2 DEF Sums
<1>5. h[k] = IF k = 0 THEN 0 ELSE h[k - 1] + Size[frames[k].blob]
  BY <1>2 DEF Sums
<1> QED BY <1>2, <1>3, <1>4, <1>5

(* ... and PayloadIn takes the last value of one. *)
LEMMA PayloadSums ==
    ASSUME NEW frames, NEW c \in Nat, \A k \in 1 .. c : Size[frames[k].blob] \in Nat,
           NEW n \in 0 .. c
    PROVE  \E g \in [0 .. n -> Nat] : Sums(frames, n, g) /\ PayloadIn(frames, n + 1) = g[n]
<1> DEFINE P(g) == g = [k \in 0 .. (n + 1) - 1 |->
                            IF k = 0 THEN 0 ELSE g[k - 1] + Size[frames[k].blob]]
           s == CHOOSE g : P(g)
<1>1. n \in Nat /\ (n + 1) - 1 = n /\ n \in 0 .. n
  OBVIOUS
<1>2. PICK g \in [0 .. n -> Nat] : Sums(frames, n, g)
  BY SumsExist
<1>3. P(g)
  BY <1>1, <1>2 DEF Sums
<1>4. P(s)
  <2> HIDE DEF P
  <2> QED BY <1>3
<1>5. PayloadIn(frames, n + 1) = s[(n + 1) - 1]
  BY Zenon DEF PayloadIn
<1>6. Sums(frames, n, s)
  <2> HIDE DEF s
  <2> QED BY <1>1, <1>4 DEF Sums
<1>7. s[n] = g[n]
  <2> HIDE DEF s
  <2> QED BY <1>1, <1>2, <1>6, SumsAgree
<1>8. PayloadIn(frames, n + 1) = g[n]
  <2> HIDE DEF s
  <2> QED BY <1>1, <1>5, <1>7
<1> QED BY <1>2, <1>8

(* c frames that declare a size each. *)
Framed(frames, c) == c \in Nat /\ \A k \in 1 .. c : Size[frames[k].blob] \in Nat

(* The payloads before a frame add up frame by frame. *)
LEMMA PayloadAdds ==
    ASSUME NEW frames, NEW c, Framed(frames, c)
    PROVE  /\ PayloadIn(frames, 1) = 0
           /\ \A i \in 1 .. c + 1 : PayloadIn(frames, i) \in Nat
           /\ \A i \in 1 .. c :
                PayloadIn(frames, i + 1) = PayloadIn(frames, i) + Size[frames[i].blob]
<1>1. c \in Nat /\ \A k \in 1 .. c : Size[frames[k].blob] \in Nat
  BY DEF Framed
<1>2. \A n \in 0 .. c : \E g \in [0 .. n -> Nat] :
          Sums(frames, n, g) /\ PayloadIn(frames, n + 1) = g[n]
  BY <1>1, PayloadSums
<1>3. PayloadIn(frames, 1) = 0
  <2>1. PICK n \in 0 .. c : n = 0
    BY <1>1
  <2>2. PICK g \in [0 .. n -> Nat] : Sums(frames, n, g) /\ PayloadIn(frames, n + 1) = g[n]
    BY <1>2
  <2>3. n + 1 = 1 /\ 0 \in 0 .. n
    BY <2>1
  <2>4. PayloadIn(frames, 1) = g[0]
    BY <2>1, <2>2, <2>3
  <2> QED BY <2>1, <2>2, <2>3, <2>4 DEF Sums
<1>4. ASSUME NEW i \in 1 .. c + 1 PROVE PayloadIn(frames, i) \in Nat
  <2>1. i - 1 \in 0 .. c /\ (i - 1) + 1 = i /\ i - 1 \in 0 .. i - 1
    BY <1>1
  <2>2. PICK g \in [0 .. i - 1 -> Nat] : PayloadIn(frames, i) = g[i - 1]
    BY <1>2, <2>1
  <2> QED BY <2>1, <2>2
<1>5. ASSUME NEW i \in 1 .. c
      PROVE  PayloadIn(frames, i + 1) = PayloadIn(frames, i) + Size[frames[i].blob]
  <2>1. i - 1 \in 0 .. c /\ (i - 1) + 1 = i /\ i \in 0 .. c
    BY <1>1
  <2>2. PICK g \in [0 .. i - 1 -> Nat] : Sums(frames, i - 1, g) /\ PayloadIn(frames, i) = g[i - 1]
    BY <1>2, <2>1
  <2>3. PICK h \in [0 .. i -> Nat] : Sums(frames, i, h) /\ PayloadIn(frames, i + 1) = h[i]
    BY <1>2, <2>1
  <2>4. g[i - 1] = h[i - 1]
    <3>1. i - 1 \in Nat /\ i \in Nat /\ i - 1 <= i /\ i - 1 \in 0 .. i - 1
      BY <1>1
    <3> QED BY <2>2, <2>3, <3>1, SumsAgree
  <2>5. h[i] = h[i - 1] + Size[frames[i].blob]
    BY <1>1, <2>3 DEF Sums
  <2> QED BY <2>2, <2>3, <2>4, <2>5
<1> QED BY <1>3, <1>4, <1>5

(* Where the frames start, the end of the body being where one more would. *)
Start(frames, i) == MagicLen + (i - 1) * HeaderLen + PayloadIn(frames, i)

(* They follow one another. *)
LEMMA StartAdds ==
    ASSUME NEW frames, NEW c, Framed(frames, c)
    PROVE  /\ Start(frames, 1) = MagicLen
           /\ \A i \in 1 .. c + 1 : Start(frames, i) \in Nat
           /\ \A i \in 1 .. c :
                Start(frames, i + 1) = Start(frames, i) + HeaderLen + Size[frames[i].blob]
<1>1. c \in Nat /\ MagicLen \in Nat /\ HeaderLen \in Nat
  BY PackAssumption DEF Framed
<1>2. /\ PayloadIn(frames, 1) = 0
      /\ \A i \in 1 .. c + 1 : PayloadIn(frames, i) \in Nat
      /\ \A i \in 1 .. c :
            PayloadIn(frames, i + 1) = PayloadIn(frames, i) + Size[frames[i].blob]
  BY PayloadAdds
<1>3. Start(frames, 1) = MagicLen
  <2>1. (1 - 1) * HeaderLen = 0
    BY <1>1
  <2> QED BY <1>1, <1>2, <2>1 DEF Start
<1>4. \A i \in 1 .. c + 1 : (i - 1) * HeaderLen \in Nat
  BY <1>1
<1>5. \A i \in 1 .. c + 1 : Start(frames, i) \in Nat
  BY <1>1, <1>2, <1>4 DEF Start
<1>6. ASSUME NEW i \in 1 .. c
      PROVE  Start(frames, i + 1) = Start(frames, i) + HeaderLen + Size[frames[i].blob]
  <2>1. ((i + 1) - 1) * HeaderLen = (i - 1) * HeaderLen + HeaderLen /\ (i - 1) * HeaderLen \in Nat
    BY <1>1
  <2>2. i \in 1 .. c + 1 /\ Size[frames[i].blob] \in Nat
    BY <1>1 DEF Framed
  <2> HIDE DEF Framed
  <2> QED BY <1>1, <1>2, <2>1, <2>2 DEF Start
<1> QED BY <1>3, <1>5, <1>6

(* Both grow along the body, and no two frames start at the same byte. *)
LEMMA LayoutGrows ==
    ASSUME NEW frames, NEW c, Framed(frames, c)
    PROVE  \A i, j \in 1 .. c + 1 : i <= j =>
              /\ PayloadIn(frames, i) <= PayloadIn(frames, j)
              /\ Start(frames, i) <= Start(frames, j)
              /\ i < j => Start(frames, i) + HeaderLen + Size[frames[i].blob] <= Start(frames, j)
<1>1. c \in Nat /\ HeaderLen \in Nat /\ \A k \in 1 .. c : Size[frames[k].blob] \in Nat
  BY PackAssumption DEF Framed
<1> SUFFICES ASSUME NEW i \in 1 .. c + 1,
                    NEW b \in 1 .. c + 1, i <= b,
                    ~ /\ PayloadIn(frames, i) <= PayloadIn(frames, b)
                      /\ Start(frames, i) <= Start(frames, b)
                      /\ i < b => Start(frames, i) + HeaderLen + Size[frames[i].blob] <= Start(frames, b)
             PROVE  FALSE
  OBVIOUS
<1> DEFINE Bad(j) == ~ /\ PayloadIn(frames, i) <= PayloadIn(frames, j)
                       /\ Start(frames, i) <= Start(frames, j)
                       /\ i < j => Start(frames, i) + HeaderLen + Size[frames[i].blob] <= Start(frames, j)
           T == {j \in i .. c + 1 : Bad(j)}
<1>2. T \subseteq Nat /\ T # {}
  BY <1>1
<1>3. PICK j \in T : \A k \in T : j <= k
  <2> HIDE DEF T
  <2> QED BY <1>2, LeastOfNat
<1>4. /\ \A k \in 1 .. c + 1 : PayloadIn(frames, k) \in Nat /\ Start(frames, k) \in Nat
      /\ \A k \in 1 .. c :
            /\ PayloadIn(frames, k + 1) = PayloadIn(frames, k) + Size[frames[k].blob]
            /\ Start(frames, k + 1) = Start(frames, k) + HeaderLen + Size[frames[k].blob]
  BY PayloadAdds, StartAdds
<1>5. j \in i .. c + 1 /\ Bad(j)
  BY <1>3
<1>6. j # i
  BY <1>4, <1>5
<1>7. /\ j - 1 \in i .. c + 1 /\ j - 1 \in 1 .. c /\ (j - 1) + 1 = j /\ j - 1 \notin T
      /\ i \in 1 .. c
  BY <1>1, <1>3, <1>5, <1>6
<1>8. ~Bad(j - 1)
  BY <1>7
<1>9. Size[frames[j - 1].blob] \in Nat /\ Size[frames[i].blob] \in Nat
  BY <1>1, <1>7
<1>10. /\ PayloadIn(frames, j) = PayloadIn(frames, j - 1) + Size[frames[j - 1].blob]
       /\ Start(frames, j) = Start(frames, j - 1) + HeaderLen + Size[frames[j - 1].blob]
       /\ PayloadIn(frames, j - 1) \in Nat /\ Start(frames, j - 1) \in Nat
       /\ PayloadIn(frames, i) \in Nat /\ Start(frames, i) \in Nat
  BY <1>1, <1>4, <1>7
<1>11. CASE j - 1 = i
  BY <1>1, <1>5, <1>9, <1>10, <1>11
<1>12. CASE j - 1 # i
  <2>1. i < j - 1 /\ i < j
    BY <1>1, <1>7, <1>12
  <2> QED BY <1>1, <1>5, <1>8, <1>9, <1>10, <2>1
<1> QED BY <1>11, <1>12

-----------------------------------------------------------------------------
(* The handler follows the reader, at a distance of the events between     *)
(* them.  Where either of them is: in front of frame n + 1, or in frame n  *)
(* with some bytes of it had.                                              *)
Gap(n) == [n |-> n, at |-> "gap", had |-> 0]
Within(n, had) == [n |-> n, at |-> "frame", had |-> had]

(* The stages a reader that minds the limits comes through. *)
Stages(frames, decl) ==
    {s \in [n : 0 .. Len(frames), at : {"gap", "frame"}, had : Nat] :
        /\ s.n <= decl.blobs
        /\ \A i \in 1 .. s.n :
              frames[i].fault # "algorithm" /\ Size[frames[i].blob] <= MaxBlobBytes
        /\ s.at = "gap" => s.had = 0 /\ PayloadIn(frames, s.n + 1) <= decl.bytes
        /\ s.at = "frame" =>
              /\ s.n > 0 /\ s.had <= Size[frames[s.n].blob]
              /\ PayloadIn(frames, s.n) + s.had <= decl.bytes}

(* What an event says of the stages before and after it. *)
Step(frames, s, e, t) ==
    \/ e.type = "started" /\ s.at = "gap" /\ e.frame = s.n + 1 /\ t = Within(s.n + 1, 0)
    \/ /\ e.type = "payload" /\ s.at = "frame"
       /\ e.from = Start(frames, s.n) + HeaderLen + s.had
       /\ t = Within(s.n, s.had + (e.to - e.from)) /\ e.from < e.to
    \/ /\ e.type = "complete" /\ s.at = "frame"
       /\ s.had = Size[frames[s.n].blob] /\ t = Gap(s.n)

(* The events es lead from s to t. *)
Path(frames, S, s, es, t) ==
    \E path \in [0 .. Len(es) -> S] :
        /\ path[0] = s /\ path[Len(es)] = t
        /\ \A j \in 1 .. Len(es) : Step(frames, path[j - 1], es[j], path[j])

EventRecords == [type : {"started", "payload", "complete"}, frame : Nat, from : Nat, to : Nat]
ReaderRecords == [state : {"magic", "header", "payload"}, held : Nat, blobs : Nat,
                  payload : Nat, remaining : Nat, pos : Nat]
FrameRecords == [index : Nat, from : Nat, to : Nat]
Live == {"start", "stream", "push", "events", "register"}

PackShapes ==
    /\ body.frames \in Seq(Frames) /\ declared \in [blobs : Nat, bytes : Nat]
    /\ sent \in Nat /\ unread \in Nat /\ rest \in Nat
    /\ reader \in ReaderRecords
    /\ events \in Seq(EventRecords)
    /\ frame \in FrameRecords \cup {None}
    /\ counts \in [created : Nat, existing : Nat]
    /\ phase \in Live \cup Settled

(* The reader r is where its counters say in the body b. *)
ReaderHas(r, b) ==
    /\ r.state = "magic" => r.blobs = 0 /\ r.payload = 0 /\ r.pos = r.held /\ r.held < MagicLen
    /\ r.state = "header" =>
          /\ b.magic /\ r.held < HeaderLen
          /\ r.pos = Start(b.frames, r.blobs + 1) + r.held
          /\ r.payload = PayloadIn(b.frames, r.blobs + 1)
    /\ r.state = "payload" =>
          LET had == Size[b.frames[r.blobs].blob] - r.remaining IN
          /\ b.magic /\ r.held = 0
          /\ r.remaining > 0 /\ r.remaining <= Size[b.frames[r.blobs].blob]
          /\ r.pos = Start(b.frames, r.blobs) + HeaderLen + had
          /\ r.payload = PayloadIn(b.frames, r.blobs) + had

Read(r, b) ==
    IF r.state = "payload" THEN Within(r.blobs, Size[b.frames[r.blobs].blob] - r.remaining)
                           ELSE Gap(r.blobs)

(* The handler has registered the first n frames, and has the frame f. *)
HandlerHas(f, n, b) ==
    f # None =>
        /\ f.index = n + 1
        /\ \/ f.from = 0 /\ f.to = 0
           \/ f.from = Start(b.frames, f.index) + HeaderLen /\ f.from < f.to

Handled(f, n) == IF f = None THEN Gap(n) ELSE Within(f.index, f.to - f.from)

Verified(i) == body.frames[i].fault # "content" /\ body.frames[i].blob \in objects

(* What was registered, and what was counted. *)
LedgerOK ==
    LET n == Cardinality(rows) IN
    /\ n \in Nat /\ rows = 1 .. n
    /\ HandlerHas(frame, n, body)
    /\ \A i \in rows : Verified(i)
    /\ phase = "register" =>
          /\ frame # None /\ Verified(frame.index)
          /\ events # <<>> /\ Head(events).type = "complete"
    /\ phase \in Live =>
          counts.created + counts.existing = IF phase = "register" THEN n + 1 ELSE n

(* The bytes are in the body, in the chunk or consumed; a body is cut in   *)
(* its last frame, if at all; the limits are checked first.                *)
InputOK ==
    /\ FirstCut <= sent /\ sent <= Total
    /\ phase \in Live => reader.pos + rest + unread = sent
    /\ phase \in Live \ {"push"} => rest = 0
    /\ phase \in {"start", "stream"} => events = <<>>
    /\ phase \in Live \ {"start"} =>
          declared.blobs <= MaxBatch /\ declared.bytes <= MaxBlobBytes

PackInv ==
    /\ PackShapes
    /\ ReaderHas(reader, body)
    /\ Path(body.frames, Stages(body.frames, declared),
            Handled(frame, Cardinality(rows)), events, Read(reader, body))
    /\ LedgerOK
    /\ InputOK
    /\ ChunksDoNotMatter
    /\ ReceiptComplete

-----------------------------------------------------------------------------
(* Paths. *)

(* Without events, a path stays where it is. *)
LEMMA PathEmpty ==
    ASSUME NEW frames, NEW S, NEW s, NEW t
    PROVE  /\ Path(frames, S, s, <<>>, t) => s = t /\ s \in S
           /\ s \in S => Path(frames, S, s, <<>>, s)
<1>1. Len(<<>>) = 0
  OBVIOUS
<1>2. ASSUME Path(frames, S, s, <<>>, t) PROVE s = t /\ s \in S
  BY <1>1, <1>2 DEF Path
<1>3. ASSUME s \in S PROVE Path(frames, S, s, <<>>, s)
  <2> DEFINE path == [j \in 0 .. 0 |-> s]
  <2>1. path \in [0 .. 0 -> S] /\ path[0] = s /\ \A j \in 1 .. 0 : FALSE
    BY <1>3
  <2> HIDE DEF path
  <2> QED BY <1>1, <2>1 DEF Path
<1> QED BY <1>2, <1>3

(* A path goes on with one more event, ... *)
LEMMA PathAppend ==
    ASSUME NEW frames, NEW S, NEW s, NEW m, NEW t \in S, NEW E, NEW es \in Seq(E), NEW e \in E,
           Path(frames, S, s, es, m), Step(frames, m, e, t)
    PROVE  Path(frames, S, s, Append(es, e), t)
<1> DEFINE n == Len(es)
<1>1. PICK path \in [0 .. n -> S] :
          /\ path[0] = s /\ path[n] = m
          /\ \A j \in 1 .. n : Step(frames, path[j - 1], es[j], path[j])
  BY DEF Path
<1>2. /\ n \in Nat /\ Len(Append(es, e)) = n + 1 /\ Append(es, e)[n + 1] = e
      /\ \A j \in 1 .. n : Append(es, e)[j] = es[j]
  OBVIOUS
<1> DEFINE more == [j \in 0 .. n + 1 |-> IF j = n + 1 THEN t ELSE path[j]]
<1> HIDE DEF n
<1>3. /\ more \in [0 .. n + 1 -> S] /\ more[0] = s /\ more[n + 1] = t
      /\ \A j \in 0 .. n : more[j] = path[j]
  BY <1>1, <1>2
<1> HIDE DEF more
<1>4. ASSUME NEW j \in 1 .. n + 1 PROVE Step(frames, more[j - 1], Append(es, e)[j], more[j])
  <2>1. CASE j = n + 1
    <3>1. j - 1 = n /\ n \in 0 .. n
      BY <1>2, <2>1
    <3>2. more[j - 1] = m /\ more[j] = t /\ Append(es, e)[j] = e
      BY <1>1, <1>2, <1>3, <2>1, <3>1
    <3> QED BY <3>2
  <2>2. CASE j # n + 1
    <3>1. j \in 1 .. n /\ j - 1 \in 0 .. n /\ j \in 0 .. n
      BY <1>2, <2>2
    <3>2. more[j - 1] = path[j - 1] /\ more[j] = path[j] /\ Append(es, e)[j] = es[j]
      BY <1>2, <1>3, <3>1
    <3> QED BY <1>1, <3>1, <3>2
  <2> QED BY <2>1, <2>2
<1> QED BY <1>2, <1>3, <1>4 DEF Path

(* ... begins with its first one, ... *)
LEMMA PathTail ==
    ASSUME NEW frames, NEW S, NEW s, NEW t, NEW E, NEW es \in Seq(E), es # <<>>,
           Path(frames, S, s, es, t)
    PROVE  \E m \in S : Step(frames, s, Head(es), m) /\ Path(frames, S, m, Tail(es), t)
<1> DEFINE n == Len(es)
<1>1. PICK path \in [0 .. n -> S] :
          /\ path[0] = s /\ path[n] = t
          /\ \A j \in 1 .. n : Step(frames, path[j - 1], es[j], path[j])
  BY DEF Path
<1>2. /\ n \in Nat /\ n > 0 /\ Len(Tail(es)) = n - 1 /\ Head(es) = es[1]
      /\ \A j \in 1 .. n - 1 : Tail(es)[j] = es[j + 1]
  OBVIOUS
<1> HIDE DEF n
<1> DEFINE less == [j \in 0 .. n - 1 |-> path[j + 1]]
<1>3. /\ less \in [0 .. n - 1 -> S] /\ less[0] = path[1] /\ less[n - 1] = t
      /\ \A j \in 0 .. n - 1 : less[j] = path[j + 1]
  BY <1>1, <1>2
<1> HIDE DEF less
<1>4. ASSUME NEW j \in 1 .. n - 1 PROVE Step(frames, less[j - 1], Tail(es)[j], less[j])
  <2>1. /\ j + 1 \in 1 .. n /\ (j + 1) - 1 = j /\ (j - 1) + 1 = j
        /\ j - 1 \in 0 .. n - 1 /\ j \in 0 .. n - 1
    BY <1>2
  <2>2. less[j - 1] = path[j] /\ less[j] = path[j + 1] /\ Tail(es)[j] = es[j + 1]
    BY <1>2, <1>3, <2>1
  <2>3. Step(frames, path[j], es[j + 1], path[j + 1])
    BY <1>1, <2>1
  <2> QED BY <2>2, <2>3
<1>5. Path(frames, S, path[1], Tail(es), t)
  BY <1>2, <1>3, <1>4 DEF Path
<1>6. 1 \in 0 .. n /\ 1 \in 1 .. n /\ 1 - 1 = 0
  BY <1>2
<1>7. path[1] \in S /\ Step(frames, s, Head(es), path[1])
  BY <1>1, <1>2, <1>6
<1> QED BY <1>5, <1>7

(* ... and has stages at both ends. *)
LEMMA PathEnds ==
    ASSUME NEW frames, NEW S, NEW s, NEW t, NEW E, NEW es \in Seq(E),
           Path(frames, S, s, es, t)
    PROVE  s \in S /\ t \in S
<1>1. Len(es) \in Nat
  OBVIOUS
<1>2. PICK path \in [0 .. Len(es) -> S] : path[0] = s /\ path[Len(es)] = t
  BY DEF Path
<1> QED BY <1>1, <1>2

-----------------------------------------------------------------------------
(* The body in the terms of its frames. *)
LEMMA BodyFramed ==
    ASSUME body.frames \in Seq(Frames)
    PROVE  /\ Framed(body.frames, Count) /\ Count \in Nat /\ Count = Len(body.frames)
           /\ \A i \in 1 .. Count : body.frames[i] \in Frames /\ SizeOf(i) \in Nat
           /\ \A i \in 1 .. Count + 1 : HeaderStart(i) = Start(body.frames, i)
           /\ \A i \in 1 .. Count + 1 : PayloadBefore(i) = PayloadIn(body.frames, i)
           /\ Total = Start(body.frames, Count + 1)
           /\ FirstCut = IF Count = 0 THEN 0 ELSE Start(body.frames, Count) + 1
<1>1. Count \in Nat /\ Count = Len(body.frames)
  BY DEF Count
<1>2. \A i \in 1 .. Count : body.frames[i] \in Frames /\ Size[body.frames[i].blob] \in Nat
  <2>1. \A i \in 1 .. Count : body.frames[i] \in Frames
    BY <1>1
  <2>2. \A f \in Frames : Size[f.blob] \in Nat
    BY PackAssumption DEF Frames
  <2> QED BY <2>1, <2>2
<1>3. \A i : HeaderStart(i) = Start(body.frames, i) /\ PayloadBefore(i) = PayloadIn(body.frames, i)
  BY DEF HeaderStart, PayloadBefore, Start
<1> QED BY <1>1, <1>2, <1>3 DEF Framed, SizeOf, Total, FirstCut

(* Where a frame lies in the body. *)
LEMMA FrameLies ==
    ASSUME body.frames \in Seq(Frames)
    PROVE  /\ MagicLen \in Nat /\ MagicLen > 0 /\ HeaderLen \in Nat /\ HeaderLen > 0
           /\ Start(body.frames, 1) = MagicLen /\ PayloadIn(body.frames, 1) = 0
           /\ \A i \in 1 .. Count + 1 :
                 /\ Start(body.frames, i) \in Nat /\ PayloadIn(body.frames, i) \in Nat
                 /\ MagicLen <= Start(body.frames, i) /\ Start(body.frames, i) <= Total
                 /\ PayloadIn(body.frames, i) <= PayloadIn(body.frames, Count + 1)
           /\ \A i \in 1 .. Count :
                 /\ Start(body.frames, i + 1)
                        = Start(body.frames, i) + HeaderLen + Size[body.frames[i].blob]
                 /\ PayloadIn(body.frames, i + 1)
                        = PayloadIn(body.frames, i) + Size[body.frames[i].blob]
                 /\ Start(body.frames, i) < FirstCut
<1> DEFINE fs == body.frames
<1>1. Framed(fs, Count) /\ Count \in Nat /\ Total = Start(fs, Count + 1)
  BY BodyFramed
<1>2. MagicLen \in Nat /\ MagicLen > 0 /\ HeaderLen \in Nat /\ HeaderLen > 0
  BY PackAssumption
<1>3. /\ Start(fs, 1) = MagicLen /\ PayloadIn(fs, 1) = 0
      /\ \A i \in 1 .. Count + 1 : Start(fs, i) \in Nat /\ PayloadIn(fs, i) \in Nat
      /\ \A i \in 1 .. Count :
            /\ Start(fs, i + 1) = Start(fs, i) + HeaderLen + Size[fs[i].blob]
            /\ PayloadIn(fs, i + 1) = PayloadIn(fs, i) + Size[fs[i].blob]
  BY <1>1, StartAdds, PayloadAdds
<1>4. \A i, j \in 1 .. Count + 1 : i <= j =>
            PayloadIn(fs, i) <= PayloadIn(fs, j) /\ Start(fs, i) <= Start(fs, j)
  BY <1>1, LayoutGrows
<1> HIDE DEF fs
<1>5. ASSUME NEW i \in 1 .. Count + 1
      PROVE  /\ MagicLen <= Start(fs, i) /\ Start(fs, i) <= Total
             /\ PayloadIn(fs, i) <= PayloadIn(fs, Count + 1)
  <2>1. 1 \in 1 .. Count + 1 /\ Count + 1 \in 1 .. Count + 1 /\ 1 <= i /\ i <= Count + 1
    BY <1>1
  <2> QED BY <1>1, <1>3, <1>4, <2>1
<1>6. ASSUME NEW i \in 1 .. Count PROVE Start(fs, i) < FirstCut
  <2>1. i \in 1 .. Count + 1 /\ Count \in 1 .. Count + 1 /\ i <= Count /\ Count # 0
    BY <1>1
  <2>2. FirstCut = Start(fs, Count) + 1
    BY <2>1, BodyFramed DEF fs
  <2> QED BY <1>3, <1>4, <2>1, <2>2
<1> QED BY <1>2, <1>3, <1>5, <1>6 DEF fs

(* The invariant holds before the request is looked at. *)
LEMMA PackInitially == Init => PackInv
<1> SUFFICES ASSUME Init PROVE PackInv
  OBVIOUS
<1>1. PICK n \in 0 .. MaxFrames : body.frames \in [1 .. n -> Frames]
  BY DEF Init, FrameLists
<1>2. body.frames \in Seq(Frames)
  BY <1>1, PackAssumption, IsASeq
<1>3. /\ Count \in Nat /\ Total \in Nat /\ FirstCut \in Nat /\ FirstCut <= Total
      /\ PayloadBefore(Count + 1) \in Nat
  <2>1. /\ Count \in Nat /\ Count + 1 \in 1 .. Count + 1
        /\ Count # 0 => Count \in 1 .. Count + 1 /\ Count \in 1 .. Count
    BY <1>2, BodyFramed
  <2>2. Total = Start(body.frames, Count + 1)
        /\ FirstCut = (IF Count = 0 THEN 0 ELSE Start(body.frames, Count) + 1)
        /\ PayloadBefore(Count + 1) = PayloadIn(body.frames, Count + 1)
    BY <1>2, <2>1, BodyFramed
  <2>3. Total \in Nat /\ PayloadBefore(Count + 1) \in Nat
    BY <1>2, <2>1, <2>2, FrameLies
  <2>4. ASSUME Count # 0
        PROVE  /\ Start(body.frames, Count) \in Nat /\ HeaderLen \in Nat /\ HeaderLen > 0
               /\ Size[body.frames[Count].blob] \in Nat
               /\ Total = Start(body.frames, Count) + HeaderLen + Size[body.frames[Count].blob]
    BY <1>2, <2>1, <2>2, <2>4, FrameLies, BodyFramed DEF Framed
  <2> QED BY <2>1, <2>2, <2>3, <2>4
<1>4. sent \in Nat /\ FirstCut <= sent /\ sent <= Total
  BY <1>3 DEF Init
<1>5. declared \in [blobs : Nat, bytes : Nat]
  <2>1. PICK b \in 0 .. MaxFrames + 1, s \in 0 .. PayloadBefore(Count + 1) + 1 :
            declared = [blobs |-> b, bytes |-> s]
    BY DEF Init
  <2>2. b \in Nat /\ s \in Nat
    BY <1>3, PackAssumption
  <2> QED BY <2>1, <2>2
<1>6. /\ unread = sent /\ rest = 0 /\ events = <<>> /\ frame = None /\ rows = {}
      /\ counts = [created |-> 0, existing |-> 0] /\ phase = "start"
      /\ reader = [state |-> "magic", held |-> 0, blobs |-> 0, payload |-> 0,
                   remaining |-> 0, pos |-> 0]
  BY DEF Init
<1>7. PackShapes
  BY <1>2, <1>4, <1>5, <1>6 DEF PackShapes, ReaderRecords, Live
<1>8. ReaderHas(reader, body)
  BY <1>6, PackAssumption DEF ReaderHas
<1>9. Cardinality(rows) = 0 /\ rows = 1 .. 0
  BY <1>6, FS_EmptySet
<1>10. LedgerOK
  BY <1>6, <1>9 DEF LedgerOK, HandlerHas, Live
<1>11. InputOK
  BY <1>4, <1>6 DEF InputOK, Live
<1>12. Gap(0) \in Stages(body.frames, declared)
  <2>1. Gap(0) \in [n : 0 .. Len(body.frames), at : {"gap", "frame"}, had : Nat]
    BY <1>2 DEF Gap
  <2>2. PayloadIn(body.frames, 0 + 1) <= declared.bytes /\ 0 <= declared.blobs
    BY <1>2, <1>5, FrameLies
  <2> QED BY <2>1, <2>2 DEF Stages, Gap
<1>13. Path(body.frames, Stages(body.frames, declared),
            Handled(frame, Cardinality(rows)), events, Read(reader, body))
  <2>1. Handled(frame, Cardinality(rows)) = Gap(0) /\ Read(reader, body) = Gap(0)
    BY <1>6, <1>9 DEF Handled, Read
  <2> QED BY <1>6, <1>12, <2>1, PathEmpty
<1>14. ChunksDoNotMatter /\ ReceiptComplete
  BY <1>6 DEF ChunksDoNotMatter, ReceiptComplete
<1> QED BY <1>7, <1>8, <1>10, <1>11, <1>13, <1>14 DEF PackInv

-----------------------------------------------------------------------------
(* The request stays what it was. *)
LEMMA SameRequest ==
    ASSUME UNCHANGED request
    PROVE  /\ body' = body /\ sent' = sent /\ declared' = declared
           /\ Count' = Count /\ Total' = Total /\ FirstCut' = FirstCut
           /\ Acceptable' = Acceptable
<1>1. body' = body /\ sent' = sent /\ declared' = declared
  BY DEF request
<1>2. \A i : PayloadBefore(i)' = PayloadBefore(i)
  BY <1>1 DEF PayloadBefore
<1>3. \A i : HeaderStart(i)' = HeaderStart(i)
  BY <1>2 DEF HeaderStart
<1>4. Count' = Count
  BY <1>1 DEF Count
<1>5. Total' = Total /\ FirstCut' = FirstCut
  BY <1>3, <1>4 DEF Total, FirstCut
<1>6. Acceptable' = Acceptable
  BY <1>1, <1>2, <1>4, <1>5 DEF Acceptable, SizeOf
<1> QED BY <1>1, <1>4, <1>5, <1>6

(* The request ends, and the answer is the one the pack deserves. *)
LEMMA Ends ==
    ASSUME PackInv, NEW o \in Settled, Finish(o),
           o = "accepted" => /\ Acceptable /\ rows = 1 .. Count
                             /\ counts.created + counts.existing = Count,
           o \in {"malformed", "refused"} => ~Acceptable
    PROVE  PackInv'
<1>1. /\ phase' = o /\ UNCHANGED <<request, unread, rest, reader, events, frame, objects, rows, counts>>
  BY DEF Finish
<1>2. /\ body' = body /\ sent' = sent /\ declared' = declared
      /\ Count' = Count /\ Total' = Total /\ FirstCut' = FirstCut /\ Acceptable' = Acceptable
  BY <1>1, SameRequest
<1>3. phase' \notin Live
  BY <1>1 DEF Live, Settled
<1>4. phase' # "register" /\ phase' \notin {"start", "stream"}
  BY <1>3 DEF Live
<1>5. PackShapes'
  BY <1>1, <1>2 DEF PackInv, PackShapes
<1>6. ReaderHas(reader, body)'
  BY <1>1, <1>2 DEF PackInv, ReaderHas
<1>7. Path(body.frames, Stages(body.frames, declared),
           Handled(frame, Cardinality(rows)), events, Read(reader, body))'
  BY <1>1, <1>2 DEF PackInv
<1>8. LedgerOK'
  BY <1>1, <1>2, <1>3, <1>4 DEF PackInv, LedgerOK, Verified
<1>9. InputOK'
  BY <1>1, <1>2, <1>3, <1>4 DEF PackInv, InputOK
<1>10. ChunksDoNotMatter' /\ ReceiptComplete'
  BY <1>1, <1>2 DEF ChunksDoNotMatter, ReceiptComplete
<1> QED BY <1>5, <1>6, <1>7, <1>8, <1>9, <1>10 DEF PackInv

(* The handler waits for the body, after the limits or after the events. *)
LEMMA Streams ==
    ASSUME PackInv, Finish("stream"),
           \/ phase = "start" /\ declared.blobs <= MaxBatch /\ declared.bytes <= MaxBlobBytes
           \/ phase = "events" /\ events = <<>>
    PROVE  PackInv'
<1>1. /\ phase' = "stream" /\ UNCHANGED <<request, unread, rest, reader, events, frame, objects, rows, counts>>
  BY DEF Finish
<1>2. /\ body' = body /\ sent' = sent /\ declared' = declared
      /\ Count' = Count /\ Total' = Total /\ FirstCut' = FirstCut
  BY <1>1, SameRequest
<1>3. /\ phase \in Live /\ phase # "register" /\ phase # "push" /\ phase' \in Live
      /\ phase' \notin Settled /\ phase' # "register"
  BY <1>1 DEF Live, Settled
<1>4. declared.blobs <= MaxBatch /\ declared.bytes <= MaxBlobBytes /\ events = <<>>
  BY <1>3 DEF PackInv, InputOK
<1>5. PackShapes'
  BY <1>1, <1>2, <1>3 DEF PackInv, PackShapes
<1>6. ReaderHas(reader, body)'
  BY <1>1, <1>2 DEF PackInv, ReaderHas
<1>7. Path(body.frames, Stages(body.frames, declared),
           Handled(frame, Cardinality(rows)), events, Read(reader, body))'
  BY <1>1, <1>2 DEF PackInv
<1>8. LedgerOK'
  BY <1>1, <1>2, <1>3 DEF PackInv, LedgerOK, Verified
<1>9. InputOK'
  BY <1>1, <1>2, <1>3, <1>4 DEF PackInv, InputOK
<1>10. ChunksDoNotMatter' /\ ReceiptComplete'
  BY <1>1 DEF ChunksDoNotMatter, ReceiptComplete
<1> QED BY <1>5, <1>6, <1>7, <1>8, <1>9, <1>10 DEF PackInv

(* The reader moves through the chunk, with new events for the handler. *)
LEMMA ReaderMoves ==
    ASSUME PackInv, NEW r \in ReaderRecords, NEW es \in Seq(EventRecords),
           NEW left \in Nat, NEW more \in Nat, NEW p \in {"push", "events"},
           phase \in {"stream", "push"},
           reader' = r, rest' = left, events' = es, unread' = more, phase' = p,
           UNCHANGED <<request, frame, objects, rows, counts>>,
           ReaderHas(r, body), r.pos + left + more = reader.pos + rest + unread,
           p = "events" => left = 0,
           Path(body.frames, Stages(body.frames, declared),
                Handled(frame, Cardinality(rows)), es, Read(r, body))
    PROVE  PackInv'
<1>2. /\ body' = body /\ sent' = sent /\ declared' = declared
      /\ Count' = Count /\ Total' = Total /\ FirstCut' = FirstCut
  BY SameRequest
<1>3. /\ phase \in Live /\ phase # "start" /\ phase # "register" /\ phase' \in Live
      /\ phase' \notin Settled /\ phase' # "register" /\ phase' \notin {"start", "stream"}
  BY DEF Live, Settled
<1>4. /\ declared.blobs <= MaxBatch /\ declared.bytes <= MaxBlobBytes
      /\ reader.pos + rest + unread = sent
  BY <1>3 DEF PackInv, InputOK
<1>5. PackShapes'
  BY <1>2, <1>3 DEF PackInv, PackShapes
<1>6. ReaderHas(reader, body)'
  BY <1>2 DEF ReaderHas
<1>7. Path(body.frames, Stages(body.frames, declared),
           Handled(frame, Cardinality(rows)), events, Read(reader, body))'
  BY <1>2
<1>8. LedgerOK'
  BY <1>2, <1>3 DEF PackInv, LedgerOK, Verified
<1>9. InputOK'
  BY <1>2, <1>3, <1>4 DEF PackInv, InputOK
<1>10. ChunksDoNotMatter' /\ ReceiptComplete'
  BY DEF ChunksDoNotMatter, ReceiptComplete
<1> QED BY <1>5, <1>6, <1>7, <1>8, <1>9, <1>10 DEF PackInv

-----------------------------------------------------------------------------
(* fill takes some bytes off the chunk: enough, or all there are. *)
LEMMA Fills ==
    ASSUME reader \in ReaderRecords, rest \in Nat, NEW wanted \in Nat, reader.held < wanted
    PROVE  \E take \in Nat :
              /\ take <= rest /\ reader.held + take <= wanted
              /\ reader.held + take = wanted \/ take = rest
              /\ fill(wanted).rest = rest - take
              /\ fill(wanted).reader \in ReaderRecords
              /\ fill(wanted).reader.state = reader.state
              /\ fill(wanted).reader.blobs = reader.blobs
              /\ fill(wanted).reader.payload = reader.payload
              /\ fill(wanted).reader.remaining = reader.remaining
              /\ fill(wanted).reader.held = reader.held + take
              /\ fill(wanted).reader.pos = reader.pos + take
<1> DEFINE take == Least(wanted - reader.held, rest)
           r == [reader EXCEPT !.held = reader.held + take, !.pos = reader.pos + take]
<1>1. reader.held \in Nat /\ reader.pos \in Nat
  BY DEF ReaderRecords
<1>2. /\ take \in Nat /\ take <= rest /\ reader.held + take <= wanted
      /\ reader.held + take = wanted \/ take = rest
  BY <1>1 DEF Least
<1>3. fill(wanted).reader = r /\ fill(wanted).rest = rest - take
  BY DEF fill
<1> HIDE DEF take
<1>4. PICK h \in Nat, q \in Nat : h = reader.held + take /\ q = reader.pos + take
  BY <1>1, <1>2
<1>5. /\ r \in ReaderRecords
      /\ r.state = reader.state /\ r.blobs = reader.blobs /\ r.payload = reader.payload
      /\ r.remaining = reader.remaining
      /\ r.held = reader.held + take /\ r.pos = reader.pos + take
  BY <1>4 DEF ReaderRecords
<1> HIDE DEF r
<1> QED BY <1>2, <1>3, <1>5

(* What the invariant says where the reader is at work. *)
LEMMA AtWork ==
    ASSUME PackInv
    PROVE  /\ body.frames \in Seq(Frames) /\ Count \in Nat /\ Count = Len(body.frames)
           /\ declared.blobs \in Nat /\ declared.bytes \in Nat
           /\ reader \in ReaderRecords /\ reader.pos \in Nat /\ reader.held \in Nat
           /\ reader.blobs \in 0 .. Count /\ reader.payload \in Nat /\ reader.remaining \in Nat
           /\ rest \in Nat /\ unread \in Nat /\ sent \in Nat
           /\ events \in Seq(EventRecords)
           /\ Read(reader, body) \in Stages(body.frames, declared)
           /\ Handled(frame, Cardinality(rows)) \in Stages(body.frames, declared)
           /\ reader.state = "payload" => reader.blobs \in 1 .. Count
<1>1. /\ body.frames \in Seq(Frames) /\ declared \in [blobs : Nat, bytes : Nat]
      /\ reader \in ReaderRecords /\ rest \in Nat /\ unread \in Nat /\ sent \in Nat
      /\ events \in Seq(EventRecords)
  BY DEF PackInv, PackShapes
<1>2. Count \in Nat /\ Count = Len(body.frames)
  BY <1>1 DEF Count
<1>3. /\ Read(reader, body) \in Stages(body.frames, declared)
      /\ Handled(frame, Cardinality(rows)) \in Stages(body.frames, declared)
  BY <1>1, PathEnds DEF PackInv
<1>4. /\ Read(reader, body).n = reader.blobs
      /\ Read(reader, body).at = IF reader.state = "payload" THEN "frame" ELSE "gap"
  BY DEF Read, Within, Gap
<1>5. /\ reader.blobs \in 0 .. Count
      /\ reader.state = "payload" => reader.blobs \in 1 .. Count
  BY <1>2, <1>3, <1>4 DEF Stages
<1> QED BY <1>1, <1>2, <1>3, <1>5 DEF ReaderRecords

(* The reader takes the magic prefix. *)
LEMMA PushMagic == PackInv /\ push_magic => PackInv'
<1> SUFFICES ASSUME PackInv, push_magic PROVE PackInv'
  OBVIOUS
<1> DEFINE f == fill(MagicLen)
<1>1. phase = "push" /\ reader.state = "magic"
  BY DEF push_magic, Reading
<1>2. /\ reader \in ReaderRecords /\ rest \in Nat /\ unread \in Nat /\ events \in Seq(EventRecords)
      /\ reader.pos \in Nat /\ reader.held \in Nat /\ body.frames \in Seq(Frames)
  BY AtWork
<1>3. /\ reader.blobs = 0 /\ reader.payload = 0 /\ reader.pos = reader.held
      /\ reader.held < MagicLen /\ MagicLen \in Nat /\ MagicLen > 0 /\ HeaderLen > 0
      /\ HeaderLen \in Nat
      /\ Start(body.frames, 0 + 1) = MagicLen /\ PayloadIn(body.frames, 0 + 1) = 0
  BY <1>1, <1>2, FrameLies DEF PackInv, ReaderHas
<1>4. PICK take \in Nat :
          /\ take <= rest /\ reader.held + take <= MagicLen
          /\ reader.held + take = MagicLen \/ take = rest
          /\ f.rest = rest - take /\ f.reader \in ReaderRecords
          /\ f.reader.state = reader.state /\ f.reader.blobs = reader.blobs
          /\ f.reader.payload = reader.payload /\ f.reader.remaining = reader.remaining
          /\ f.reader.held = reader.held + take /\ f.reader.pos = reader.pos + take
  BY <1>2, <1>3, Fills
<1> HIDE DEF f
<1>5. PICK old : old = Read(reader, body)
  OBVIOUS
<1>6. old = Gap(0) /\ Path(body.frames, Stages(body.frames, declared),
                           Handled(frame, Cardinality(rows)), events, Gap(0))
  BY <1>1, <1>3, <1>5 DEF PackInv, Read
<1>7. CASE f.reader.held # MagicLen /\ Return(f.reader, f.rest)
  <2>0. /\ f.reader.state = "magic" /\ f.reader.held < MagicLen /\ f.reader.pos = f.reader.held
        /\ f.reader.blobs = 0 /\ f.reader.payload = 0
    BY <1>1, <1>2, <1>3, <1>4, <1>7
  <2>1. ReaderHas(f.reader, body) /\ Read(f.reader, body) = Gap(0)
    BY <2>0 DEF ReaderHas, Read
  <2>2. f.rest = 0 /\ f.reader.pos + f.rest + unread = reader.pos + rest + unread
    BY <1>2, <1>4, <1>7
  <2>3. PICK r \in ReaderRecords : r = f.reader
    BY <1>4
  <2> QED BY <1>1, <1>2, <1>6, <1>7, <2>1, <2>2, <2>3, ReaderMoves DEF Return
<1>8. CASE ~body.magic /\ Finish("malformed")
  BY <1>8, Ends DEF Acceptable, Settled
<1>9. CASE /\ f.reader.held = MagicLen /\ body.magic
           /\ Continue([f.reader EXCEPT !.held = 0, !.state = "header"], f.rest, <<>>)
  <2> DEFINE r == [f.reader EXCEPT !.held = 0, !.state = "header"]
  <2>1. /\ r \in ReaderRecords /\ r.state = "header" /\ r.held = 0 /\ r.blobs = 0
        /\ r.payload = 0 /\ r.pos = reader.pos + take
    BY <1>3, <1>4 DEF ReaderRecords
  <2>2. /\ reader' = r /\ rest' = f.rest /\ events' = events /\ unread' = unread
        /\ phase' = phase /\ UNCHANGED <<request, frame, objects, rows, counts>>
    BY <1>2, <1>9 DEF Continue
  <2> HIDE DEF r
  <2>3. ReaderHas(r, body) /\ Read(r, body) = Gap(0)
    BY <1>3, <1>4, <1>9, <2>1 DEF ReaderHas, Read
  <2>4. f.rest \in Nat /\ r.pos + f.rest + unread = reader.pos + rest + unread
    BY <1>2, <1>4, <2>1
  <2> QED BY <1>1, <1>2, <1>6, <2>1, <2>2, <2>3, <2>4, ReaderMoves
<1> QED BY <1>7, <1>8, <1>9 DEF push_magic, f

(* The header in the buffer is that of the next frame. *)
LEMMA HeaderIsNext ==
    ASSUME body.frames \in Seq(Frames), NEW n \in 0 .. Count,
           NEW i \in FrameAt(Start(body.frames, n + 1))
    PROVE  i = n + 1 /\ i \in 1 .. Count
<1>1. /\ Framed(body.frames, Count) /\ Count \in Nat
      /\ i \in 1 .. Count /\ Start(body.frames, i) = Start(body.frames, n + 1)
  BY BodyFramed DEF FrameAt
<1>2. i \in 1 .. Count + 1 /\ n + 1 \in 1 .. Count + 1
  BY <1>1
<1>3. /\ HeaderLen \in Nat /\ HeaderLen > 0
      /\ Start(body.frames, i) \in Nat /\ Start(body.frames, n + 1) \in Nat
  BY <1>2, FrameLies
<1>4. CASE i < n + 1
  <2>1. Start(body.frames, i) + HeaderLen + Size[body.frames[i].blob] <= Start(body.frames, n + 1)
    BY <1>1, <1>2, <1>4, LayoutGrows
  <2>2. Size[body.frames[i].blob] \in Nat
    BY <1>1 DEF Framed
  <2> QED BY <1>1, <1>3, <2>1, <2>2
<1>5. CASE n + 1 < i
  <2>1. Start(body.frames, n + 1) + HeaderLen + Size[body.frames[n + 1].blob] <= Start(body.frames, i)
    BY <1>1, <1>2, <1>5, LayoutGrows
  <2>2. Size[body.frames[n + 1].blob] \in Nat
    BY <1>1, <1>5 DEF Framed
  <2> QED BY <1>1, <1>3, <2>1, <2>2
<1> QED BY <1>1, <1>2, <1>4, <1>5

(* The stages on the way through a frame. *)
LEMMA FrameStages ==
    ASSUME body.frames \in Seq(Frames), declared \in [blobs : Nat, bytes : Nat],
           NEW n \in 1 .. Count,
           n <= declared.blobs,
           \A i \in 1 .. n : body.frames[i].fault # "algorithm"
                             /\ Size[body.frames[i].blob] <= MaxBlobBytes,
           NEW had \in Nat, had <= Size[body.frames[n].blob],
           PayloadIn(body.frames, n) + had <= declared.bytes
    PROVE  /\ Within(n, had) \in Stages(body.frames, declared)
           /\ had = Size[body.frames[n].blob] => Gap(n) \in Stages(body.frames, declared)
<1>1. Count \in Nat /\ Count = Len(body.frames)
  BY DEF Count
<1>2. /\ Within(n, had) \in [n : 0 .. Len(body.frames), at : {"gap", "frame"}, had : Nat]
      /\ Within(n, had).n = n /\ Within(n, had).at = "frame" /\ Within(n, had).had = had
  BY <1>1 DEF Within
<1>3. /\ Gap(n) \in [n : 0 .. Len(body.frames), at : {"gap", "frame"}, had : Nat]
      /\ Gap(n).n = n /\ Gap(n).at = "gap" /\ Gap(n).had = 0
  BY <1>1 DEF Gap
<1>4. PayloadIn(body.frames, n + 1) = PayloadIn(body.frames, n) + Size[body.frames[n].blob]
  BY FrameLies
<1>5. Within(n, had) \in Stages(body.frames, declared)
  BY <1>2 DEF Stages
<1>6. ASSUME had = Size[body.frames[n].blob] PROVE Gap(n) \in Stages(body.frames, declared)
  BY <1>3, <1>4, <1>6 DEF Stages
<1> QED BY <1>5, <1>6

(* The reader takes a header: the next frame's, or the pack is malformed. *)
LEMMA PushHeader == PackInv /\ push_header => PackInv'
<1> SUFFICES ASSUME PackInv, push_header PROVE PackInv'
  OBVIOUS
<1> DEFINE f == fill(HeaderLen)
           n == reader.blobs
           here == Start(body.frames, n + 1)
           S == Stages(body.frames, declared)
           H == Handled(frame, Cardinality(rows))
<1>1. phase = "push" /\ reader.state = "header"
  BY DEF push_header, Reading
<1>2. /\ reader \in ReaderRecords /\ rest \in Nat /\ unread \in Nat /\ sent \in Nat
      /\ events \in Seq(EventRecords)
      /\ reader.pos \in Nat /\ reader.held \in Nat /\ body.frames \in Seq(Frames)
      /\ n \in 0 .. Count /\ Count \in Nat /\ reader.payload \in Nat
      /\ declared \in [blobs : Nat, bytes : Nat]
  BY AtWork DEF PackInv, PackShapes
<1>3. /\ body.magic /\ reader.held < HeaderLen /\ reader.pos = here + reader.held
      /\ reader.payload = PayloadIn(body.frames, n + 1)
      /\ HeaderLen \in Nat /\ HeaderLen > 0 /\ here \in Nat /\ here <= Total
      /\ Total \in Nat /\ Total = Start(body.frames, Count + 1)
  <2>1. n + 1 \in 1 .. Count + 1 /\ Count + 1 \in 1 .. Count + 1
    BY <1>2
  <2> QED BY <1>1, <1>2, <2>1, FrameLies, BodyFramed DEF PackInv, ReaderHas
<1>4. PICK take \in Nat :
          /\ take <= rest /\ reader.held + take <= HeaderLen
          /\ reader.held + take = HeaderLen \/ take = rest
          /\ f.rest = rest - take /\ f.reader \in ReaderRecords
          /\ f.reader.state = reader.state /\ f.reader.blobs = reader.blobs
          /\ f.reader.payload = reader.payload /\ f.reader.remaining = reader.remaining
          /\ f.reader.held = reader.held + take /\ f.reader.pos = reader.pos + take
  BY <1>2, <1>3, Fills
<1>5. /\ reader.pos + rest + unread = sent /\ sent <= Total
      /\ Path(body.frames, S, H, events, Gap(n)) /\ Gap(n) \in S
  BY <1>1, AtWork DEF PackInv, InputOK, Read, Live
<1>6. Gap(n).n = n /\ Gap(n).at = "gap"
  BY DEF Gap
<1> HIDE DEF f
<1>nat. /\ reader.pos \in Nat /\ reader.held \in Nat /\ rest \in Nat /\ unread \in Nat
        /\ HeaderLen \in Nat /\ here \in Nat /\ reader.pos = here + reader.held
        /\ take <= rest /\ reader.held + take <= HeaderLen
  BY <1>2, <1>3, <1>4
(* push returns in front of a header or in it. *)
<1>7. ASSUME NEW r \in ReaderRecords, r.state = "header", r.blobs = n, r.payload = reader.payload,
             r.held < HeaderLen, r.pos = here + r.held, r.pos = reader.pos + rest, Return(r, 0)
      PROVE  PackInv'
  <2>1. ReaderHas(r, body) /\ Read(r, body) = Gap(n)
    BY <1>3, <1>7 DEF ReaderHas, Read
  <2>2. r.pos + 0 + unread = reader.pos + rest + unread
    BY <1>2, <1>7
  <2> QED BY <1>1, <1>2, <1>5, <1>7, <2>1, <2>2, ReaderMoves DEF Return
<1>8. CASE rest = 0 /\ reader.held = 0 /\ Return(reader, 0)
  BY <1>1, <1>2, <1>3, <1>7, <1>8
<1>9. CASE f.reader.held # HeaderLen /\ Return(f.reader, f.rest)
  <2>1. PICK r \in ReaderRecords : r = f.reader
    BY <1>4
  <2>2. /\ r.state = "header" /\ r.blobs = n /\ r.payload = reader.payload
        /\ r.held < HeaderLen /\ r.pos = here + r.held /\ r.pos = reader.pos + rest
        /\ f.rest = 0
    <3>1. take = rest /\ reader.held + take # HeaderLen
      BY <1>4, <1>9
    <3>2. /\ reader.held + take < HeaderLen /\ rest - take = 0
          /\ reader.pos + take = here + (reader.held + take)
      BY <1>nat, <3>1
    <3> QED BY <1>1, <1>4, <2>1, <3>1, <3>2
  <2> QED BY <1>7, <1>9, <2>1, <2>2
(* A whole header: it ends in the body, so that it is a frame's. *)
<1>10. ASSUME f.reader.held = HeaderLen
       PROVE  /\ f.reader.pos = here + HeaderLen /\ f.reader.pos - HeaderLen = here
              /\ n + 1 \in 1 .. Count
  <2>1. /\ f.reader.pos = here + HeaderLen /\ f.reader.pos - HeaderLen = here
        /\ f.reader.pos <= sent
    <3>1. reader.held + take = HeaderLen
      BY <1>4, <1>10
    <3>2. /\ reader.pos + take = here + HeaderLen /\ (here + HeaderLen) - HeaderLen = here
          /\ reader.pos + take <= reader.pos + rest + unread
      BY <1>nat, <3>1
    <3> QED BY <1>4, <1>5, <3>2
  <2>2. n # Count
    BY <1>2, <1>3, <1>5, <2>1
  <2> QED BY <1>2, <2>1, <2>2
<1>11. CASE /\ f.reader.held = HeaderLen
            /\ parse_header(f.reader.pos - HeaderLen) = {} \/ reader.blobs + 1 > declared.blobs
            /\ Finish("malformed")
  <2>1. n + 1 \in 1 .. Count /\ f.reader.pos - HeaderLen = here
    BY <1>10, <1>11
  <2>2. CASE parse_header(f.reader.pos - HeaderLen) = {}
    <3>1. n + 1 \in FrameAt(here)
      BY <1>2, <2>1, BodyFramed DEF FrameAt
    <3>2. ~(body.frames[n + 1].fault # "algorithm" /\ SizeOf(n + 1) <= MaxBlobBytes)
      BY <2>1, <2>2, <3>1 DEF parse_header
    <3>3. ~Acceptable
      BY <2>1, <3>2 DEF Acceptable
    <3> QED BY <1>11, <3>3, Ends DEF Settled
  <2>3. CASE n + 1 > declared.blobs
    <3>1. ASSUME Acceptable PROVE FALSE
      <4>1. declared.blobs = Count
        BY <3>1 DEF Acceptable
      <4> QED BY <1>2, <2>1, <2>3, <4>1
    <3> QED BY <1>11, <3>1, Ends DEF Settled
  <2> QED BY <1>11, <2>2, <2>3
<1>12. ASSUME f.reader.held = HeaderLen, n + 1 <= declared.blobs,
              NEW i \in parse_header(f.reader.pos - HeaderLen),
              Continue([f.reader EXCEPT !.held = 0, !.blobs = @ + 1,
                            !.remaining = SizeOf(i),
                            !.state = IF SizeOf(i) = 0 THEN "header" ELSE "payload"],
                       f.rest,
                       IF SizeOf(i) = 0 THEN <<Started(i), Complete>> ELSE <<Started(i)>>)
       PROVE  PackInv'
  <2>1. f.reader.pos = here + HeaderLen /\ f.reader.pos - HeaderLen = here
    BY <1>10, <1>12
  <2>2. /\ i \in FrameAt(here)
        /\ body.frames[i].fault # "algorithm" /\ SizeOf(i) <= MaxBlobBytes
    BY <1>12, <2>1 DEF parse_header
  <2>3. i = n + 1 /\ i \in 1 .. Count /\ i \in Nat
    BY <1>2, <2>2, HeaderIsNext
  <2>4. SizeOf(i) \in Nat /\ SizeOf(i) = Size[body.frames[i].blob]
    BY <1>2, <2>3, BodyFramed DEF SizeOf
  <2> DEFINE r == [f.reader EXCEPT !.held = 0, !.blobs = f.reader.blobs + 1,
                       !.remaining = SizeOf(i),
                       !.state = IF SizeOf(i) = 0 THEN "header" ELSE "payload"]
             new == IF SizeOf(i) = 0 THEN <<Started(i), Complete>> ELSE <<Started(i)>>
             next == IF SizeOf(i) = 0 THEN Gap(i) ELSE Within(i, 0)
  <2>5. /\ reader' = r /\ rest' = f.rest /\ events' = events \o new /\ unread' = unread
        /\ phase' = phase /\ UNCHANGED <<request, frame, objects, rows, counts>>
    BY <1>12 DEF Continue
  <2>6. /\ r \in ReaderRecords /\ r.held = 0 /\ r.blobs = i /\ r.payload = reader.payload
        /\ r.remaining = SizeOf(i) /\ r.pos = here + HeaderLen
        /\ r.state = IF SizeOf(i) = 0 THEN "header" ELSE "payload"
    <3>1. f.reader \in ReaderRecords /\ f.reader.blobs + 1 = i
      BY <1>4, <2>3
    <3> QED BY <1>4, <2>1, <2>3, <2>4, <3>1 DEF ReaderRecords
  <2> HIDE DEF r
  <2>7. /\ Start(body.frames, i + 1) = here + HeaderLen + SizeOf(i)
        /\ PayloadIn(body.frames, i + 1) = reader.payload + SizeOf(i)
    BY <1>2, <1>3, <2>3, <2>4, FrameLies
  <2>8. ReaderHas(r, body) /\ Read(r, body) = next
    <3>1. CASE SizeOf(i) = 0
      <4>1. r.pos = Start(body.frames, i + 1) + r.held /\ r.payload = PayloadIn(body.frames, i + 1)
        BY <1>2, <1>3, <2>6, <2>7, <3>1
      <4> QED BY <1>3, <2>6, <3>1, <4>1 DEF ReaderHas, Read
    <3>2. CASE SizeOf(i) # 0
      <4>1. SizeOf(i) - r.remaining = 0 /\ r.remaining > 0 /\ r.remaining <= SizeOf(i)
        BY <2>4, <2>6, <3>2
      <4>2. /\ r.pos = Start(body.frames, i) + HeaderLen + (SizeOf(i) - r.remaining)
            /\ r.payload = PayloadIn(body.frames, i) + (SizeOf(i) - r.remaining)
        BY <1>2, <1>3, <2>3, <2>6, <4>1
      <4> QED BY <1>3, <2>4, <2>6, <3>2, <4>1, <4>2 DEF ReaderHas, Read
    <3> QED BY <3>1, <3>2
  <2>9. /\ Within(i, 0) \in S
        /\ SizeOf(i) = 0 => Gap(i) \in S
    <3>1. \A k \in 1 .. n : body.frames[k].fault # "algorithm"
                            /\ Size[body.frames[k].blob] <= MaxBlobBytes
      BY <1>5, <1>6 DEF Stages
    <3>2. \A k \in 1 .. i : k \in 1 .. n \/ k = i
      BY <1>2, <2>3
    <3>3. \A k \in 1 .. i : body.frames[k].fault # "algorithm"
                            /\ Size[body.frames[k].blob] <= MaxBlobBytes
      BY <2>2, <2>4, <3>1, <3>2
    <3>4. PayloadIn(body.frames, i) + 0 <= declared.bytes
      BY <1>2, <1>3, <1>5, <1>6, <2>3 DEF Stages
    <3>5. i <= declared.blobs /\ 0 \in Nat /\ 0 <= Size[body.frames[i].blob]
      BY <1>12, <2>3, <2>4
    <3>6. /\ Within(i, 0) \in Stages(body.frames, declared)
          /\ 0 = Size[body.frames[i].blob] => Gap(i) \in Stages(body.frames, declared)
      BY <1>2, <2>3, <3>3, <3>4, <3>5, FrameStages
    <3> QED BY <2>4, <3>6
  <2>10. /\ Started(i) \in EventRecords /\ Complete \in EventRecords
         /\ Step(body.frames, Gap(n), Started(i), Within(i, 0))
         /\ SizeOf(i) = 0 => Step(body.frames, Within(i, 0), Complete, Gap(i))
    BY <2>3, <2>4 DEF Started, Complete, EventRecords, Step, Gap, Within
  <2>11. /\ Append(events, Started(i)) \in Seq(EventRecords)
         /\ Path(body.frames, S, H, Append(events, Started(i)), Within(i, 0))
    BY <1>2, <1>5, <2>9, <2>10, PathAppend
  <2>12. /\ events \o new \in Seq(EventRecords)
         /\ Path(body.frames, S, H, events \o new, next)
    <3>1. CASE SizeOf(i) = 0
      <4>1. events \o new = Append(Append(events, Started(i)), Complete)
        BY <1>2, <2>10, <3>1
      <4>2. Path(body.frames, S, H, Append(Append(events, Started(i)), Complete), Gap(i))
        BY <2>9, <2>10, <2>11, <3>1, PathAppend
      <4>3. Append(Append(events, Started(i)), Complete) \in Seq(EventRecords)
        BY <2>10, <2>11
      <4> QED BY <3>1, <4>1, <4>2, <4>3
    <3>2. CASE SizeOf(i) # 0
      <4>1. events \o new = Append(events, Started(i))
        BY <1>2, <2>10, <3>2
      <4> QED BY <2>11, <3>2, <4>1
    <3> QED BY <3>1, <3>2
  <2> HIDE DEF new, next
  <2>13. f.rest \in Nat /\ r.pos + f.rest + unread = reader.pos + rest + unread
    <3>1. reader.held + take = HeaderLen
      BY <1>4, <1>12
    <3>2. rest - take \in Nat /\ here + HeaderLen + (rest - take) + unread = reader.pos + rest + unread
      BY <1>nat, <3>1
    <3> QED BY <1>4, <2>6, <3>2
  <2>14. PICK es \in Seq(EventRecords) : es = events \o new
    BY <2>12
  <2> QED BY <1>1, <1>2, <2>5, <2>6, <2>8, <2>12, <2>13, <2>14, ReaderMoves
<1> QED BY <1>8, <1>9, <1>11, <1>12 DEF push_header, f

(* Two events go behind the others one by one. *)
LEMMA AppendTwo ==
    ASSUME NEW E, NEW es \in Seq(E), NEW e \in E, NEW f \in E
    PROVE  es \o Append(<<e>>, f) = Append(Append(es, e), f)
<1>1. <<e>> \in Seq(E) /\ <<f>> \in Seq(E) /\ es \o <<e>> \in Seq(E)
  OBVIOUS
<1>2. Append(<<e>>, f) = <<e>> \o <<f>> /\ Append(es, e) = es \o <<e>>
  BY <1>1, AppendIsConcat
<1>3. Append(es \o <<e>>, f) = (es \o <<e>>) \o <<f>>
  BY <1>1, AppendIsConcat
<1> QED BY <1>1, <1>2, <1>3, ConcatAssociative

(* The reader takes payload: within the budget, to the end of the frame. *)
LEMMA PushPayload == PackInv /\ push_payload => PackInv'
<1> SUFFICES ASSUME PackInv, push_payload PROVE PackInv'
  OBVIOUS
<1> DEFINE n == reader.blobs
           size == Size[body.frames[n].blob]
           had == size - reader.remaining
           take == Least(reader.remaining, rest)
           here == Start(body.frames, n) + HeaderLen
           S == Stages(body.frames, declared)
           H == Handled(frame, Cardinality(rows))
<1>1. phase = "push" /\ reader.state = "payload"
  BY DEF push_payload, Reading
<1>2. /\ reader \in ReaderRecords /\ events \in Seq(EventRecords)
      /\ body.frames \in Seq(Frames) /\ n \in 1 .. Count /\ Count \in Nat
      /\ declared \in [blobs : Nat, bytes : Nat]
  BY <1>1, AtWork DEF PackInv, PackShapes
<1>3. /\ body.magic /\ reader.held = 0
      /\ reader.remaining > 0 /\ reader.remaining <= size
      /\ reader.pos = here + had /\ reader.payload = PayloadIn(body.frames, n) + had
  BY <1>1 DEF PackInv, ReaderHas
<1>4. /\ size \in Nat /\ HeaderLen \in Nat /\ HeaderLen > 0 /\ Start(body.frames, n) \in Nat
      /\ PayloadIn(body.frames, n) \in Nat
      /\ PayloadIn(body.frames, n + 1) = PayloadIn(body.frames, n) + size
      /\ PayloadIn(body.frames, n + 1) \in Nat
      /\ PayloadIn(body.frames, n + 1) <= PayloadIn(body.frames, Count + 1)
      /\ PayloadIn(body.frames, Count + 1) \in Nat
      /\ Start(body.frames, n + 1) = here + size
  <2>1. n \in 1 .. Count + 1 /\ n + 1 \in 1 .. Count + 1 /\ Count + 1 \in 1 .. Count + 1
    BY <1>2
  <2> QED BY <1>2, <2>1, FrameLies, BodyFramed DEF Framed
<1>nat. /\ reader.pos \in Nat /\ reader.remaining \in Nat /\ rest \in Nat /\ unread \in Nat
        /\ reader.payload \in Nat /\ declared.bytes \in Nat
        /\ size \in Nat /\ here \in Nat /\ PayloadIn(body.frames, n) \in Nat
        /\ reader.remaining > 0 /\ reader.remaining <= size
        /\ reader.pos = here + had /\ reader.payload = PayloadIn(body.frames, n) + had
  <2>1. /\ reader.pos \in Nat /\ reader.remaining \in Nat /\ rest \in Nat /\ unread \in Nat
        /\ reader.payload \in Nat /\ declared.bytes \in Nat
    BY AtWork
  <2>2. here \in Nat
    BY <1>4
  <2> QED BY <1>3, <1>4, <2>1, <2>2
<1>5. /\ take \in Nat /\ take <= rest /\ take <= reader.remaining
      /\ take = reader.remaining \/ take = rest
      /\ rest > 0 => take > 0
  BY <1>nat DEF Least
<1>6. had \in Nat /\ had + take \in Nat /\ had + take <= size
      /\ (take = reader.remaining <=> had + take = size)
      /\ size - (reader.remaining - take) = had + take
      /\ reader.remaining - take \in Nat
  BY <1>nat, <1>5
<1>7. /\ Path(body.frames, S, H, events, Within(n, had)) /\ Within(n, had) \in S
      /\ Within(n, had).n = n /\ Within(n, had).at = "frame" /\ Within(n, had).had = had
  <2>1. Read(reader, body) = Within(n, had)
    BY <1>1 DEF Read
  <2> QED BY <2>1, AtWork DEF PackInv, Within
<1>8. CASE rest = 0 /\ Return(reader, 0)
  <2>1. ReaderHas(reader, body) /\ Read(reader, body) = Within(n, had)
    BY <1>1 DEF PackInv, Read
  <2>2. PICK r \in ReaderRecords : r = reader
    BY <1>2
  <2>3. /\ reader' = r /\ rest' = 0 /\ phase' = "events"
        /\ UNCHANGED <<request, unread, events, frame, objects, rows, counts>>
    BY <1>8, <2>2 DEF Return
  <2>4. r.pos + 0 + unread = reader.pos + rest + unread
    BY <1>8, <1>nat, <2>2
  <2> HIDE DEF had
  <2> QED BY <1>1, <1>2, <1>7, <1>nat, <2>1, <2>2, <2>3, <2>4, ReaderMoves
<1>9. CASE OverBudget(take) /\ Finish("malformed")
  <2>1. reader.payload + take > declared.bytes
    BY <1>9 DEF OverBudget
  <2>2. reader.payload + take <= PayloadIn(body.frames, Count + 1)
    BY <1>4, <1>5, <1>6, <1>nat
  <2>3. ASSUME Acceptable PROVE FALSE
    <3>1. declared.bytes = PayloadIn(body.frames, Count + 1)
      BY <2>3 DEF Acceptable, PayloadBefore
    <3> QED BY <1>4, <1>5, <1>nat, <2>1, <2>2, <3>1
  <2> QED BY <1>9, <2>3, Ends DEF Settled
<1>10. ASSUME rest > 0, ~OverBudget(take),
              Continue([reader EXCEPT !.remaining = @ - take, !.payload = @ + take,
                            !.pos = @ + take,
                            !.state = IF take = reader.remaining THEN "header" ELSE @],
                       rest - take,
                       IF take = reader.remaining
                       THEN Append(<<Payload(reader.pos, reader.pos + take)>>, Complete)
                       ELSE <<Payload(reader.pos, reader.pos + take)>>)
       PROVE  PackInv'
  <2> DEFINE ends == take = reader.remaining
             e == Payload(reader.pos, reader.pos + take)
             r == [reader EXCEPT !.remaining = reader.remaining - take,
                       !.payload = reader.payload + take, !.pos = reader.pos + take,
                       !.state = IF ends THEN "header" ELSE "payload"]
             new == IF ends THEN Append(<<e>>, Complete) ELSE <<e>>
             next == IF ends THEN Gap(n) ELSE Within(n, had + take)
  <2>1. /\ reader' = r /\ rest' = rest - take /\ events' = events \o new /\ unread' = unread
        /\ phase' = phase /\ UNCHANGED <<request, frame, objects, rows, counts>>
    BY <1>1, <1>10 DEF Continue
  <2> HIDE DEF take, had, size, here
  <2>2. PICK p \in Nat, q \in Nat, m \in Nat :
            p = reader.payload + take /\ q = reader.pos + take /\ m = reader.remaining - take
    BY <1>5, <1>6, <1>nat
  <2>3. /\ r \in ReaderRecords /\ r.held = 0 /\ r.blobs = n /\ r.payload = reader.payload + take
        /\ r.remaining = reader.remaining - take /\ r.pos = reader.pos + take
        /\ r.state = IF ends THEN "header" ELSE "payload"
    BY <1>2, <1>3, <2>2 DEF ReaderRecords
  <2> HIDE DEF r
  <2>4. /\ reader.pos + take = here + (had + take)
        /\ reader.payload + take = PayloadIn(body.frames, n) + (had + take)
        /\ reader.payload + take <= declared.bytes
    <3>1. reader.payload + take <= declared.bytes
      BY <1>5, <1>10, <1>nat DEF OverBudget
    <3> QED BY <1>5, <1>6, <1>nat, <3>1
  <2>5. ReaderHas(r, body) /\ Read(r, body) = next
    <3>1. CASE ends
      <4>1. r.pos = Start(body.frames, n + 1) + r.held /\ r.payload = PayloadIn(body.frames, n + 1)
        BY <1>4, <1>6, <1>nat, <2>3, <2>4, <3>1
      <4> QED BY <1>3, <1>4, <2>3, <3>1, <4>1 DEF ReaderHas, Read
    <3>2. CASE ~ends
      <4>1. /\ size - r.remaining = had + take /\ r.remaining > 0 /\ r.remaining <= size
        BY <1>5, <1>6, <1>nat, <2>3, <3>2
      <4>2. /\ r.pos = Start(body.frames, n) + HeaderLen + (size - r.remaining)
            /\ r.payload = PayloadIn(body.frames, n) + (size - r.remaining)
        BY <2>3, <2>4, <4>1 DEF here
      <4> QED BY <1>3, <2>3, <3>2, <4>1, <4>2 DEF ReaderHas, Read, size
    <3> QED BY <3>1, <3>2
  <2>6. /\ Within(n, had + take) \in S
        /\ had + take = size => Gap(n) \in S
    <3>1. /\ n <= declared.blobs
          /\ \A k \in 1 .. n : body.frames[k].fault # "algorithm"
                               /\ Size[body.frames[k].blob] <= MaxBlobBytes
      BY <1>7 DEF Stages
    <3>2. /\ had + take <= Size[body.frames[n].blob]
          /\ PayloadIn(body.frames, n) + (had + take) <= declared.bytes
      BY <1>6, <2>4 DEF size
    <3>3. PICK k \in Nat : k = had + take
      BY <1>6
    <3> QED BY <1>2, <3>1, <3>2, <3>3, FrameStages DEF size
  <2>7. e \in EventRecords /\ Complete \in EventRecords /\ e.type = "payload"
        /\ e.from = reader.pos /\ e.to = reader.pos + take
    BY <1>nat, <2>2 DEF Payload, Complete, EventRecords
  <2>8. Step(body.frames, Within(n, had), e, Within(n, had + take))
    <3>1. /\ e.from = Start(body.frames, n) + HeaderLen + had
          /\ e.from < e.to /\ e.to - e.from = take
      BY <1>5, <1>10, <1>nat, <2>7 DEF here
    <3> QED BY <1>7, <2>7, <3>1 DEF Step
  <2>9. had + take = size => Step(body.frames, Within(n, had + take), Complete, Gap(n))
    BY DEF Step, Within, Gap, Complete, size
  <2>10. /\ Append(events, e) \in Seq(EventRecords)
         /\ Path(body.frames, S, H, Append(events, e), Within(n, had + take))
    <3> HIDE DEF e
    <3> QED BY <1>2, <1>7, <2>6, <2>7, <2>8, PathAppend
  <2>11. /\ events \o new \in Seq(EventRecords)
         /\ Path(body.frames, S, H, events \o new, next)
    <3> HIDE DEF e
    <3>1. CASE ends
      <4>1. events \o new = Append(Append(events, e), Complete)
        BY <1>2, <2>7, <3>1, AppendTwo
      <4>2. Path(body.frames, S, H, Append(Append(events, e), Complete), Gap(n))
        BY <1>6, <2>6, <2>7, <2>9, <2>10, <3>1, PathAppend
      <4>3. Append(Append(events, e), Complete) \in Seq(EventRecords)
        BY <2>7, <2>10
      <4> QED BY <3>1, <4>1, <4>2, <4>3
    <3>2. CASE ~ends
      <4>1. events \o new = Append(events, e)
        BY <1>2, <2>7, <3>2
      <4> QED BY <2>10, <3>2, <4>1
    <3> QED BY <3>1, <3>2
  <2> HIDE DEF new, next
  <2>12. rest - take \in Nat /\ r.pos + (rest - take) + unread = reader.pos + rest + unread
    BY <1>5, <1>nat, <2>3
  <2>13. PICK es \in Seq(EventRecords) : es = events \o new
    BY <2>11
  <2> QED BY <1>1, <1>2, <1>nat, <2>1, <2>3, <2>5, <2>11, <2>12, <2>13, ReaderMoves
<1>11. \/ rest = 0 /\ Return(reader, 0)
       \/ OverBudget(take) /\ Finish("malformed")
       \/ /\ rest > 0 /\ ~OverBudget(take)
          /\ Continue([reader EXCEPT !.remaining = @ - take, !.payload = @ + take,
                           !.pos = @ + take,
                           !.state = IF take = reader.remaining THEN "header" ELSE @],
                      rest - take,
                      IF take = reader.remaining
                      THEN Append(<<Payload(reader.pos, reader.pos + take)>>, Complete)
                      ELSE <<Payload(reader.pos, reader.pos + take)>>)
  BY DEF push_payload
<1> QED BY <1>8, <1>9, <1>10, <1>11

(* A chunk arrives, of any length. *)
LEMMA NextChunk == PackInv /\ next_chunk => PackInv'
<1> SUFFICES ASSUME PackInv, next_chunk PROVE PackInv'
  OBVIOUS
<1>1. PICK n \in 1 .. unread : rest' = n /\ unread' = unread - n
  BY DEF next_chunk
<1>2. /\ phase = "stream" /\ phase' = "push"
      /\ UNCHANGED <<request, reader, events, frame, objects, rows, counts>>
  BY DEF next_chunk
<1>3. /\ reader \in ReaderRecords /\ events \in Seq(EventRecords) /\ reader.pos \in Nat
      /\ rest \in Nat /\ unread \in Nat
  BY AtWork
<1>4. rest = 0
  BY <1>2 DEF PackInv, InputOK, Live
<1>5. n \in Nat /\ unread - n \in Nat /\ reader.pos + n + (unread - n) = reader.pos + rest + unread
  BY <1>3, <1>4
<1>6. /\ ReaderHas(reader, body)
      /\ Path(body.frames, Stages(body.frames, declared),
              Handled(frame, Cardinality(rows)), events, Read(reader, body))
  BY DEF PackInv
<1> QED BY <1>1, <1>2, <1>3, <1>5, <1>6, ReaderMoves

-----------------------------------------------------------------------------
(* What the next event says of the handler. *)
LEMMA NextEvent ==
    ASSUME PackInv, events # <<>>
    PROVE  /\ Head(events) \in EventRecords /\ Tail(events) \in Seq(EventRecords)
           /\ \E m \in Stages(body.frames, declared) :
                 /\ Step(body.frames, Handled(frame, Cardinality(rows)), Head(events), m)
                 /\ Path(body.frames, Stages(body.frames, declared), m, Tail(events),
                         Read(reader, body))
<1>1. events \in Seq(EventRecords)
  BY DEF PackInv, PackShapes
<1>2. Head(events) \in EventRecords /\ Tail(events) \in Seq(EventRecords)
  BY <1>1
<1> QED BY <1>1, <1>2, PathTail DEF PackInv

(* The handler has taken the next event: it has the frame f, and k frames  *)
(* are registered.                                                         *)
LEMMA HandlerMoves ==
    ASSUME PackInv, NEW f \in FrameRecords \cup {None}, NEW k \in Nat,
           phase \in {"events", "register"}, events # <<>>,
           frame' = f, events' = Tail(events), rows' = 1 .. k, phase' = "events",
           UNCHANGED <<request, unread, rest, reader, objects, counts>>,
           \A i \in 1 .. k : Verified(i),
           HandlerHas(f, k, body), counts.created + counts.existing = k,
           \A m : Step(body.frames, Handled(frame, Cardinality(rows)), Head(events), m)
                    => m = Handled(f, k)
    PROVE  PackInv'
<1>1. /\ body' = body /\ sent' = sent /\ declared' = declared
      /\ Count' = Count /\ Total' = Total /\ FirstCut' = FirstCut
  BY SameRequest
<1>2. /\ phase \in Live /\ phase # "push" /\ phase # "start" /\ phase' \in Live
      /\ phase' \notin Settled /\ phase' # "register" /\ phase' \notin {"start", "stream"}
  BY DEF Live, Settled
<1>3. Cardinality(rows') = k
  BY FS_Interval
<1>4. /\ Tail(events) \in Seq(EventRecords)
      /\ Path(body.frames, Stages(body.frames, declared), Handled(f, k), Tail(events),
              Read(reader, body))
  BY NextEvent
<1>5. PackShapes'
  BY <1>1, <1>2, <1>4 DEF PackInv, PackShapes
<1>6. ReaderHas(reader, body)'
  BY <1>1 DEF PackInv, ReaderHas
<1>7. Path(body.frames, Stages(body.frames, declared),
           Handled(frame, Cardinality(rows)), events, Read(reader, body))'
  BY <1>1, <1>3, <1>4
<1>8. LedgerOK'
  BY <1>1, <1>2, <1>3 DEF LedgerOK, Verified
<1>9. InputOK'
  BY <1>1, <1>2 DEF PackInv, InputOK
<1>10. ChunksDoNotMatter' /\ ReceiptComplete'
  BY DEF ChunksDoNotMatter, ReceiptComplete
<1> QED BY <1>5, <1>6, <1>7, <1>8, <1>9, <1>10 DEF PackInv

(* The handler's stage, and what is registered in it. *)
LEMMA HandlerAt ==
    ASSUME PackInv
    PROVE  LET n == Cardinality(rows) IN
           /\ n \in Nat /\ rows = 1 .. n /\ HandlerHas(frame, n, body)
           /\ \A i \in 1 .. n : Verified(i)
           /\ frame = None => Handled(frame, n) = Gap(n)
           /\ frame # None => /\ frame \in FrameRecords /\ frame.index = n + 1
                              /\ frame.index \in 1 .. Count
                              /\ Handled(frame, n) = Within(n + 1, frame.to - frame.from)
<1> DEFINE n == Cardinality(rows)
<1>1. /\ n \in Nat /\ rows = 1 .. n /\ HandlerHas(frame, n, body) /\ \A i \in rows : Verified(i)
      /\ frame \in FrameRecords \cup {None}
  BY DEF PackInv, LedgerOK, PackShapes
<1>2. frame = None => Handled(frame, n) = Gap(n)
  BY DEF Handled
<1>3. ASSUME frame # None
      PROVE  /\ frame.index = n + 1 /\ frame.index \in 1 .. Count
             /\ Handled(frame, n) = Within(n + 1, frame.to - frame.from)
  <2>1. frame.index = n + 1 /\ Handled(frame, n) = Within(n + 1, frame.to - frame.from)
    BY <1>1, <1>3 DEF HandlerHas, Handled
  <2>2. Handled(frame, n) \in Stages(body.frames, declared) /\ Count = Len(body.frames)
        /\ Count \in Nat
    BY AtWork
  <2>3. Handled(frame, n).n = n + 1
    BY <2>1 DEF Within
  <2> QED BY <1>1, <2>1, <2>2, <2>3 DEF Stages
<1> QED BY <1>1, <1>2, <1>3

(* A frame starts. *)
LEMMA StartFrame == PackInv /\ start_frame => PackInv'
<1> SUFFICES ASSUME PackInv, start_frame PROVE PackInv'
  OBVIOUS
<1> DEFINE n == Cardinality(rows)
           e == Head(events)
           f == [index |-> e.frame, from |-> 0, to |-> 0]
<1>1. /\ phase = "events" /\ events # <<>> /\ e.type = "started" /\ frame' = f
      /\ events' = Tail(events)
      /\ UNCHANGED <<request, unread, rest, reader, objects, rows, counts, phase>>
  BY DEF start_frame, Handling
<1>2. /\ n \in Nat /\ rows = 1 .. n /\ \A i \in 1 .. n : Verified(i)
      /\ frame = None => Handled(frame, n) = Gap(n)
      /\ frame # None => Handled(frame, n) = Within(n + 1, frame.to - frame.from)
  BY HandlerAt
<1>3. e \in EventRecords /\ \E m : Step(body.frames, Handled(frame, n), e, m)
  BY <1>1, NextEvent
<1>4. Handled(frame, n) = Gap(n)
  <2>1. Handled(frame, n).at = "gap"
    BY <1>1, <1>3 DEF Step
  <2> QED BY <1>2, <2>1 DEF Within
<1>5. Gap(n).n = n /\ Gap(n).at = "gap"
  BY DEF Gap
<1>6. e.frame = n + 1
  BY <1>1, <1>3, <1>4, <1>5 DEF Step
<1>7. f \in FrameRecords /\ f.index = n + 1 /\ f.from = 0 /\ f.to = 0 /\ f # None
  <2>1. f \in FrameRecords
    BY <1>3 DEF FrameRecords, EventRecords
  <2> QED BY <1>6, <2>1, NoneAssumption DEF FrameRecords
<1> HIDE DEF f
<1>8. HandlerHas(f, n, body) /\ Handled(f, n) = Within(n + 1, 0)
  BY <1>7 DEF HandlerHas, Handled
<1>9. \A m : Step(body.frames, Handled(frame, n), e, m) => m = Handled(f, n)
  BY <1>1, <1>4, <1>5, <1>8 DEF Step
<1>10. counts.created + counts.existing = n
  BY <1>1 DEF PackInv, LedgerOK, Live
<1>11. PICK g \in FrameRecords, k \in Nat : g = f /\ k = n
  BY <1>2, <1>7
<1> QED BY <1>1, <1>2, <1>8, <1>9, <1>10, <1>11, HandlerMoves

(* More of it is spooled. *)
LEMMA WritePayload == PackInv /\ write_payload => PackInv'
<1> SUFFICES ASSUME PackInv, write_payload PROVE PackInv'
  OBVIOUS
<1> DEFINE n == Cardinality(rows)
           e == Head(events)
           had == frame.to - frame.from
           here == Start(body.frames, n + 1) + HeaderLen
           f == [frame EXCEPT !.from = IF frame.to = 0 THEN e.from ELSE frame.from, !.to = e.to]
<1>1. /\ phase = "events" /\ events # <<>> /\ e.type = "payload" /\ frame' = f
      /\ events' = Tail(events)
      /\ UNCHANGED <<request, unread, rest, reader, objects, rows, counts, phase>>
  BY DEF write_payload, Handling
<1>2. /\ n \in Nat /\ rows = 1 .. n /\ HandlerHas(frame, n, body)
      /\ \A i \in 1 .. n : Verified(i)
      /\ frame = None => Handled(frame, n) = Gap(n)
      /\ frame # None => /\ frame \in FrameRecords /\ frame.index = n + 1
                         /\ frame.index \in 1 .. Count
                         /\ Handled(frame, n) = Within(n + 1, had)
  BY HandlerAt
<1>3. /\ e \in EventRecords /\ e.from \in Nat /\ e.to \in Nat
      /\ \E m : Step(body.frames, Handled(frame, n), e, m)
  BY <1>1, NextEvent DEF EventRecords
<1>4. frame # None
  <2>1. Handled(frame, n).at = "frame"
    BY <1>1, <1>3 DEF Step
  <2> QED BY <1>2, <2>1 DEF Gap
<1>5. /\ frame \in FrameRecords /\ frame.index = n + 1 /\ Handled(frame, n) = Within(n + 1, had)
      /\ frame.from \in Nat /\ frame.to \in Nat /\ n + 1 \in 1 .. Count
  BY <1>2, <1>4 DEF FrameRecords
<1>6. Within(n + 1, had).n = n + 1 /\ Within(n + 1, had).at = "frame" /\ Within(n + 1, had).had = had
  BY DEF Within
<1>7. e.from = here + had /\ e.from < e.to
  BY <1>1, <1>3, <1>5, <1>6 DEF Step
<1>8. here \in Nat /\ here > 0
  <2>1. body.frames \in Seq(Frames) /\ Count \in Nat
    BY AtWork
  <2>2. n + 1 \in 1 .. Count + 1
    BY <1>2, <1>5, <2>1
  <2>3. /\ HeaderLen \in Nat /\ HeaderLen > 0 /\ Start(body.frames, n + 1) \in Nat
    BY <2>1, <2>2, FrameLies
  <2> QED BY <2>3
<1>9. \/ frame.from = 0 /\ frame.to = 0
      \/ frame.from = here /\ frame.from < frame.to
  <2>1. \/ frame.from = 0 /\ frame.to = 0
        \/ frame.from = Start(body.frames, frame.index) + HeaderLen /\ frame.from < frame.to
    BY <1>2, <1>4 DEF HandlerHas
  <2>2. Start(body.frames, frame.index) = Start(body.frames, n + 1)
    BY <1>5
  <2> QED BY <2>1, <2>2
<1> HIDE DEF here
<1>10. PICK a \in Nat : a = IF frame.to = 0 THEN e.from ELSE frame.from
  BY <1>3, <1>5
<1>11. f \in FrameRecords /\ f.index = n + 1 /\ f.from = a /\ f.to = e.to
  BY <1>3, <1>5, <1>10 DEF FrameRecords
<1>12. a = here /\ e.to - a = had + (e.to - e.from) /\ a < e.to
  <2>1. CASE frame.from = 0 /\ frame.to = 0
    <3>1. had = 0 /\ a = e.from
      BY <1>10, <2>1
    <3> HIDE DEF had
    <3> QED BY <1>3, <1>7, <1>8, <3>1
  <2>2. CASE frame.from = here /\ frame.from < frame.to
    <3>1. frame.to # 0
      BY <1>5, <1>8, <2>2
    <3>2. a = here /\ frame.to = e.from /\ a = frame.from
      BY <1>5, <1>7, <1>8, <1>10, <2>2, <3>1
    <3>3. had = e.from - a
      BY <3>2
    <3>4. a < e.to
      BY <1>3, <1>5, <1>7, <2>2, <3>2
    <3> HIDE DEF had
    <3> QED BY <1>3, <3>2, <3>3, <3>4
  <2> QED BY <1>9, <2>1, <2>2
<1> HIDE DEF f, had
<1>13. f # None
  BY <1>11, NoneAssumption DEF FrameRecords
<1>14. HandlerHas(f, n, body) /\ Handled(f, n) = Within(n + 1, had + (e.to - e.from))
  BY <1>11, <1>12, <1>13 DEF HandlerHas, Handled, here
<1>15. \A m : Step(body.frames, Handled(frame, n), e, m) => m = Handled(f, n)
  BY <1>1, <1>5, <1>6, <1>14 DEF Step
<1>16. counts.created + counts.existing = n
  BY <1>1 DEF PackInv, LedgerOK, Live
<1>17. PICK g \in FrameRecords, k \in Nat : g = f /\ k = n
  BY <1>2, <1>11
<1> QED BY <1>1, <1>2, <1>14, <1>15, <1>16, <1>17, HandlerMoves

(* A frame that is complete has all its bytes: it matches unless its       *)
(* content is wrong.                                                       *)
LEMMA CompleteFrame ==
    ASSUME PackInv, events # <<>>, Head(events).type = "complete"
    PROVE  /\ frame \in FrameRecords /\ frame # None
           /\ frame.index = Cardinality(rows) + 1 /\ frame.index \in 1 .. Count
           /\ Matches <=> body.frames[frame.index].fault # "content"
           /\ \A m : Step(body.frames, Handled(frame, Cardinality(rows)), Head(events), m)
                        => m = Gap(frame.index)
<1> DEFINE n == Cardinality(rows)
           e == Head(events)
           had == frame.to - frame.from
           here == Start(body.frames, n + 1) + HeaderLen
<1>1. /\ n \in Nat /\ HandlerHas(frame, n, body)
      /\ frame = None => Handled(frame, n) = Gap(n)
      /\ frame # None => /\ frame \in FrameRecords /\ frame.index = n + 1
                         /\ frame.index \in 1 .. Count
                         /\ Handled(frame, n) = Within(n + 1, had)
  BY HandlerAt
<1>2. PICK m : Step(body.frames, Handled(frame, n), e, m)
  BY NextEvent
<1>3. frame # None
  <2>1. Handled(frame, n).at = "frame"
    BY <1>2 DEF Step
  <2> QED BY <1>1, <2>1 DEF Gap
<1>4. /\ frame \in FrameRecords /\ frame.index = n + 1 /\ Handled(frame, n) = Within(n + 1, had)
      /\ frame.from \in Nat /\ frame.to \in Nat /\ n + 1 \in 1 .. Count
  BY <1>1, <1>3 DEF FrameRecords
<1>5. Within(n + 1, had).n = n + 1 /\ Within(n + 1, had).at = "frame" /\ Within(n + 1, had).had = had
  BY DEF Within
<1>6. had = SizeOf(n + 1)
  BY <1>2, <1>4, <1>5 DEF Step, SizeOf
<1>7. \A k : Step(body.frames, Handled(frame, n), e, k) => k = Gap(n + 1)
  BY <1>4, <1>5 DEF Step
<1>8. PayloadStart(n + 1) = here
  BY DEF PayloadStart, HeaderStart, Start, PayloadBefore
<1>9. \/ frame.from = 0 /\ frame.to = 0
      \/ frame.from = here /\ frame.from < frame.to
  <2>1. \/ frame.from = 0 /\ frame.to = 0
        \/ frame.from = Start(body.frames, frame.index) + HeaderLen /\ frame.from < frame.to
    BY <1>1, <1>3 DEF HandlerHas
  <2>2. Start(body.frames, frame.index) = Start(body.frames, n + 1)
    BY <1>4
  <2> QED BY <2>1, <2>2
<1>10. SizeOf(n + 1) > 0 => frame.from = PayloadStart(n + 1)
  BY <1>4, <1>6, <1>8, <1>9
<1>11. Matches <=> body.frames[n + 1].fault # "content"
  <2>1. frame.index = n + 1
    BY <1>4
  <2> QED BY <1>6, <1>10, <2>1 DEF Matches
<1> QED BY <1>3, <1>4, <1>7, <1>11

(* The frame is verified and stored, or refused. *)
LEMMA Store == PackInv /\ store => PackInv'
<1> SUFFICES ASSUME PackInv, store PROVE PackInv'
  OBVIOUS
<1> DEFINE n == Cardinality(rows)
           blob == body.frames[frame.index].blob
<1>1. phase = "events" /\ events # <<>> /\ Head(events).type = "complete"
  BY DEF store, Handling
<1>2. /\ frame \in FrameRecords /\ frame # None /\ frame.index = n + 1 /\ frame.index \in 1 .. Count
      /\ Matches <=> body.frames[frame.index].fault # "content"
  BY <1>1, CompleteFrame
<1>3. CASE ~Matches /\ Finish("refused")
  <2>1. body.frames[frame.index].fault # "none"
    BY <1>2, <1>3
  <2>2. ~Acceptable
    BY <1>2, <2>1 DEF Acceptable
  <2> QED BY <1>3, <2>2, Ends DEF Settled
<1>4. CASE /\ Matches
           /\ objects' = objects \cup {blob}
           /\ counts' = IF blob \in objects THEN [counts EXCEPT !.existing = @ + 1]
                                            ELSE [counts EXCEPT !.created = @ + 1]
           /\ phase' = "register"
           /\ UNCHANGED <<request, unread, rest, reader, events, frame, rows>>
  <2>1. /\ body' = body /\ sent' = sent /\ declared' = declared
        /\ Count' = Count /\ Total' = Total /\ FirstCut' = FirstCut
    BY <1>4, SameRequest
  <2>2. /\ phase \in Live /\ phase # "push" /\ phase # "start" /\ phase # "register"
        /\ phase' \in Live /\ phase' \notin Settled /\ phase' \notin {"start", "stream"}
        /\ phase' # "push"
    BY <1>1, <1>4 DEF Live, Settled
  <2>3. /\ counts' \in [created : Nat, existing : Nat]
        /\ counts'.created + counts'.existing = n + 1
    <3>1. counts \in [created : Nat, existing : Nat] /\ counts.created + counts.existing = n
      BY <2>2 DEF PackInv, PackShapes, LedgerOK
    <3>2. CASE blob \in objects
      BY <1>4, <3>1, <3>2
    <3>3. CASE blob \notin objects
      BY <1>4, <3>1, <3>3
    <3> QED BY <3>2, <3>3
  <2>4. PackShapes'
    BY <1>4, <2>1, <2>2, <2>3 DEF PackInv, PackShapes
  <2>5. ReaderHas(reader, body)'
    BY <1>4, <2>1 DEF PackInv, ReaderHas
  <2>6. Path(body.frames, Stages(body.frames, declared),
             Handled(frame, Cardinality(rows)), events, Read(reader, body))'
    BY <1>4, <2>1 DEF PackInv
  <2>7. LedgerOK'
    <3>1. n \in Nat /\ rows = 1 .. n /\ HandlerHas(frame, n, body) /\ \A i \in rows : Verified(i)
      BY DEF PackInv, LedgerOK
    <3>2. Verified(frame.index)' /\ \A i \in rows : Verified(i)'
      BY <1>2, <1>4, <2>1, <3>1 DEF Verified
    <3> QED BY <1>1, <1>2, <1>4, <2>1, <2>3, <3>1, <3>2 DEF LedgerOK
  <2>8. InputOK'
    BY <1>4, <2>1, <2>2 DEF PackInv, InputOK
  <2>9. ChunksDoNotMatter' /\ ReceiptComplete'
    BY <1>4 DEF ChunksDoNotMatter, ReceiptComplete
  <2> QED BY <2>4, <2>5, <2>6, <2>7, <2>8, <2>9 DEF PackInv
<1> QED BY <1>3, <1>4 DEF store

(* A stored frame is registered. *)
LEMMA Register == PackInv /\ register => PackInv'
<1> SUFFICES ASSUME PackInv, register PROVE PackInv'
  OBVIOUS
<1> DEFINE n == Cardinality(rows)
<1>1. /\ phase = "register" /\ rows' = rows \cup {frame.index} /\ frame' = None
      /\ events' = Tail(events) /\ phase' = "events"
      /\ UNCHANGED <<request, unread, rest, reader, objects, counts>>
  BY DEF register
<1>2. /\ frame # None /\ Verified(frame.index)
      /\ events # <<>> /\ Head(events).type = "complete"
      /\ counts.created + counts.existing = n + 1
  BY <1>1 DEF PackInv, LedgerOK, Live
<1>3. n \in Nat /\ rows = 1 .. n /\ \A i \in 1 .. n : Verified(i)
  BY HandlerAt
<1>4. /\ frame.index = n + 1
      /\ \A m : Step(body.frames, Handled(frame, n), Head(events), m) => m = Gap(frame.index)
  BY <1>2, CompleteFrame
<1>5. PICK k \in Nat : k = n + 1
  BY <1>3
<1>6. rows' = 1 .. k /\ \A i \in 1 .. k : i \in 1 .. n \/ i = k
  BY <1>1, <1>3, <1>4, <1>5
<1>7. \A i \in 1 .. k : Verified(i)
  BY <1>2, <1>3, <1>4, <1>5, <1>6
<1>8. HandlerHas(None, k, body) /\ Handled(None, k) = Gap(k)
  BY DEF HandlerHas, Handled
<1> QED BY <1>1, <1>2, <1>4, <1>5, <1>6, <1>7, <1>8, HandlerMoves

(* The body has ended: on a frame boundary only at its very end. *)
LEMMA BodyEnds ==
    ASSUME PackInv, phase = "stream", unread = 0
    PROVE  /\ reader.state = "header" /\ reader.held = 0 =>
                 /\ body.magic /\ sent = Total /\ reader.blobs = Count
                 /\ reader.payload = PayloadBefore(Count + 1)
           /\ ~(reader.state = "header" /\ reader.held = 0) => sent # Total
<1> DEFINE n == reader.blobs
<1>1. /\ body.frames \in Seq(Frames) /\ Count \in Nat /\ reader \in ReaderRecords
      /\ n \in 0 .. Count /\ reader.pos \in Nat /\ reader.held \in Nat /\ reader.remaining \in Nat
      /\ reader.state = "payload" => n \in 1 .. Count
  BY AtWork
<1>2. ReaderHas(reader, body) /\ rest = 0 /\ reader.pos + rest + unread = sent /\ FirstCut <= sent
  BY DEF PackInv, InputOK, Live
<1>3. reader.pos = sent
  BY <1>1, <1>2
<1>4. n + 1 \in 1 .. Count + 1 /\ Count + 1 \in 1 .. Count + 1 /\ (n # Count => n + 1 \in 1 .. Count)
  BY <1>1
<1>5. /\ Total = Start(body.frames, Count + 1) /\ PayloadBefore(Count + 1) = PayloadIn(body.frames, Count + 1)
      /\ Total \in Nat /\ MagicLen \in Nat /\ MagicLen <= Total /\ HeaderLen \in Nat
      /\ Start(body.frames, n + 1) \in Nat
  BY <1>1, <1>4, BodyFramed, FrameLies
<1>6. n # Count =>
        /\ Start(body.frames, n + 1) < FirstCut /\ FirstCut \in Nat
        /\ Size[body.frames[n + 1].blob] \in Nat
        /\ Start(body.frames, n + 1) + HeaderLen + Size[body.frames[n + 1].blob] <= Total
  <2> SUFFICES ASSUME n # Count
               PROVE  /\ Start(body.frames, n + 1) < FirstCut /\ FirstCut \in Nat
                      /\ Size[body.frames[n + 1].blob] \in Nat
                      /\ Start(body.frames, n + 1) + HeaderLen + Size[body.frames[n + 1].blob] <= Total
    OBVIOUS
  <2>1. n + 1 \in 1 .. Count /\ n + 1 < Count + 1 /\ Framed(body.frames, Count)
        /\ Count \in 1 .. Count + 1 /\ Count # 0
    BY <1>1, <1>4, BodyFramed
  <2>2. Start(body.frames, n + 1) + HeaderLen + Size[body.frames[n + 1].blob] <= Total
    BY <1>4, <1>5, <2>1, LayoutGrows
  <2>3. FirstCut = Start(body.frames, Count) + 1 /\ Start(body.frames, Count) \in Nat
    BY <1>1, <2>1, BodyFramed, FrameLies
  <2>4. Start(body.frames, n + 1) < FirstCut
    BY <1>1, <2>1, FrameLies
  <2>5. Size[body.frames[n + 1].blob] \in Nat
    BY <2>1 DEF Framed
  <2> QED BY <2>2, <2>3, <2>4, <2>5
<1>7. ASSUME reader.state = "header", reader.held = 0
      PROVE  /\ body.magic /\ sent = Total /\ n = Count
             /\ reader.payload = PayloadBefore(Count + 1)
  <2>1. /\ body.magic /\ reader.pos = Start(body.frames, n + 1) + 0
        /\ reader.payload = PayloadIn(body.frames, n + 1)
    BY <1>2, <1>7 DEF ReaderHas
  <2>2. n = Count
    BY <1>2, <1>3, <1>5, <1>6, <2>1
  <2> QED BY <1>3, <1>5, <2>1, <2>2
<1>8. CASE reader.state = "magic"
  <2>1. reader.pos < MagicLen
    BY <1>2, <1>8 DEF ReaderHas
  <2> QED BY <1>1, <1>3, <1>5, <1>8, <2>1
<1>9. CASE reader.state = "header"
  <2> SUFFICES ASSUME reader.held # 0 PROVE sent # Total
    BY <1>7, <1>9
  <2>1. reader.held < HeaderLen /\ reader.pos = Start(body.frames, n + 1) + reader.held
    BY <1>2, <1>9 DEF ReaderHas
  <2>2. CASE n = Count
    BY <1>1, <1>3, <1>5, <2>1, <2>2
  <2>3. CASE n # Count
    <3>1. /\ Size[body.frames[n + 1].blob] \in Nat
          /\ Start(body.frames, n + 1) + HeaderLen + Size[body.frames[n + 1].blob] <= Total
          /\ reader.held \in Nat
      BY <1>1, <1>6, <2>3
    <3>2. Start(body.frames, n + 1) + reader.held < Total
      BY <1>5, <2>1, <3>1
    <3> QED BY <1>3, <1>5, <2>1, <3>1, <3>2
  <2> QED BY <2>2, <2>3
<1>10. CASE reader.state = "payload"
  <2>1. n \in 1 .. Count /\ Size[body.frames[n].blob] \in Nat
    BY <1>1, <1>10, BodyFramed DEF Framed
  <2>2. /\ Start(body.frames, n + 1) = Start(body.frames, n) + HeaderLen + Size[body.frames[n].blob]
        /\ Start(body.frames, n) \in Nat /\ Start(body.frames, n + 1) <= Total
    <3>1. n \in 1 .. Count + 1
      BY <1>1, <2>1
    <3> QED BY <1>1, <1>4, <2>1, <3>1, FrameLies
  <2>3. /\ reader.remaining > 0
        /\ reader.pos = Start(body.frames, n) + HeaderLen + (Size[body.frames[n].blob] - reader.remaining)
    BY <1>2, <1>10 DEF ReaderHas
  <2>4. reader.pos < Total
    <3>1. reader.remaining \in Nat
      BY <1>1
    <3>2. Start(body.frames, n) + HeaderLen + (Size[body.frames[n].blob] - reader.remaining)
            < Start(body.frames, n) + HeaderLen + Size[body.frames[n].blob]
      BY <1>5, <2>1, <2>2, <2>3, <3>1
    <3> QED BY <1>1, <1>5, <2>2, <2>3, <3>2
  <2> QED BY <1>1, <1>3, <1>5, <1>10, <2>4
<1> QED BY <1>1, <1>7, <1>8, <1>9, <1>10 DEF ReaderRecords

(* The body has ended, and the request with it. *)
LEMMA Finishes == PackInv /\ finish => PackInv'
<1> SUFFICES ASSUME PackInv, finish PROVE PackInv'
  OBVIOUS
<1> DEFINE whole == reader.state = "header" /\ reader.held = 0
           asDeclared == reader.blobs = declared.blobs /\ reader.payload = declared.bytes
<1>1. phase = "stream" /\ unread = 0
  BY DEF finish
<1>2. /\ whole => /\ body.magic /\ sent = Total /\ reader.blobs = Count
                  /\ reader.payload = PayloadBefore(Count + 1)
      /\ ~whole => sent # Total
  BY <1>1, BodyEnds
<1>3. CASE ~whole /\ Finish("malformed")
  BY <1>2, <1>3, Ends DEF Acceptable, Settled
<1>4. CASE whole /\ ~asDeclared /\ Finish("refused")
  <2>1. ASSUME Acceptable PROVE FALSE
    <3>1. declared.blobs = Count /\ declared.bytes = PayloadBefore(Count + 1)
      BY <2>1 DEF Acceptable
    <3> QED BY <1>2, <1>4, <3>1
  <2> QED BY <1>4, <2>1, Ends DEF Settled
<1>5. CASE whole /\ asDeclared /\ Finish("accepted")
  <2>1. /\ events = <<>> /\ declared.blobs <= MaxBatch /\ declared.bytes <= MaxBlobBytes
        /\ declared \in [blobs : Nat, bytes : Nat]
    BY <1>1 DEF PackInv, InputOK, PackShapes, Live
  (* Nothing is under way: the handler is where the reader is. *)
  <2>2. /\ Handled(frame, Cardinality(rows)) = Gap(Count)
        /\ Gap(Count) \in Stages(body.frames, declared)
    <3>1. Read(reader, body) = Gap(Count)
      BY <1>2, <1>5 DEF Read
    <3> QED BY <2>1, <3>1, PathEmpty DEF PackInv
  <2>3. Gap(Count).n = Count /\ Gap(Count).at = "gap"
    BY DEF Gap
  <2>4. Cardinality(rows) = Count /\ rows = 1 .. Count /\ \A i \in 1 .. Count : Verified(i)
    <3>1. frame = None
      BY <2>2, <2>3, HandlerAt DEF Within
    <3>2. Gap(Cardinality(rows)) = Gap(Count)
      BY <2>2, <3>1, HandlerAt
    <3>3. Cardinality(rows) = Count
      BY <3>2 DEF Gap
    <3> QED BY <3>3, HandlerAt
  <2>5. \A i \in 1 .. Count :
            body.frames[i].fault # "algorithm" /\ Size[body.frames[i].blob] <= MaxBlobBytes
    BY <2>2, <2>3 DEF Stages
  <2>6. \A i \in 1 .. Count : body.frames[i].fault = "none" /\ SizeOf(i) <= MaxBlobBytes
    <3>1. \A i \in 1 .. Count : body.frames[i].fault \in Faults
      BY AtWork, BodyFramed DEF Frames
    <3> QED BY <2>4, <2>5, <3>1 DEF Verified, Faults, SizeOf
  <2>7. declared = [blobs |-> Count, bytes |-> PayloadBefore(Count + 1)]
    BY <1>2, <1>5, <2>1
  <2>8. Acceptable
    BY <1>2, <1>5, <2>1, <2>6, <2>7 DEF Acceptable
  <2>9. counts.created + counts.existing = Count
    BY <1>1, <2>4 DEF PackInv, LedgerOK, Live
  <2> QED BY <1>5, <2>4, <2>8, <2>9, Ends DEF Settled
<1> QED BY <1>3, <1>4, <1>5 DEF finish

(* The invariant of reader, events and handler holds of every behaviour:   *)
(* however the body is cut, the handler is where the reader was.           *)
THEOREM PackInductive == Spec => []PackInv
<1>1. PackInv /\ [Next]_vars => PackInv'
  <2> SUFFICES ASSUME PackInv, [Next]_vars PROVE PackInv'
    OBVIOUS
  <2>1. CASE put_blob_pack
    <3>0. /\ declared.blobs \in Nat /\ declared.bytes \in Nat
          /\ MaxBatch \in Nat /\ MaxBlobBytes \in Nat
      BY AtWork, PackAssumption
    <3>1. phase = "start"
      BY <2>1 DEF put_blob_pack
    <3>2. CASE declared.blobs > MaxBatch \/ declared.bytes > MaxBlobBytes
      <4>1. ~Acceptable
        BY <3>2, <3>0 DEF Acceptable
      <4> QED BY <2>1, <3>2, <4>1, Ends DEF put_blob_pack, Settled
    <3>3. CASE ~(declared.blobs > MaxBatch \/ declared.bytes > MaxBlobBytes)
      <4>1. declared.blobs <= MaxBatch /\ declared.bytes <= MaxBlobBytes
        BY <3>0, <3>3
      <4> QED BY <2>1, <3>1, <3>3, <4>1, Streams DEF put_blob_pack
    <3> QED BY <3>2, <3>3
  <2>2. CASE events_done
    BY <2>2, Streams DEF events_done
  <2>3. CASE pack_fails
    BY <2>3, Ends DEF pack_fails, Settled
  <2>4. CASE UNCHANGED vars
    <3>1. /\ UNCHANGED <<request, unread, rest, reader, events, frame, objects, rows, counts, phase>>
      BY <2>4 DEF vars, request
    <3>2. /\ body' = body /\ sent' = sent /\ declared' = declared
          /\ Count' = Count /\ Total' = Total /\ FirstCut' = FirstCut /\ Acceptable' = Acceptable
      BY <3>1, SameRequest
    <3>3. PackShapes' /\ ReaderHas(reader, body)' /\ LedgerOK' /\ InputOK'
      BY <3>1, <3>2 DEF PackInv, PackShapes, ReaderHas, LedgerOK, Verified, InputOK
    <3>4. Path(body.frames, Stages(body.frames, declared),
               Handled(frame, Cardinality(rows)), events, Read(reader, body))'
      BY <3>1, <3>2 DEF PackInv
    <3>5. ChunksDoNotMatter' /\ ReceiptComplete'
      BY <3>1, <3>2 DEF PackInv, ChunksDoNotMatter, ReceiptComplete
    <3> QED BY <3>3, <3>4, <3>5 DEF PackInv
  <2> QED BY <2>1, <2>2, <2>3, <2>4, NextChunk, PushMagic, PushHeader, PushPayload,
             StartFrame, WritePayload, Store, Register, Finishes DEF Next, settled
<1> QED BY <1>1, PackInitially, PTL DEF Spec

(* However the body is cut into chunks, exactly the packs that are whole,  *)
(* well formed, verified and as declared are accepted, of the packs of any *)
(* length with at most one defect.                                         *)
THEOREM ChunkingImmaterial == Spec => []ChunksDoNotMatter
<1>1. PackInv => ChunksDoNotMatter
  BY DEF PackInv
<1> QED BY <1>1, PackInductive, PTL

(* A receipt accounts for every frame, stored and registered by then. *)
THEOREM ReceiptsComplete == Spec => []ReceiptComplete
<1>1. PackInv => ReceiptComplete
  BY DEF PackInv
<1> QED BY <1>1, PackInductive, PTL

(* Whatever ends the request, what it registered is a run of frames from   *)
(* the first, each good to verify and in the store.                        *)
THEOREM OnlyVerifiedRegistered == Spec => []RegisteredVerified
<1>1. PackInv => RegisteredVerified
  <2> SUFFICES ASSUME PackInv PROVE RegisteredVerified
    OBVIOUS
  <2> DEFINE n == Cardinality(rows)
             h == Handled(frame, n)
  <2>1. n \in Nat /\ rows = 1 .. n /\ \A i \in 1 .. n : Verified(i)
    BY HandlerAt
  <2>2. h \in Stages(body.frames, declared) /\ Count \in Nat /\ Count = Len(body.frames)
        /\ body.frames \in Seq(Frames)
    BY AtWork
  <2>3. h.n \in Nat /\ n <= h.n /\ h.n <= Count
    BY <2>1, <2>2, HandlerAt DEF Gap, Within, Stages
  <2>4. \A i \in 1 .. n : i \in 1 .. h.n /\ i \in 1 .. Count
    BY <2>1, <2>2, <2>3
  <2>5. \A i \in 1 .. n : body.frames[i].fault \in Faults /\ body.frames[i].fault # "algorithm"
    <3>1. \A i \in 1 .. Count : body.frames[i].fault \in Faults
      BY <2>2, BodyFramed DEF Frames
    <3>2. \A i \in 1 .. h.n : body.frames[i].fault # "algorithm"
      BY <2>2 DEF Stages
    <3> QED BY <2>4, <3>1, <3>2
  <2> QED BY <2>1, <2>5 DEF RegisteredVerified, Verified, Faults
<1> QED BY <1>1, PackInductive, PTL

(* The handler never spools or stores more blobs or bytes than the request *)
(* declared, even of a pack that is refused in the end.                    *)
THEOREM NeverMoreThanDeclared == Spec => []WithinDeclared
<1>1. PackInv => WithinDeclared
  <2> SUFFICES ASSUME PackInv PROVE WithinDeclared
    OBVIOUS
  <2> DEFINE n == Cardinality(rows)
             h == Handled(frame, n)
  <2>1. n \in Nat /\ h \in Stages(body.frames, declared) /\ declared.bytes \in Nat
    BY AtWork, HandlerAt
  <2>2. PayloadBefore(n + 1) = PayloadIn(body.frames, n + 1)
    BY DEF PayloadBefore
  <2>3. CASE frame = None
    <3>1. h.n = n /\ h.at = "gap"
      BY <2>3, HandlerAt DEF Gap
    <3>2. n <= declared.blobs /\ PayloadIn(body.frames, n + 1) <= declared.bytes
      BY <2>1, <3>1 DEF Stages
    <3>3. PayloadIn(body.frames, n + 1) \in Nat
      <4>1. n \in 0 .. Count /\ Count \in Nat /\ body.frames \in Seq(Frames)
        BY <2>1, <3>1, AtWork DEF Stages
      <4>2. n + 1 \in 1 .. Count + 1
        BY <4>1
      <4> QED BY <4>1, <4>2, FrameLies
    <3> QED BY <2>1, <2>2, <2>3, <3>2, <3>3 DEF WithinDeclared
  <2>4. CASE frame # None
    <3>1. h.n = n + 1 /\ h.at = "frame" /\ h.had = frame.to - frame.from
      BY <2>4, HandlerAt DEF Within
    <3>2. n + 1 <= declared.blobs
          /\ PayloadIn(body.frames, n + 1) + (frame.to - frame.from) <= declared.bytes
      BY <2>1, <3>1 DEF Stages
    <3> QED BY <2>1, <2>2, <2>4, <3>2 DEF WithinDeclared
  <2> QED BY <2>3, <2>4
<1> QED BY <1>1, PackInductive, PTL
=============================================================================
