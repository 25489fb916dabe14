--------------------------- MODULE AzurePutProofs ---------------------------
(* AzurePut for any number of puts, readers and digests: a put keeps the   *)
(* promise of BlobStore, and what is not all there is served only where an *)
(* object expired.                                                         *)
EXTENDS AzurePut, TLAPS

Asking == {"write", "copy", "discard", "wait"}

Dests == [state : {"none", "pending", "whole", "failed"}, source : Puts \cup {None}]
PutRecords == [pc : Settled \cup Running, digest : Digests \cup {None},
               then : {"created", "exists", "failed", None}, polls : Nat]
ReadRecords == [pc : {"idle", "get", "served_short"},
                digest : Digests \cup {None}]

ZShapes ==
    /\ dest \in [Digests -> Dests]
    /\ up \in [Puts -> PutRecords]
    /\ read \in [Readers -> ReadRecords]
    /\ rows \subseteq Digests

(* A destination e of d comes from the put that made it, with record r,    *)
(* which is past its copy; until the copy is made or given up, that put has*)
(* not registered.                                                         *)
DestHas(e, d, r) ==
    /\ e.state = "none" => e = Gone
    /\ e.state # "none" =>
        /\ e.source \in Puts
        /\ r.digest = d
        /\ r.pc \notin {"idle", "write", "copy"}
    /\ e.state = "pending" =>
        r.pc \in {"discard", "wait"} \/ (r.pc = "failed" /\ r.then = None)
    /\ d \in Empty => e.state \in {"none", "whole"}

DestOK(d) == DestHas(dest[d], d, up[dest[d].source])

(* A put with record r that waits for its own copy still owns the          *)
(* destination; one that goes on to register has seen the blob whole, and  *)
(* only an expiry can have changed that.                                   *)
PutHas(r, u) ==
    /\ r.pc \in Running => r.digest \in Digests
    /\ r.pc \in {"idle", "write", "copy"} => r.then = None
    /\ r.pc = "copy" => r.digest \notin Empty
    /\ r.pc = "discard" => r.then \in {"exists", "failed"}
    /\ r.pc \in {"wait", "register"} => r.then \in {"created", "exists"}
    /\ r.pc = "wait" /\ r.then = "created" =>
          dest[r.digest].state # "none" /\ dest[r.digest].source = u
    /\ r.pc = "register" => dest[r.digest].state = "whole" \/ r.digest \in expired

PutOK(u) == PutHas(up[u], u)

(* So does a row, and a reader that saw it. *)
ServedOK ==
    /\ \A d \in rows : dest[d].state = "whole" \/ d \in expired
    /\ \A g \in Readers : read[g].pc = "get" => read[g].digest \in rows

ZInv ==
    /\ ZShapes
    /\ \A d \in Digests : DestOK(d)
    /\ \A u \in Puts : PutOK(u)
    /\ ServedOK
    /\ ServesWholeUnlessExpired

LEMMA ZInitially == ZInit => ZInv
<1> SUFFICES ASSUME ZInit PROVE ZInv
  OBVIOUS
<1>1. /\ Gone \in Dests /\ Gone.state = "none"
      /\ IdlePut \in PutRecords /\ IdlePut.pc = "idle" /\ IdlePut.then = None
      /\ IdleRead \in ReadRecords /\ IdleRead.pc = "idle"
  BY DEF Gone, Dests, IdlePut, PutRecords, IdleRead, ReadRecords, Settled
<1>2. ZShapes
  BY <1>1 DEF ZInit, ZShapes
<1>3. \A d \in Digests : DestOK(d)
  BY <1>1 DEF ZInit, DestOK, DestHas
<1>4. \A u \in Puts : PutOK(u)
  BY <1>1 DEF ZInit, PutOK, PutHas, Running
<1>5. ServedOK /\ ServesWholeUnlessExpired
  BY <1>1 DEF ZInit, ServedOK, ServesWholeUnlessExpired
<1> QED BY <1>2, <1>3, <1>4, <1>5 DEF ZInv

(* A put moves and the destinations stay. *)
LEMMA PutMoves ==
    ASSUME ZInv, NEW u \in Puts, NEW t \in PutRecords, up' = [up EXCEPT ![u] = t],
           UNCHANGED <<dest, read, expired>>,
           PutHas(t, u),
           \A d \in Digests : dest[d].state # "none" /\ dest[d].source = u =>
                DestHas(dest[d], d, t),
           rows' = rows \/ (up[u].pc = "register" /\ rows' = rows \cup {up[u].digest})
    PROVE  ZInv'
<1>1. /\ ZShapes /\ \A d \in Digests : DestOK(d)
      /\ \A v \in Puts : PutOK(v)
      /\ ServedOK /\ ServesWholeUnlessExpired
  BY DEF ZInv
<1>2. up'[u] = t /\ \A v \in Puts : v # u => up'[v] = up[v]
  BY <1>1 DEF ZShapes
<1>3. up[u].pc = "register" =>
        /\ up[u].digest \in Digests
        /\ dest[up[u].digest].state = "whole" \/ up[u].digest \in expired
  BY <1>1 DEF PutOK, PutHas, Running
<1>4. ZShapes'
  BY <1>1, <1>3 DEF ZShapes
<1>5. ASSUME NEW d \in Digests PROVE DestOK(d)'
  <2>1. CASE dest[d].state # "none" /\ dest[d].source = u
    BY <1>2, <2>1 DEF DestOK
  <2>2. CASE dest[d].state # "none" /\ dest[d].source # u
    <3>1. dest[d].source \in Puts
      BY <1>1, <2>2 DEF DestOK, DestHas
    <3>2. up'[dest[d].source] = up[dest[d].source]
      BY <1>2, <2>2, <3>1
    <3> QED BY <1>1, <3>2 DEF DestOK
  <2>3. CASE dest[d].state = "none"
    BY <1>1, <2>3 DEF DestOK, DestHas
  <2> QED BY <2>1, <2>2, <2>3
<1>6. ASSUME NEW v \in Puts PROVE PutOK(v)'
  <2>1. CASE v = u
    BY <1>2, <2>1 DEF PutOK, PutHas
  <2>2. CASE v # u
    BY <1>1, <1>2, <2>2 DEF PutOK, PutHas
  <2> QED BY <2>1, <2>2
<1>7. ServedOK'
  BY <1>1, <1>3 DEF ServedOK
<1>8. ServesWholeUnlessExpired'
  BY <1>1 DEF ServesWholeUnlessExpired
<1> QED BY <1>4, <1>5, <1>6, <1>7, <1>8 DEF ZInv

(* A put makes its destination. *)
LEMMA PutArrives ==
    ASSUME ZInv, NEW u \in Puts, NEW t \in PutRecords, up' = [up EXCEPT ![u] = t],
           up[u].digest \in Digests, dest[up[u].digest] = Gone,
           NEW state \in {"pending", "whole"},
           dest' = [dest EXCEPT ![up[u].digest] = [state |-> state, source |-> u]],
           UNCHANGED <<rows, read, expired>>,
           PutHas(t, u)', t.digest = up[u].digest,
           DestHas([state |-> state, source |-> u], up[u].digest, t)
    PROVE  ZInv'
<1> DEFINE c == up[u].digest
           e == [state |-> state, source |-> u]
<1>1. /\ ZShapes /\ \A d \in Digests : DestOK(d)
      /\ \A v \in Puts : PutOK(v)
      /\ ServedOK /\ ServesWholeUnlessExpired
  BY DEF ZInv
<1>2. up'[u] = t /\ \A v \in Puts : v # u => up'[v] = up[v]
  BY <1>1 DEF ZShapes
<1>3. e \in Dests /\ e.state = state /\ e.source = u /\ dest[c].state = "none"
  BY DEF Dests, Gone
<1>4. dest'[c] = e /\ \A d \in Digests : d # c => dest'[d] = dest[d]
  BY <1>1 DEF ZShapes
<1>5. ZShapes'
  BY <1>1, <1>3 DEF ZShapes
<1> HIDE DEF e
<1>6. ASSUME NEW d \in Digests PROVE DestOK(d)'
  <2>1. CASE d = c
    BY <1>2, <1>3, <1>4, <2>1 DEF DestOK, e
  <2>2. CASE d # c /\ dest[d].state # "none"
    <3>1. dest[d].source \in Puts /\ dest[d].source # u
      BY <1>1, <2>2 DEF DestOK, DestHas
    <3>2. up'[dest[d].source] = up[dest[d].source] /\ dest'[d] = dest[d]
      BY <1>2, <1>4, <2>2, <3>1
    <3> QED BY <1>1, <3>2 DEF DestOK
  <2>3. CASE d # c /\ dest[d].state = "none"
    BY <1>1, <1>4, <2>3 DEF DestOK, DestHas
  <2> QED BY <2>1, <2>2, <2>3
<1>7. ASSUME NEW v \in Puts PROVE PutOK(v)'
  <2>1. CASE v = u
    BY <1>2, <2>1 DEF PutOK
  <2>2. CASE v # u
    <3>1. up'[v] = up[v] /\ PutHas(up[v], v)
      BY <1>1, <1>2, <2>2 DEF PutOK
    <3>2. \/ up[v].digest \notin Digests \/ up[v].digest = c
          \/ dest'[up[v].digest] = dest[up[v].digest]
      BY <1>4
    <3>3. CASE up[v].digest \notin Digests
      BY <3>1, <3>3 DEF PutOK, PutHas, Running
    <3>4. CASE up[v].digest = c
      BY <1>3, <3>1, <3>4 DEF PutOK, PutHas
    <3>5. CASE dest'[up[v].digest] = dest[up[v].digest]
      BY <3>1, <3>5 DEF PutOK, PutHas
    <3> QED BY <3>2, <3>3, <3>4, <3>5
  <2> QED BY <2>1, <2>2
<1>8. ServedOK'
  <2>1. \A d \in rows : d \in Digests /\ (d = c => d \in expired)
    BY <1>1, <1>3 DEF ServedOK, ZShapes
  <2> QED BY <1>1, <1>4, <2>1 DEF ServedOK
<1>9. ServesWholeUnlessExpired'
  BY <1>1 DEF ServesWholeUnlessExpired
<1> QED BY <1>5, <1>6, <1>7, <1>8, <1>9 DEF ZInv

Failed(r) == [r EXCEPT !.pc = "failed", !.then = None, !.polls = 0]

(* A put that fails leaves what it made to whoever comes next. *)
LEMMA PutGivesUp ==
    ASSUME ZInv, NEW u \in Puts, up[u].pc \in Asking, Fails(u),
           UNCHANGED <<dest, rows, read, expired>>
    PROVE  ZInv'
<1> DEFINE t == Failed(up[u])
<1>1. ZShapes /\ \A d \in Digests : DestOK(d)
  BY DEF ZInv
<1>2. /\ up' = [up EXCEPT ![u] = t] /\ t \in PutRecords
      /\ t.pc = "failed" /\ t.then = None /\ t.digest = up[u].digest
  <2>1. up[u] \in PutRecords
    BY <1>1 DEF ZShapes
  <2>2. t \in PutRecords /\ t.pc = "failed" /\ t.then = None /\ t.digest = up[u].digest
    BY <2>1 DEF PutRecords, Settled, Failed
  <2>3. up' = [up EXCEPT ![u] = t]
    BY DEF Fails, Failed
  <2> QED BY <2>2, <2>3
<1> HIDE DEF t
<1>3. PutHas(t, u)
  BY <1>2 DEF PutHas, Running
<1>4. ASSUME NEW d \in Digests, dest[d].state # "none", dest[d].source = u
      PROVE  DestHas(dest[d], d, t)
  BY <1>1, <1>2, <1>4 DEF DestOK, DestHas
<1> QED BY <1>2, <1>3, <1>4, PutMoves

(* The steps of a put. *)
LEMMA PutSteps ==
    ASSUME ZInv, NEW u \in Puts,
           (\E d \in Digests : put(u, d)) \/ PutStep(u) \/ put_fails(u)
    PROVE  ZInv'
<1> DEFINE r == up[u]
           c == up[u].digest
<1>0. /\ ZShapes /\ \A d \in Digests : DestOK(d)
      /\ \A v \in Puts : PutOK(v) /\ ServedOK
  BY DEF ZInv
<1>1. r \in PutRecords /\ PutHas(r, u)
  BY <1>0 DEF PutOK, ZShapes
<1>2. \A d \in Digests : dest[d].state # "none" /\ dest[d].source = u => DestHas(dest[d], d, r)
  BY <1>0 DEF DestOK
<1>3. ASSUME NEW d \in Digests, put(u, d) PROVE ZInv'
  <2> DEFINE t == [IdlePut EXCEPT !.pc = "write", !.digest = d]
  <2>1. /\ up' = [up EXCEPT ![u] = t] /\ t \in PutRecords /\ r.pc = "idle"
        /\ t.pc = "write" /\ t.then = None /\ t.digest = d
        /\ UNCHANGED <<dest, rows, read, expired>>
    BY <1>3 DEF put, IdlePut, PutRecords, Running
  <2> HIDE DEF t
  <2>2. PutHas(t, u)
    BY <2>1 DEF PutHas
  <2>3. \A e \in Digests : ~(dest[e].state # "none" /\ dest[e].source = u)
    BY <1>2, <2>1 DEF DestHas
  <2> QED BY <2>1, <2>2, <2>3, PutMoves
<1>4. CASE put_empty(u)
  <2>0. r.pc = "write" /\ c \in Empty /\ c \in Digests
    BY <1>1, <1>4 DEF put_empty, PutHas, Running
  <2>1. CASE dest[c] = Gone
    <3> DEFINE e == [state |-> "whole", source |-> u]
    <3>1. /\ dest' = [dest EXCEPT ![c] = e] /\ UNCHANGED <<rows, read, expired>>
          /\ \/ \E told \in {"created", "exists"} :
                    up' = [up EXCEPT ![u].pc = "register", ![u].then = told]
             \/ Fails(u)
      BY <1>4, <2>1 DEF put_empty
    <3>2. dest'[c].state = "whole"
      BY <1>0, <2>0, <3>1 DEF ZShapes
    <3>3. PICK t \in PutRecords :
              /\ up' = [up EXCEPT ![u] = t] /\ t.digest = c
              /\ \/ t.pc = "register" /\ t.then \in {"created", "exists"}
                 \/ t.pc = "failed" /\ t.then = None
      <4>1. ASSUME NEW told \in {"created", "exists"},
                   up' = [up EXCEPT ![u].pc = "register", ![u].then = told]
            PROVE  \E t \in PutRecords : /\ up' = [up EXCEPT ![u] = t] /\ t.digest = c
                                         /\ t.pc = "register" /\ t.then \in {"created", "exists"}
        <5> DEFINE t == [r EXCEPT !.pc = "register", !.then = told]
        <5>1. t \in PutRecords /\ t.pc = "register" /\ t.then = told /\ t.digest = c
          BY <1>1 DEF PutRecords, Running
        <5>2. up' = [up EXCEPT ![u] = t]
          BY <4>1
        <5> QED BY <5>1, <5>2
      <4>2. CASE Fails(u)
        <5> DEFINE t == Failed(r)
        <5>1. t \in PutRecords /\ t.pc = "failed" /\ t.then = None /\ t.digest = c
          BY <1>1 DEF PutRecords, Settled, Failed
        <5>2. up' = [up EXCEPT ![u] = t]
          BY <4>2 DEF Fails, Failed
        <5> QED BY <5>1, <5>2
      <4> QED BY <3>1, <4>1, <4>2
    <3>4. PutHas(t, u)'
      BY <2>0, <3>2, <3>3 DEF PutHas, Running
    <3>5. DestHas(e, c, t)
      BY <3>3 DEF DestHas
    <3> QED BY <2>0, <2>1, <3>1, <3>3, <3>4, <3>5, PutArrives
  <2>2. CASE dest[c] # Gone
    <3> DEFINE t == [r EXCEPT !.pc = "register", !.then = "exists"]
    <3>1. /\ up' = [up EXCEPT ![u] = t] /\ t \in PutRecords
          /\ t.pc = "register" /\ t.then = "exists" /\ t.digest = c
          /\ UNCHANGED <<dest, rows, read, expired>>
      BY <1>1, <1>4, <2>2 DEF put_empty, PutRecords, Running
    <3> HIDE DEF t
    <3>2. dest[c].state = "whole"
      BY <1>0, <2>0, <2>2 DEF DestOK, DestHas
    <3>3. PutHas(t, u)
      BY <2>0, <3>1, <3>2 DEF PutHas
    <3>4. \A d \in Digests : ~(dest[d].state # "none" /\ dest[d].source = u)
      BY <1>2, <2>0 DEF DestHas
    <3> QED BY <3>1, <3>3, <3>4, PutMoves
  <2> QED BY <2>1, <2>2
<1>5. CASE write_temp(u)
  <2>0. r.pc = "write" /\ c \notin Empty /\ c \in Digests /\ r.then = None
        /\ UNCHANGED <<dest, rows, read, expired>>
    BY <1>1, <1>5 DEF write_temp, PutHas, Running
  <2>1. CASE Fails(u)
    BY <2>0, <2>1, PutGivesUp DEF Asking
  <2>2. CASE Goto(u, "copy")
    <3> DEFINE t == [r EXCEPT !.pc = "copy"]
    <3>1. /\ up' = [up EXCEPT ![u] = t] /\ t \in PutRecords
          /\ t.pc = "copy" /\ t.then = None /\ t.digest = c
      BY <1>1, <2>0, <2>2 DEF Goto, PutRecords, Running
    <3> HIDE DEF t
    <3>2. PutHas(t, u)
      BY <2>0, <3>1 DEF PutHas
    <3>3. \A d \in Digests : ~(dest[d].state # "none" /\ dest[d].source = u)
      BY <1>2, <2>0 DEF DestHas
    <3> QED BY <2>0, <3>1, <3>2, <3>3, PutMoves
  <2> QED BY <1>5, <2>1, <2>2 DEF write_temp
<1>6. ASSUME NEW pc \in {"wait", "discard"}, NEW then \in {"created", "exists", "failed"},
             pc = "wait" <=> then = "created",
             r.pc = "copy", Accept(u), UNCHANGED <<rows, read, expired>>,
             up' = [up EXCEPT ![u].pc = pc, ![u].then = then]
      PROVE  ZInv'
  <2>1. PICK t \in PutRecords : /\ up' = [up EXCEPT ![u] = t]
                                /\ t.pc = pc /\ t.then = then /\ t.digest = c
    <3> DEFINE t == [r EXCEPT !.pc = pc, !.then = then]
    <3>1. t \in PutRecords /\ t.pc = pc /\ t.then = then /\ t.digest = c
      BY <1>1, <1>6 DEF PutRecords, Running
    <3>2. up' = [up EXCEPT ![u] = t]
      BY <1>6
    <3> QED BY <3>1, <3>2
  <2>2. c \in Digests /\ c \notin Empty /\ dest[c] = Gone
    BY <1>1, <1>6 DEF PutHas, Running, Accept
  <2>3. PICK state \in {"pending", "whole"} :
            dest' = [dest EXCEPT ![c] = [state |-> state, source |-> u]]
    BY <1>6 DEF Accept
  <2>4. dest'[c].state = state /\ dest'[c].source = u
    BY <1>0, <2>2, <2>3 DEF ZShapes
  <2>5. PutHas(t, u)'
    BY <1>6, <2>1, <2>2, <2>4 DEF PutHas
  <2>6. DestHas([state |-> state, source |-> u], c, t)
    BY <1>6, <2>1, <2>2 DEF DestHas
  <2> QED BY <1>6, <2>1, <2>2, <2>3, <2>5, <2>6, PutArrives
<1>7. CASE copy_opts(u)
  BY <1>6, <1>7 DEF copy_opts
<1>8. ASSUME NEW then \in {"exists", "failed"}, r.pc = "copy",
             UNCHANGED <<dest, rows, read, expired>>,
             up' = [up EXCEPT ![u].pc = "discard", ![u].then = then]
      PROVE  ZInv'
  <2> DEFINE t == [r EXCEPT !.pc = "discard", !.then = then]
  <2>1. /\ up' = [up EXCEPT ![u] = t] /\ t \in PutRecords
        /\ t.pc = "discard" /\ t.then = then /\ t.digest = c
    BY <1>1, <1>8 DEF PutRecords, Running
  <2> HIDE DEF t
  <2>2. c \in Digests
    BY <1>1, <1>8 DEF PutHas, Running
  <2>3. PutHas(t, u)
    BY <2>1, <2>2 DEF PutHas
  <2>4. \A d \in Digests : ~(dest[d].state # "none" /\ dest[d].source = u)
    BY <1>2, <1>8 DEF DestHas
  <2> QED BY <1>8, <2>1, <2>3, <2>4, PutMoves
<1>9. CASE copy_exists(u)
  BY <1>6, <1>8, <1>9 DEF copy_exists
<1>10. CASE copy_errs(u)
  BY <1>6, <1>8, <1>10 DEF copy_errs
<1>11. CASE discard(u)
  <2>0. r.pc = "discard" /\ UNCHANGED <<dest, rows, read, expired>>
        /\ r.then \in {"exists", "failed"} /\ c \in Digests
    BY <1>1, <1>11 DEF discard, PutHas, Running
  <2>1. CASE r.then = "failed"
    BY <1>11, <2>0, <2>1, PutGivesUp DEF discard, Asking
  <2>2. CASE r.then = "exists"
    <3> DEFINE t == [r EXCEPT !.pc = "wait"]
    <3>1. /\ up' = [up EXCEPT ![u] = t] /\ t \in PutRecords
          /\ t.pc = "wait" /\ t.then = "exists" /\ t.digest = c
      BY <1>1, <1>11, <2>2 DEF discard, Goto, PutRecords, Running
    <3> HIDE DEF t
    <3>2. PutHas(t, u)
      BY <2>0, <3>1 DEF PutHas
    <3>3. ASSUME NEW d \in Digests, dest[d].state # "none", dest[d].source = u
          PROVE  DestHas(dest[d], d, t)
      BY <1>2, <2>0, <3>1, <3>3 DEF DestHas
    <3> QED BY <2>0, <3>1, <3>2, <3>3, PutMoves
  <2> QED BY <2>0, <2>1, <2>2
<1>12. CASE wait_until_readable(u)
  <2>0. r.pc = "wait" /\ UNCHANGED <<dest, rows, read, expired>>
        /\ r.then \in {"created", "exists"} /\ c \in Digests
    BY <1>1, <1>12 DEF wait_until_readable, PutHas, Running
  <2>1. CASE Readable(c) /\ up' = [up EXCEPT ![u].pc = "register", ![u].polls = 0]
    <3> DEFINE t == [r EXCEPT !.pc = "register", !.polls = 0]
    <3>1. /\ up' = [up EXCEPT ![u] = t] /\ t \in PutRecords
          /\ t.pc = "register" /\ t.then = r.then /\ t.digest = c
      BY <1>1, <2>1 DEF PutRecords, Running
    <3> HIDE DEF t
    <3>2. PutHas(t, u)
      BY <2>0, <2>1, <3>1 DEF PutHas, Readable
    <3>3. ASSUME NEW d \in Digests, dest[d].state # "none", dest[d].source = u
          PROVE  DestHas(dest[d], d, t)
      <4>1. d = c /\ DestHas(dest[d], d, r)
        BY <1>2, <3>3 DEF DestHas
      <4> QED BY <2>1, <3>1, <4>1 DEF DestHas, Readable
    <3> QED BY <2>0, <3>1, <3>2, <3>3, PutMoves
  <2>2. CASE up' = [up EXCEPT ![u].polls = @ + 1]
    <3> DEFINE t == [r EXCEPT !.polls = r.polls + 1]
    <3>1. /\ up' = [up EXCEPT ![u] = t] /\ t \in PutRecords
          /\ t.pc = r.pc /\ t.then = r.then /\ t.digest = c
      BY <1>1, <2>2 DEF PutRecords
    <3> HIDE DEF t
    <3>2. PutHas(t, u)
      BY <1>1, <3>1 DEF PutHas
    <3>3. ASSUME NEW d \in Digests, dest[d].state # "none", dest[d].source = u
          PROVE  DestHas(dest[d], d, t)
      BY <1>2, <3>1, <3>3 DEF DestHas
    <3> QED BY <2>0, <3>1, <3>2, <3>3, PutMoves
  <2>3. CASE Fails(u)
    BY <2>0, <2>3, PutGivesUp DEF Asking
  <2> QED BY <1>12, <2>1, <2>2, <2>3 DEF wait_until_readable
(* put_blob goes on: nothing is asked of the put any more. *)
<1>13. ASSUME NEW pc \in {"created", "exists", "failed"}, r.pc = "register", Goto(u, pc),
              UNCHANGED <<dest, read, expired>>,
              rows' = rows \/ rows' = rows \cup {c}
       PROVE  ZInv'
  <2> DEFINE t == [r EXCEPT !.pc = pc]
  <2>1. /\ up' = [up EXCEPT ![u] = t] /\ t \in PutRecords
        /\ t.pc = pc /\ t.then = r.then /\ t.digest = c
    BY <1>1, <1>13 DEF Goto, PutRecords, Settled
  <2> HIDE DEF t
  <2>2. PutHas(t, u)
    BY <2>1 DEF PutHas, Running
  <2>3. ASSUME NEW d \in Digests, dest[d].state # "none", dest[d].source = u
        PROVE  DestHas(dest[d], d, t)
    BY <1>2, <1>13, <2>1, <2>3 DEF DestHas
  <2> QED BY <1>13, <2>1, <2>2, <2>3, PutMoves
<1>14. CASE register_blob(u)
  <2>1. r.then \in {"created", "exists"}
    BY <1>1, <1>14 DEF register_blob, PutHas
  <2> QED BY <1>13, <1>14, <2>1 DEF register_blob
<1>15. CASE put_fails(u)
  <2>1. CASE r.pc = "register"
    BY <1>13, <1>15, <2>1 DEF put_fails
  <2>2. CASE r.pc # "register"
    <3>1. r.pc \in Asking /\ Fails(u) /\ UNCHANGED <<dest, rows, read, expired>>
      BY <1>15, <2>2 DEF put_fails, Asking, Running
    <3> QED BY <3>1, PutGivesUp
  <2> QED BY <2>1, <2>2
<1> QED BY <1>3, <1>4, <1>5, <1>7, <1>9, <1>10, <1>11, <1>12, <1>14, <1>15 DEF PutStep

(* Azure makes a copy, gives it up, or lets a blob expire. *)
LEMMA AzureSteps ==
    ASSUME ZInv, NEW c \in Digests, copy_completes(c) \/ copy_aborts(c) \/ expire(c)
    PROVE  ZInv'
<1>0. /\ ZShapes /\ \A d \in Digests : DestOK(d)
      /\ \A v \in Puts : PutOK(v)
      /\ ServedOK /\ ServesWholeUnlessExpired
  BY DEF ZInv
<1>1. dest[c] \in Dests /\ UNCHANGED <<temp, up, rows, read>> /\ expired \subseteq expired'
  BY <1>0 DEF ZShapes, copy_completes, copy_aborts, expire
<1>2. PICK e \in Dests :
          /\ dest' = [dest EXCEPT ![c] = e]
          /\ \/ /\ dest[c].state = "pending" /\ e.state \in {"whole", "failed"}
                /\ e.source = dest[c].source /\ (c \in Empty => e.state = "whole")
             \/ /\ e = Gone /\ e.state = "none" /\ c \in expired'
                /\ up[dest[c].source].pc \in Settled /\ dest[c].state # "none"
  <2>1. CASE copy_completes(c)
    <3> DEFINE e == [dest[c] EXCEPT !.state = "whole"]
    <3>1. e \in Dests /\ e.state = "whole" /\ e.source = dest[c].source
      BY <1>1 DEF Dests
    <3>2. dest' = [dest EXCEPT ![c] = e] /\ dest[c].state = "pending"
      BY <2>1 DEF copy_completes
    <3> QED BY <3>1, <3>2
  <2>2. CASE copy_aborts(c)
    <3> DEFINE e == [dest[c] EXCEPT !.state = "failed"]
    <3>1. e \in Dests /\ e.state = "failed" /\ e.source = dest[c].source
      BY <1>1 DEF Dests
    <3>2. dest' = [dest EXCEPT ![c] = e] /\ dest[c].state = "pending"
      BY <2>2 DEF copy_aborts
    <3>3. c \notin Empty
      BY <1>0, <3>2 DEF DestOK, DestHas
    <3> QED BY <3>1, <3>2, <3>3
  <2>3. CASE expire(c)
    <3>1. Gone \in Dests /\ Gone.state = "none"
      BY DEF Gone, Dests
    <3> QED BY <2>3, <3>1 DEF expire
  <2> QED BY <2>1, <2>2, <2>3
<1>3. dest'[c] = e /\ \A d \in Digests : d # c => dest'[d] = dest[d]
  BY <1>0, <1>2 DEF ZShapes
<1>4. ZShapes'
  BY <1>0, <1>1, <1>2 DEF ZShapes
<1>5. ASSUME NEW d \in Digests PROVE DestOK(d)'
  <2>1. CASE d = c
    <3>1. DestHas(dest[c], c, up[dest[c].source])
      BY <1>0 DEF DestOK
    <3>2. DestHas(e, c, up[e.source])
      BY <1>2, <3>1 DEF DestHas
    <3> QED BY <1>1, <1>3, <2>1, <3>2 DEF DestOK
  <2>2. CASE d # c
    BY <1>0, <1>1, <1>3, <2>2 DEF DestOK
  <2> QED BY <2>1, <2>2
<1>6. ASSUME NEW v \in Puts PROVE PutOK(v)'
  <2>1. PutHas(up[v], v) /\ up'[v] = up[v]
    BY <1>0, <1>1 DEF PutOK
  <2>2. CASE up[v].digest \in Digests /\ up[v].digest # c
    BY <1>1, <1>3, <2>1, <2>2 DEF PutOK, PutHas
  <2>3. CASE up[v].digest \notin Digests
    BY <2>1, <2>3 DEF PutOK, PutHas, Running
  <2>4. CASE up[v].digest = c
    <3>1. up[v].pc = "wait" => up[v].pc \notin Settled
      BY DEF Settled
    <3>2. up[v].pc = "wait" /\ up[v].then = "created" =>
              dest'[c].state # "none" /\ dest'[c].source = v
      BY <1>2, <1>3, <2>1, <2>4, <3>1 DEF PutHas
    <3>3. up[v].pc = "register" => dest'[c].state = "whole" \/ c \in expired'
      BY <1>1, <1>2, <1>3, <2>1, <2>4 DEF PutHas
    <3> QED BY <2>1, <2>4, <3>2, <3>3 DEF PutOK, PutHas
  <2> QED BY <2>2, <2>3, <2>4
<1>7. ServedOK'
  <2>1. ASSUME NEW d \in rows PROVE dest'[d].state = "whole" \/ d \in expired'
    <3>1. d \in Digests /\ (dest[d].state = "whole" \/ d \in expired)
      BY <1>0 DEF ServedOK, ZShapes
    <3> QED BY <1>1, <1>2, <1>3, <3>1
  <2> QED BY <1>0, <1>1, <2>1 DEF ServedOK
<1>8. ServesWholeUnlessExpired'
  BY <1>0, <1>1 DEF ServesWholeUnlessExpired
<1> QED BY <1>4, <1>5, <1>6, <1>7, <1>8 DEF ZInv

(* A reader moves. *)
LEMMA ReadSteps ==
    ASSUME ZInv, NEW g \in Readers, (\E d \in Digests : get_blob(g, d)) \/ get(g)
    PROVE  ZInv'
<1>0. /\ ZShapes /\ \A d \in Digests : DestOK(d)
      /\ \A v \in Puts : PutOK(v)
      /\ ServedOK /\ ServesWholeUnlessExpired
  BY DEF ZInv
<1>1. UNCHANGED <<dest, temp, up, rows, expired>>
  BY DEF get_blob, get
<1>2. IdleRead \in ReadRecords /\ IdleRead.pc = "idle"
  BY DEF IdleRead, ReadRecords
<1>3. PICK t \in ReadRecords :
          /\ read' = [read EXCEPT ![g] = t]
          /\ t.pc = "get" => t.digest \in rows
          /\ t.pc = "served_short" => t.digest \in expired
  <2>1. ASSUME NEW d \in Digests, get_blob(g, d)
        PROVE  \E t \in ReadRecords : /\ read' = [read EXCEPT ![g] = t]
                                      /\ t.pc = "get" => t.digest \in rows
                                      /\ t.pc = "served_short" => t.digest \in expired
    <3>1. CASE d \in rows
      <4> DEFINE t == [pc |-> "get", digest |-> d]
      <4>1. t \in ReadRecords /\ t.pc = "get" /\ t.digest = d
        BY DEF ReadRecords
      <4>2. read' = [read EXCEPT ![g] = t]
        BY <2>1, <3>1 DEF get_blob
      <4> QED BY <3>1, <4>1, <4>2
    <3>2. CASE d \notin rows
      BY <1>2, <2>1, <3>2 DEF get_blob
    <3> QED BY <3>1, <3>2
  <2>2. ASSUME get(g)
        PROVE  \E t \in ReadRecords : /\ read' = [read EXCEPT ![g] = t]
                                      /\ t.pc = "get" => t.digest \in rows
                                      /\ t.pc = "served_short" => t.digest \in expired
    <3> DEFINE c == read[g].digest
    <3>1. read[g].pc = "get" /\ c \in rows /\ c \in Digests /\ read[g] \in ReadRecords
      BY <1>0, <2>2 DEF get, ServedOK, ZShapes
    <3>2. CASE dest[c].state = "none"
      BY <1>2, <2>2, <3>2 DEF get
    <3>3. CASE dest[c].state = "whole"
      BY <1>2, <2>2, <3>3 DEF get
    <3>4. CASE dest[c].state # "none" /\ dest[c].state # "whole"
      <4> DEFINE t == [read[g] EXCEPT !.pc = "served_short"]
      <4>1. t \in ReadRecords /\ t.pc = "served_short" /\ t.digest = c
        BY <3>1 DEF ReadRecords
      <4>2. read' = [read EXCEPT ![g] = t]
        BY <2>2, <3>4 DEF get
      <4>3. c \in expired
        BY <1>0, <3>1, <3>4 DEF ServedOK
      <4> QED BY <4>1, <4>2, <4>3
    <3> QED BY <3>2, <3>3, <3>4
  <2> QED BY <2>1, <2>2
<1>4. read'[g] = t /\ \A h \in Readers : h # g => read'[h] = read[h]
  BY <1>0, <1>3 DEF ZShapes
<1>5. ZShapes'
  BY <1>0, <1>1, <1>3 DEF ZShapes
<1>6. \A d \in Digests : DestOK(d)'
  BY <1>0, <1>1 DEF DestOK
<1>7. \A v \in Puts : PutOK(v)'
  BY <1>0, <1>1 DEF PutOK, PutHas
<1>8. ServedOK' /\ ServesWholeUnlessExpired'
  BY <1>0, <1>1, <1>3, <1>4 DEF ServedOK, ServesWholeUnlessExpired
<1> QED BY <1>5, <1>6, <1>7, <1>8 DEF ZInv

(* Nothing but the temporary keys changed, or nothing at all. *)
LEMMA NothingSeen ==
    ASSUME ZInv, UNCHANGED <<dest, up, rows, read, expired>>
    PROVE  ZInv'
  BY DEF ZInv, ZShapes, DestOK, PutOK, PutHas, ServedOK, ServesWholeUnlessExpired

(* The invariant of the puts, the destinations, the rows and the readers   *)
(* holds of every behaviour.                                               *)
THEOREM PutsInductive == ZSafeSpec => []ZInv
<1>1. ZInv /\ [ZNext]_zvars => ZInv'
  BY PutSteps, AzureSteps, ReadSteps, NothingSeen DEF ZNext, zvars, expire_temp
<1> QED BY <1>1, ZInitially, PTL DEF ZSafeSpec

(* While nothing expires, whoever sees the row of a blob gets all of it.   *)
THEOREM RowsServeWhole == ZSafeSpec => []ServesWholeUnlessExpired
<1>1. ZInv => ServesWholeUnlessExpired
  BY DEF ZInv
<1> QED BY <1>1, PutsInductive, PTL

-----------------------------------------------------------------------------
(* AzurePut implements BlobStore. *)

Bytes(e) == IF e.state = "whole" THEN e.source ELSE None

Told(r) ==
    CASE r.pc \in {"write", "copy", "discard", "wait"} -> "asked"
      [] r.pc \notin Running /\ r.then = None -> r.pc
      [] OTHER -> r.then

Object == [d \in Digests |-> Bytes(dest[d])]
Digest == [u \in Puts |-> up[u].digest]
Outcome == [u \in Puts |-> Told(up[u])]

(* The actions of BlobStore, in terms of these. *)
LEMMA StoreActions ==
    /\ Store!Init <=> /\ Object = [d \in Digests |-> None]
                      /\ Digest = [u \in Puts |-> None]
                      /\ Outcome = [u \in Puts |-> "idle"]
    /\ \A u \in Puts, d \in Digests :
        Store!Ask(u, d) <=> /\ Outcome[u] = "idle"
                            /\ Digest' = [Digest EXCEPT ![u] = d]
                            /\ Outcome' = [Outcome EXCEPT ![u] = "asked"]
                            /\ Object' = Object
    /\ \A u \in Puts :
        /\ Store!Writes(u) <=> /\ Outcome[u] \in {"asked", "failed"}
                               /\ Object[Digest[u]] = None
                               /\ Object' = [Object EXCEPT ![Digest[u]] = u]
        /\ Store!Write(u) <=> Store!Writes(u) /\ Digest' = Digest /\ Outcome' = Outcome
        /\ Store!Create(u) <=>
            /\ Outcome[u] = "asked" /\ Store!Writes(u)
            /\ \E told \in {"created", "exists", "failed"} :
                    Outcome' = [Outcome EXCEPT ![u] = told]
            /\ Digest' = Digest
        /\ Store!Report(u) <=>
            /\ Outcome[u] = "asked" /\ Object[Digest[u]] # None
            /\ \E told \in {"created", "exists"} :
                /\ told = "created" => Object[Digest[u]] = u
                /\ Outcome' = [Outcome EXCEPT ![u] = told]
            /\ Object' = Object /\ Digest' = Digest
        /\ Store!Fail(u) <=>
            /\ Outcome[u] = "asked"
            /\ Outcome' = [Outcome EXCEPT ![u] = "failed"]
            /\ Object' = Object /\ Digest' = Digest
    /\ \A d \in Digests :
        Store!Expire(d) <=> /\ Object' = [Object EXCEPT ![d] = None]
                            /\ Digest' = Digest /\ Outcome' = Outcome
    /\ UNCHANGED Store!vars <=> Object' = Object /\ Digest' = Digest /\ Outcome' = Outcome
  BY DEF Store!Init, Store!Ask, Store!Writes, Store!Write, Store!Create, Store!Report,
         Store!Fail, Store!Expire, Store!vars, Object, Digest, Outcome, Bytes, Told

(* What a put was told, by where it is. *)
LEMMA ToldIs ==
    ASSUME NEW r \in PutRecords
    PROVE  /\ r.pc \in Asking => Told(r) = "asked"
           /\ r.pc \in Settled /\ r.then = None => Told(r) = r.pc
           /\ r.pc \in Settled \cup {"register"} /\ r.then # None => Told(r) = r.then
  BY DEF Told, Asking, Settled, Running

(* A put moves: its digest and what it was told are all that BlobStore sees.*)
LEMMA PutSeen ==
    ASSUME ZInv, NEW u \in Puts, NEW t \in PutRecords, up' = [up EXCEPT ![u] = t]
    PROVE  /\ Outcome[u] = Told(up[u]) /\ Digest[u] = up[u].digest
           /\ Outcome' = [Outcome EXCEPT ![u] = Told(t)]
           /\ Digest' = [Digest EXCEPT ![u] = t.digest]
           /\ Told(t) = Told(up[u]) => Outcome' = Outcome
           /\ t.digest = up[u].digest => Digest' = Digest
<1>1. up'[u] = t /\ \A v \in Puts : v # u => up'[v] = up[v]
  BY DEF ZInv, ZShapes
<1>2. Outcome' = [v \in Puts |-> Told(up'[v])] /\ Digest' = [v \in Puts |-> up'[v].digest]
  BY DEF Outcome, Told, Digest
<1>3. Outcome = [v \in Puts |-> Told(up[v])] /\ Digest = [v \in Puts |-> up[v].digest]
  BY DEF Outcome, Digest
<1>4. Outcome' = [Outcome EXCEPT ![u] = Told(t)]
  BY <1>1, <1>2, <1>3
<1>5. Digest' = [Digest EXCEPT ![u] = t.digest]
  BY <1>1, <1>2, <1>3
<1> QED BY <1>3, <1>4, <1>5

(* A destination changes: BlobStore sees whose bytes are there. *)
LEMMA DestSeen ==
    ASSUME ZInv, NEW d \in Digests, NEW e \in Dests, dest' = [dest EXCEPT ![d] = e]
    PROVE  /\ Object[d] = Bytes(dest[d])
           /\ Object' = [Object EXCEPT ![d] = Bytes(e)]
           /\ Bytes(e) = Bytes(dest[d]) => Object' = Object
<1>1. dest'[d] = e /\ \A c \in Digests : c # d => dest'[c] = dest[c]
  BY DEF ZInv, ZShapes
<1>2. Object' = [c \in Digests |-> Bytes(dest'[c])]
  BY DEF Object, Bytes
<1>3. Object = [c \in Digests |-> Bytes(dest[c])]
  BY DEF Object
<1>4. Object' = [Object EXCEPT ![d] = Bytes(e)]
  BY <1>1, <1>2, <1>3
<1> QED BY <1>3, <1>4

(* What did not change is not seen to change. *)
LEMMA Unseen ==
    /\ dest' = dest => Object' = Object
    /\ up' = up => Digest' = Digest /\ Outcome' = Outcome
  BY DEF Object, Bytes, Digest, Outcome, Told

(* A put that gives up before it answered fails. *)
LEMMA GivingUpFails ==
    ASSUME ZInv, NEW u \in Puts, up[u].pc \in Asking, Fails(u), UNCHANGED dest
    PROVE  Store!Fail(u)
<1> DEFINE t == [up[u] EXCEPT !.pc = "failed", !.then = None, !.polls = 0]
<1>1. /\ up' = [up EXCEPT ![u] = t] /\ t \in PutRecords /\ up[u] \in PutRecords
      /\ t.pc = "failed" /\ t.then = None /\ t.digest = up[u].digest
  BY DEF ZInv, ZShapes, Fails, PutRecords, Settled
<1> HIDE DEF t
<1>2. Told(t) = "failed" /\ Told(up[u]) = "asked"
  BY <1>1, ToldIs DEF Settled
<1>3. /\ Outcome[u] = "asked" /\ Outcome' = [Outcome EXCEPT ![u] = "failed"]
      /\ Digest' = Digest
  BY <1>1, <1>2, PutSeen
<1> QED BY <1>3, Unseen, StoreActions

(* A put that moves on where BlobStore sees no difference. *)
LEMMA PutStutters ==
    ASSUME ZInv, NEW u \in Puts, NEW t \in PutRecords, up' = [up EXCEPT ![u] = t],
           t.digest = up[u].digest, Told(t) = Told(up[u]), Object' = Object
    PROVE  UNCHANGED Store!vars
  BY PutSeen, StoreActions

(* Every step of a put is one of BlobStore's, or is not seen. *)
LEMMA PutStepSeen ==
    ASSUME ZInv, NEW u \in Puts,
           (\E d \in Digests : put(u, d)) \/ PutStep(u) \/ put_fails(u)
    PROVE  Store!Next \/ UNCHANGED Store!vars
<1> DEFINE r == up[u]
           c == r.digest
<1>1. /\ r \in PutRecords /\ PutHas(r, u) /\ ZShapes
      /\ \A d \in Digests : DestHas(dest[d], d, up[dest[d].source])
  BY DEF ZInv, ZShapes, PutOK, DestOK
<1>2. /\ Store!Write(u) => Store!Next
      /\ Store!Create(u) => Store!Next
      /\ Store!Report(u) => Store!Next
      /\ Store!Fail(u) => Store!Next
      /\ \A d \in Digests : Store!Ask(u, d) => Store!Next
  BY DEF Store!Next
<1>3. ASSUME r.pc \in Asking, Fails(u), UNCHANGED dest PROVE Store!Next
  BY <1>2, <1>3, GivingUpFails
<1>4. r.pc \in Asking => Told(r) = "asked" /\ c \in Digests
  BY <1>1, ToldIs DEF PutHas, Asking, Running
<1>5. \A d \in Digests : Bytes(dest[d]) = None <=> dest[d].state # "whole"
  <2> SUFFICES ASSUME NEW d \in Digests PROVE Bytes(dest[d]) = None <=> dest[d].state # "whole"
    OBVIOUS
  <2>1. dest[d].state = "whole" => dest[d].source \in Puts
    BY <1>1 DEF DestHas
  <2> QED BY <2>1, NoneAssumption DEF Bytes
<1>6. Bytes(Gone) = None /\ Gone.state = "none" /\ Gone \in Dests
  BY DEF Bytes, Gone, Dests
<1>7. ASSUME NEW d \in Digests, put(u, d) PROVE Store!Next
  <2> DEFINE t == [IdlePut EXCEPT !.pc = "write", !.digest = d]
  <2>1. /\ up' = [up EXCEPT ![u] = t] /\ t \in PutRecords
        /\ t.pc = "write" /\ t.digest = d /\ r.pc = "idle" /\ dest' = dest
    BY <1>7 DEF put, IdlePut, PutRecords, Running
  <2> HIDE DEF t
  <2>2. Told(t) = "asked" /\ Told(r) = "idle"
    BY <1>1, <2>1, ToldIs DEF Asking, Settled, PutHas
  <2>3. /\ Outcome[u] = "idle" /\ Outcome' = [Outcome EXCEPT ![u] = "asked"]
        /\ Digest' = [Digest EXCEPT ![u] = d]
    BY <2>1, <2>2, PutSeen
  <2> QED BY <1>2, <2>1, <2>3, Unseen, StoreActions
<1>8. CASE put_empty(u)
  <2>0. r.pc = "write" /\ c \in Empty /\ c \in Digests /\ Told(r) = "asked"
    BY <1>4, <1>8 DEF put_empty, Asking
  <2>1. ASSUME dest[c] = Gone
        PROVE  Store!Next
    <3> DEFINE e == [state |-> "whole", source |-> u]
    <3>1. dest' = [dest EXCEPT ![c] = e] /\ e \in Dests /\ Bytes(e) = u
      BY <1>8, <2>1 DEF put_empty, Dests, Bytes
    <3> HIDE DEF e
    <3>2. /\ Object[c] = None /\ Object' = [Object EXCEPT ![c] = u]
      BY <1>6, <2>0, <2>1, <3>1, DestSeen
    <3>3. PICK told \in {"created", "exists", "failed"}, t \in PutRecords :
            up' = [up EXCEPT ![u] = t] /\ Told(t) = told /\ t.digest = c
      <4>1. ASSUME NEW then \in {"created", "exists"},
                   up' = [up EXCEPT ![u].pc = "register", ![u].then = then]
            PROVE  \E t \in PutRecords :
                      up' = [up EXCEPT ![u] = t] /\ Told(t) = then /\ t.digest = c
        <5> DEFINE t == [r EXCEPT !.pc = "register", !.then = then]
        <5>1. /\ up' = [up EXCEPT ![u] = t] /\ t \in PutRecords
              /\ t.pc = "register" /\ t.then = then /\ t.digest = c
          BY <1>1, <4>1 DEF PutRecords, Running
        <5> HIDE DEF t
        <5>2. Told(t) = then
          BY <5>1, ToldIs, NoneAssumption
        <5> QED BY <5>1, <5>2
      <4>2. CASE Fails(u)
        <5> DEFINE t == [r EXCEPT !.pc = "failed", !.then = None, !.polls = 0]
        <5>1. /\ up' = [up EXCEPT ![u] = t] /\ t \in PutRecords
              /\ t.pc = "failed" /\ t.then = None /\ t.digest = c
          BY <1>1, <4>2 DEF Fails, PutRecords, Settled
        <5> HIDE DEF t
        <5>2. Told(t) = "failed"
          BY <5>1, ToldIs DEF Settled
        <5> QED BY <5>1, <5>2
      <4> QED BY <1>8, <2>1, <4>1, <4>2 DEF put_empty
    <3>4. /\ Outcome[u] = "asked" /\ Outcome' = [Outcome EXCEPT ![u] = told]
          /\ Digest' = Digest /\ Digest[u] = c
      BY <2>0, <3>3, PutSeen
    <3>5. Store!Writes(u)
      BY <3>2, <3>4, StoreActions
    <3> QED BY <1>2, <3>4, <3>5, StoreActions
  <2>2. ASSUME dest[c] # Gone
        PROVE  Store!Next
    <3> DEFINE t == [r EXCEPT !.pc = "register", !.then = "exists"]
    <3>1. /\ up' = [up EXCEPT ![u] = t] /\ t \in PutRecords /\ dest' = dest
          /\ t.pc = "register" /\ t.then = "exists" /\ t.digest = c
      BY <1>1, <1>8, <2>2 DEF put_empty, PutRecords, Running
    <3> HIDE DEF t
    <3>2. Told(t) = "exists"
      BY <3>1, ToldIs, NoneAssumption
    <3>3. dest[c].state = "whole"
      BY <1>1, <2>0, <2>2 DEF DestHas
    <3>4. Object[c] # None
      BY <1>5, <2>0, <3>3 DEF Object, Bytes
    <3>5. /\ Outcome[u] = "asked" /\ Outcome' = [Outcome EXCEPT ![u] = "exists"]
          /\ Digest' = Digest /\ Digest[u] = c
      BY <2>0, <3>1, <3>2, PutSeen
    <3> QED BY <1>2, <3>1, <3>4, <3>5, Unseen, StoreActions
  <2> QED BY <2>1, <2>2
(* Still asked, with nothing new in the store. *)
<1>9. ASSUME NEW t \in PutRecords, up' = [up EXCEPT ![u] = t], r.pc \in Asking,
             t.pc \in Asking, t.digest = c, Object' = Object
      PROVE  UNCHANGED Store!vars
  BY <1>4, <1>9, ToldIs, PutStutters
<1>10. CASE write_temp(u)
  <2>1. r.pc \in Asking /\ dest' = dest
    BY <1>10 DEF write_temp, Asking
  <2>2. CASE Goto(u, "copy")
    <3> DEFINE t == [r EXCEPT !.pc = "copy"]
    <3>1. up' = [up EXCEPT ![u] = t] /\ t \in PutRecords /\ t.pc \in Asking /\ t.digest = c
      BY <1>1, <2>2 DEF Goto, PutRecords, Running, Asking
    <3> HIDE DEF t
    <3> QED BY <1>9, <2>1, <3>1, Unseen
  <2>3. CASE Fails(u)
    BY <1>3, <2>1, <2>3
  <2> QED BY <1>10, <2>2, <2>3 DEF write_temp
(* The copy was accepted: it is made at once, or not yet. *)
<1>11. ASSUME NEW pc \in {"discard", "wait"}, NEW then \in {"created", "exists", "failed"},
              r.pc = "copy", Accept(u),
              up' = [up EXCEPT ![u].pc = pc, ![u].then = then]
       PROVE  Store!Next \/ UNCHANGED Store!vars
  <2> DEFINE t == [r EXCEPT !.pc = pc, !.then = then]
  <2>1. up' = [up EXCEPT ![u] = t] /\ t \in PutRecords /\ t.pc \in Asking /\ t.digest = c
    BY <1>1, <1>11 DEF PutRecords, Running, Asking
  <2> HIDE DEF t
  <2>2. r.pc \in Asking /\ Told(r) = "asked" /\ c \in Digests /\ Told(t) = "asked"
    BY <1>4, <1>11, <2>1, ToldIs DEF Asking
  <2>3. PICK state \in {"pending", "whole"} :
            dest' = [dest EXCEPT ![c] = [state |-> state, source |-> u]]
    BY <1>11 DEF Accept
  <2> DEFINE e == [state |-> state, source |-> u]
  <2>4. /\ dest' = [dest EXCEPT ![c] = e] /\ e \in Dests
        /\ Bytes(e) = IF state = "whole" THEN u ELSE None
    BY <2>3 DEF Dests, Bytes
  <2> HIDE DEF e
  <2>5. dest[c] = Gone
    BY <1>11 DEF Accept
  <2>6. Object[c] = None /\ Bytes(dest[c]) = None
    BY <1>6, <2>2, <2>5 DEF Object
  <2>7. CASE state = "whole"
    <3>1. Object' = [Object EXCEPT ![c] = u]
      BY <2>2, <2>4, <2>7, DestSeen
    <3>2. Outcome[u] = "asked" /\ Digest[u] = c /\ Outcome' = Outcome /\ Digest' = Digest
      BY <2>1, <2>2, PutSeen
    <3>3. Store!Writes(u)
      BY <2>6, <3>1, <3>2, StoreActions
    <3> QED BY <1>2, <3>2, <3>3, StoreActions
  <2>8. CASE state = "pending"
    <3>1. Object' = Object
      BY <2>2, <2>4, <2>6, <2>8, DestSeen
    <3> QED BY <1>9, <2>1, <2>2, <3>1
  <2> QED BY <2>7, <2>8
<1>12. CASE copy_opts(u)
  BY <1>11, <1>12 DEF copy_opts
(* The destination was left alone. *)
<1>13. ASSUME NEW then \in {"exists", "failed"}, r.pc = "copy", dest' = dest,
              up' = [up EXCEPT ![u].pc = "discard", ![u].then = then]
       PROVE  UNCHANGED Store!vars
  <2> DEFINE t == [r EXCEPT !.pc = "discard", !.then = then]
  <2>1. up' = [up EXCEPT ![u] = t] /\ t \in PutRecords /\ t.pc \in Asking /\ t.digest = c
    BY <1>1, <1>13 DEF PutRecords, Running, Asking
  <2> HIDE DEF t
  <2>2. r.pc \in Asking
    BY <1>13 DEF Asking
  <2> QED BY <1>9, <1>13, <2>1, <2>2, Unseen
<1>14. CASE copy_exists(u)
  BY <1>11, <1>13, <1>14 DEF copy_exists
<1>15. CASE copy_errs(u)
  BY <1>11, <1>13, <1>15 DEF copy_errs
<1>16. CASE discard(u)
  <2>1. r.pc \in Asking /\ dest' = dest
    BY <1>16 DEF discard, Asking
  <2>2. CASE Fails(u)
    BY <1>3, <2>1, <2>2
  <2>3. CASE Goto(u, "wait")
    <3> DEFINE t == [r EXCEPT !.pc = "wait"]
    <3>1. up' = [up EXCEPT ![u] = t] /\ t \in PutRecords /\ t.pc \in Asking /\ t.digest = c
      BY <1>1, <2>3 DEF Goto, PutRecords, Running, Asking
    <3> HIDE DEF t
    <3> QED BY <1>9, <2>1, <3>1, Unseen
  <2> QED BY <1>16, <2>2, <2>3 DEF discard
<1>17. CASE wait_until_readable(u)
  <2>0. /\ r.pc = "wait" /\ r.pc \in Asking /\ dest' = dest
        /\ r.then \in {"created", "exists"} /\ c \in Digests /\ Told(r) = "asked"
    BY <1>1, <1>4, <1>17 DEF wait_until_readable, PutHas, Asking
  <2>1. CASE Readable(c) /\ up' = [up EXCEPT ![u].pc = "register", ![u].polls = 0]
    <3> DEFINE t == [r EXCEPT !.pc = "register", !.polls = 0]
    <3>1. /\ up' = [up EXCEPT ![u] = t] /\ t \in PutRecords
          /\ t.pc = "register" /\ t.then = r.then /\ t.digest = c
      BY <1>1, <2>1 DEF PutRecords, Running
    <3> HIDE DEF t
    <3>2. Told(t) = r.then
      BY <2>0, <3>1, ToldIs, NoneAssumption
    <3>3. r.then = "created" => dest[c].source = u
      BY <1>1, <2>0, <2>1 DEF DestHas, PutHas, Readable
    <3>4. Object[c] # None /\ (r.then = "created" => Object[c] = u)
      BY <1>5, <2>0, <2>1, <3>3 DEF Object, Bytes, Readable
    <3>5. /\ Outcome[u] = "asked" /\ Outcome' = [Outcome EXCEPT ![u] = r.then]
          /\ Digest' = Digest /\ Digest[u] = c
      BY <2>0, <3>1, <3>2, PutSeen
    <3>6. r.then = "created" => Object[Digest[u]] = u
      BY <2>0, <3>4, <3>5
    <3> QED BY <1>2, <2>0, <3>4, <3>5, <3>6, Unseen, StoreActions
  <2>2. CASE up' = [up EXCEPT ![u].polls = @ + 1]
    <3> DEFINE t == [r EXCEPT !.polls = r.polls + 1]
    <3>1. up' = [up EXCEPT ![u] = t] /\ t \in PutRecords /\ t.pc \in Asking /\ t.digest = c
      BY <1>1, <2>0, <2>2 DEF PutRecords
    <3> HIDE DEF t
    <3> QED BY <1>9, <2>0, <3>1, Unseen
  <2>3. CASE Fails(u)
    BY <1>3, <2>0, <2>3
  <2> QED BY <1>17, <2>1, <2>2, <2>3 DEF wait_until_readable
(* The put has answered, and what becomes of put_blob is not its matter. *)
<1>18. ASSUME NEW pc \in {"created", "exists", "failed"}, r.pc = "register", Goto(u, pc),
              dest' = dest
       PROVE  UNCHANGED Store!vars
  <2> DEFINE t == [r EXCEPT !.pc = pc]
  <2>1. /\ up' = [up EXCEPT ![u] = t] /\ t \in PutRecords
        /\ t.pc \in Settled /\ t.then = r.then /\ t.digest = c
    BY <1>1, <1>18 DEF Goto, PutRecords, Settled
  <2> HIDE DEF t
  <2>2. r.then \in {"created", "exists"} /\ r.then # None
    BY <1>1, <1>18, NoneAssumption DEF PutHas
  <2>3. Told(t) = Told(r)
    BY <1>1, <1>18, <2>1, <2>2, ToldIs
  <2> QED BY <1>18, <2>1, <2>3, Unseen, PutStutters
<1>19. CASE register_blob(u)
  <2>1. r.then \in {"created", "exists"}
    BY <1>1, <1>19 DEF register_blob, PutHas
  <2> QED BY <1>18, <1>19, <2>1 DEF register_blob
<1>20. CASE put_fails(u)
  <2>1. CASE r.pc = "register"
    BY <1>18, <1>20, <2>1 DEF put_fails
  <2>2. CASE r.pc # "register"
    <3>1. r.pc \in Asking /\ Fails(u) /\ UNCHANGED dest
      BY <1>20, <2>2 DEF put_fails, Asking, Running
    <3> QED BY <1>3, <3>1
  <2> QED BY <2>1, <2>2
<1> QED BY <1>7, <1>8, <1>10, <1>12, <1>14, <1>15, <1>16, <1>17, <1>19, <1>20 DEF PutStep

(* What Azure does is a write of the put that asked for it, an expiry, or  *)
(* is not seen.                                                            *)
LEMMA AzureStepSeen ==
    ASSUME ZInv, NEW d \in Digests, copy_completes(d) \/ copy_aborts(d) \/ expire(d)
    PROVE  Store!Next \/ UNCHANGED Store!vars
<1>1. /\ dest[d] \in Dests /\ DestHas(dest[d], d, up[dest[d].source])
      /\ up \in [Puts -> PutRecords]
  BY DEF ZInv, ZShapes, DestOK
<1>2. Digest' = Digest /\ Outcome' = Outcome
  BY Unseen DEF copy_completes, copy_aborts, expire
<1>3. CASE copy_completes(d)
  <2> DEFINE e == [dest[d] EXCEPT !.state = "whole"]
  <2>1. PICK s \in Puts :
        /\ s = dest[d].source /\ up[s] \in PutRecords /\ up[s].digest = d
        /\ up[s].pc \in {"discard", "wait"} \/ (up[s].pc = "failed" /\ up[s].then = None)
    BY <1>1, <1>3 DEF copy_completes, DestHas
  <2>2. /\ dest' = [dest EXCEPT ![d] = e] /\ e \in Dests /\ Bytes(e) = s
        /\ Bytes(dest[d]) = None
    BY <1>1, <1>3, <2>1 DEF copy_completes, Dests, Bytes
  <2> HIDE DEF e
  <2>3. Object[d] = None /\ Object' = [Object EXCEPT ![d] = s]
    BY <2>2, DestSeen
  <2>4. Told(up[s]) \in {"asked", "failed"}
    BY <2>1, ToldIs DEF Asking, Settled
  <2>5. Outcome[s] \in {"asked", "failed"} /\ Digest[s] = d
    BY <2>1, <2>4 DEF Outcome, Digest
  <2>6. Store!Writes(s)
    BY <2>3, <2>5, StoreActions
  <2>7. Store!Write(s)
    BY <1>2, <2>6, StoreActions
  <2> QED BY <2>7 DEF Store!Next
<1>4. CASE copy_aborts(d)
  <2> DEFINE e == [dest[d] EXCEPT !.state = "failed"]
  <2>1. /\ dest' = [dest EXCEPT ![d] = e] /\ e \in Dests /\ Bytes(e) = Bytes(dest[d])
    BY <1>1, <1>4 DEF copy_aborts, Dests, Bytes
  <2> HIDE DEF e
  <2>2. Object' = Object
    BY <2>1, DestSeen
  <2> QED BY <1>2, <2>2, StoreActions
<1>5. CASE expire(d)
  <2>1. dest' = [dest EXCEPT ![d] = Gone] /\ Gone \in Dests /\ Bytes(Gone) = None
    BY <1>5 DEF expire, Gone, Dests, Bytes
  <2>2. Object' = [Object EXCEPT ![d] = None]
    BY <2>1, DestSeen
  <2>3. Store!Expire(d)
    BY <1>2, <2>2, StoreActions
  <2> QED BY <2>3 DEF Store!Next
<1> QED BY <1>3, <1>4, <1>5

(* Copying, waiting and giving up add up to the put the rest of the server *)
(* is written against: AzureStore's put implements BlobStore's.            *)
THEOREM ImplementsBlobStore == ZSafeSpec => ImplementsPut
<1>1. ZInit => Store!Init
  <2> SUFFICES ASSUME ZInit PROVE Store!Init
    OBVIOUS
  <2>1. \A u \in Puts : up[u] = IdlePut
    BY DEF ZInit
  <2>2. IdlePut \in PutRecords /\ IdlePut.pc = "idle" /\ IdlePut.then = None
        /\ IdlePut.digest = None
    BY DEF IdlePut, PutRecords, Settled
  <2>3. Told(IdlePut) = "idle"
    BY <2>2, ToldIs DEF Settled
  <2>4. Digest = [u \in Puts |-> None] /\ Outcome = [u \in Puts |-> "idle"]
    BY <2>1, <2>2, <2>3 DEF Digest, Outcome
  <2>5. Object = [d \in Digests |-> None]
    BY DEF ZInit, Object, Bytes, Gone
  <2> QED BY <2>4, <2>5, StoreActions
<1>2. ZInv /\ [ZNext]_zvars => [Store!Next]_(Store!vars)
  <2> SUFFICES ASSUME ZInv, [ZNext]_zvars PROVE Store!Next \/ UNCHANGED Store!vars
    OBVIOUS
  <2>1. CASE \E u \in Puts : (\E d \in Digests : put(u, d)) \/ PutStep(u) \/ put_fails(u)
    BY <2>1, PutStepSeen
  <2>2. CASE \E d \in Digests : copy_completes(d) \/ copy_aborts(d) \/ expire(d)
    BY <2>2, AzureStepSeen
  <2>3. CASE dest' = dest /\ up' = up
    BY <2>3, Unseen, StoreActions
  <2> QED BY <2>1, <2>2, <2>3 DEF ZNext, zvars, expire_temp, get_blob, get
<1> QED BY <1>1, <1>2, PutsInductive, PTL DEF ZSafeSpec, ImplementsPut, Store!Spec
=============================================================================
