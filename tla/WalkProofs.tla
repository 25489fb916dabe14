----------------------------- MODULE WalkProofs -----------------------------
(***************************************************************************)
(* The walk of validate_tree, for every directory graph: what its three    *)
(* kinds of turn, an Exit or a repeated Enter, an Enter, and the end of an *)
(* Enter's loop body, do to WalkOK (an accepted tree is whole), to         *)
(* WalkBounded (it is acyclic and within the limits) and to StaysWithin    *)
(* and Descends (nothing else is refused).  Used for the walk by itself    *)
(* (TreeValidationProofs) and within a publication (CacheServiceProofs).   *)
(***************************************************************************)
EXTENDS WalkInvariant, SequenceTheorems, FiniteSetTheorems, TLAPS

(* Every directory whose Exit is among the first n of the stack has an     *)
(* entry that leads towards d: d itself, or a directory with its Exit      *)
(* further up.                                                             *)
LeadsTo(stack, n, d) ==
    \A j \in 1 .. n : stack[j].visit = "exit" =>
        \E e \in Items(Content[stack[j].dir].dirs) :
            e = d \/ \E k \in j + 1 .. n : stack[k] = ExitVisit(e)

(* The stack of validate_tree is a path down the directory graph, with the *)
(* entries still to visit beside it.                                       *)
Descends(w) ==
    /\ \A i \in 1 .. Len(w.pending) : LeadsTo(w.pending, i - 1, w.pending[i].dir)
    /\ w.current # None => LeadsTo(w.pending, Len(w.pending), w.current)

(* The walk never looks beyond what the root reaches. *)
ClosedFrom(root, dirs) ==
    root \in dirs /\ \A d \in dirs : Items(Content[d].dirs) \subseteq dirs

StaysWithin(w, root) ==
    \A dirs \in SUBSET Digests : ClosedFrom(root, dirs) => Known(w) \subseteq dirs

(* What an empty stack leaves is acyclic and within the limits: a          *)
(* directory is seen only after its subdirectories, a directory with an    *)
(* open Exit has its subdirectories seen or above that Exit, and all of    *)
(* them count towards the limit.                                           *)
ExitOK(w, i) ==
    LET d == w.pending[i].dir IN
    /\ d \in w.visiting /\ d # w.current
    /\ \A e \in Items(Content[d].dirs) :
          e \in w.seen \/ e = w.current \/ \E j \in i + 1 .. Len(w.pending) : w.pending[j].dir = e
    /\ \A j \in i + 1 .. Len(w.pending) : w.pending[j] # ExitVisit(d)

WalkBounded(w, root) ==
    /\ w.seen \cap w.visiting = {}
    /\ (w.seen \cup w.visiting) \cap Oversized = {}
    /\ Cardinality(w.seen) + Cardinality(w.visiting) <= MaxDirectories
    /\ \A d \in w.seen : Items(Content[d].dirs) \subseteq w.seen
    /\ Acyclic(w.seen)
    /\ \A d \in w.visiting : d = w.current \/ d \in ExitPending(w)
    /\ \A i \in 1 .. Len(w.pending) : w.pending[i].visit = "exit" => ExitOK(w, i)
    /\ \/ root \in w.seen \/ root = w.current
       \/ \E i \in 1 .. Len(w.pending) : w.pending[i].dir = root

-----------------------------------------------------------------------------
(* Sequences: the stack of validate_tree and the lists of blobs to require.*)

(* What is below the top of a stack is as it was. *)
LEMMA BelowTop ==
    ASSUME NEW S, NEW s \in Seq(S), s # <<>>
    PROVE  /\ Below(s) \in Seq(S)
           /\ Len(s) \in Nat \ {0}
           /\ Len(Below(s)) = Len(s) - 1
           /\ \A i \in 1 .. Len(s) - 1 : Below(s)[i] = s[i]
<1>1. Len(s) \in Nat \ {0}
  BY EmptySeq
<1>2. \A i \in 1 .. Len(s) - 1 : s[i] \in S
  BY <1>1, ElementOfSeq
<1>3. 1 \in Int /\ Len(s) - 1 \in Int
  BY <1>1
<1>4. /\ Below(s) \in Seq(S)
      /\ Len(Below(s)) = IF 1 <= Len(s) - 1 THEN (Len(s) - 1) - 1 + 1 ELSE 0
      /\ \A i \in 1 .. (Len(s) - 1) - 1 + 1 : Below(s)[i] = s[1 + i - 1]
  BY <1>2, <1>3, SubSeqProperties DEF Below
<1>5. \A k \in Nat \ {0} : /\ (k - 1) - 1 + 1 = k - 1
                           /\ ~ (1 <= k - 1) => k - 1 = 0
  OBVIOUS
<1>6. \A i \in 1 .. Len(s) - 1 : 1 + i - 1 = i
  BY <1>1
<1>7. Len(Below(s)) = Len(s) - 1
  BY <1>1, <1>4, <1>5
<1>8. \A i \in 1 .. Len(s) - 1 : Below(s)[i] = s[i]
  BY <1>1, <1>4, <1>5, <1>6
<1> QED BY <1>1, <1>4, <1>7, <1>8

(* Popping a non-empty stack (pending.pop()) leaves a stack, and takes     *)
(* nothing but its top.                                                    *)
LEMMA PopStack ==
    ASSUME NEW S, NEW s \in Seq(S), s # <<>>
    PROVE  /\ Below(s) \in Seq(S)
           /\ Top(s) \in S
           /\ Items(s) = Items(Below(s)) \cup {Top(s)}
<1>1. /\ Below(s) \in Seq(S)
      /\ Len(s) \in Nat \ {0} /\ Len(Below(s)) = Len(s) - 1
      /\ \A i \in 1 .. Len(s) - 1 : Below(s)[i] = s[i]
  BY BelowTop
<1>2. Items(s) = Items(Below(s)) \cup {Top(s)}
  BY <1>1 DEF Items, Top
<1>3. Top(s) \in S
  BY <1>1, ElementOfSeq DEF Top
<1> QED BY <1>1, <1>2, <1>3

(* Taking the first of the blobs still to require. *)
LEMMA TakeHead ==
    ASSUME NEW S, NEW s \in Seq(S), s # <<>>
    PROVE  /\ Tail(s) \in Seq(S)
           /\ Head(s) \in S
           /\ Items(s) = {Head(s)} \cup Items(Tail(s))
<1>1. Len(s) \in Nat \ {0} /\ Head(s) = s[1]
  BY EmptySeq
<1>2. /\ Head(s) \in S
      /\ Tail(s) \in Seq(S)
      /\ Len(Tail(s)) = Len(s) - 1
      /\ \A i \in 1 .. Len(Tail(s)) : Tail(s)[i] = s[i + 1]
  BY HeadTailProperties
<1>3. ASSUME NEW x \in Items(s)
      PROVE  x = Head(s) \/ x \in Items(Tail(s))
  <2>1. PICK i \in 1 .. Len(s) : x = s[i]
    BY DEF Items
  <2>2. CASE i = 1
    BY <1>1, <2>1, <2>2
  <2>3. CASE i # 1
    <3>1. i - 1 \in 1 .. Len(Tail(s)) /\ Tail(s)[i - 1] = s[i]
      BY <1>1, <1>2, <2>3
    <3> QED BY <2>1, <3>1 DEF Items
  <2> QED BY <2>2, <2>3
<1>4. Head(s) \in Items(s)
  BY <1>1 DEF Items
<1>5. ASSUME NEW x \in Items(Tail(s))
      PROVE  x \in Items(s)
  <2>1. PICK i \in 1 .. Len(Tail(s)) : x = Tail(s)[i]
    BY DEF Items
  <2>2. i + 1 \in 1 .. Len(s) /\ x = s[i + 1]
    BY <1>1, <1>2, <2>1
  <2> QED BY <2>2 DEF Items
<1> QED BY <1>2, <1>3, <1>4, <1>5

(* Pushing an Exit and the Enters of the children leaves a stack, with     *)
(* what it held, the Exit and the Enters.                                  *)
LEMMA PushStack ==
    ASSUME NEW s \in Seq(Visits), NEW d \in Digests, NEW dirs \in Seq(Digests)
    PROVE  LET t == Append(s, ExitVisit(d)) \o Enters(dirs)
           IN  /\ t \in Seq(Visits)
               /\ Items(t) = Items(s) \cup {ExitVisit(d)}
                                      \cup {EnterVisit(e) : e \in Items(dirs)}
<1> DEFINE a == Append(s, ExitVisit(d))
           e == Enters(dirs)
<1>1. ExitVisit(d) \in Visits
  BY DEF ExitVisit, Visits
<1>2. Len(dirs) \in Nat /\ \A i \in 1 .. Len(dirs) : dirs[i] \in Digests
  BY LenProperties, ElementOfSeq
<1>3. e \in [1 .. Len(dirs) -> Visits]
  BY <1>2 DEF Enters, EnterVisit, Visits
<1>4. e \in Seq(Visits) /\ Len(e) = Len(dirs)
  BY <1>2, <1>3
<1>5. /\ a \in Seq(Visits)
      /\ Len(s) \in Nat
      /\ Len(a) = Len(s) + 1
      /\ \A i \in 1 .. Len(s) : a[i] = s[i]
      /\ a[Len(s) + 1] = ExitVisit(d)
  BY <1>1, AppendProperties, LenProperties
<1>6. Items(a) = Items(s) \cup {ExitVisit(d)}
  BY <1>5 DEF Items
<1>7. Items(e) = {EnterVisit(x) : x \in Items(dirs)}
  BY <1>4 DEF Items, Enters
<1> HIDE DEF a, e
<1>8. /\ a \o e \in Seq(Visits)
      /\ Len(a \o e) = Len(a) + Len(e)
      /\ \A i \in 1 .. Len(a) + Len(e) :
            (a \o e)[i] = IF i <= Len(a) THEN a[i] ELSE e[i - Len(a)]
  <2>1. a \in Seq(Visits) /\ e \in Seq(Visits)
    BY <1>4, <1>5
  <2> QED BY <2>1, ConcatProperties
<1>9. Items(a \o e) = Items(a) \cup Items(e)
  <2>1. Len(a) \in Nat /\ Len(e) \in Nat
    BY <1>4, <1>5, LenProperties
  <2>2. ASSUME NEW x \in Items(a \o e) PROVE x \in Items(a) \cup Items(e)
    <3>1. PICK i \in 1 .. Len(a) + Len(e) : x = (a \o e)[i]
      BY <1>8 DEF Items
    <3>2. CASE i <= Len(a)
      BY <1>8, <2>1, <3>1, <3>2 DEF Items
    <3>3. CASE ~ (i <= Len(a))
      <4>1. i - Len(a) \in 1 .. Len(e) /\ x = e[i - Len(a)]
        BY <1>8, <2>1, <3>1, <3>3
      <4> QED BY <4>1 DEF Items
    <3> QED BY <3>2, <3>3
  <2>3. ASSUME NEW x \in Items(a) PROVE x \in Items(a \o e)
    <3>1. PICK i \in 1 .. Len(a) : x = a[i]
      BY DEF Items
    <3>2. i \in 1 .. Len(a) + Len(e) /\ (a \o e)[i] = x
      BY <1>8, <2>1, <3>1
    <3> QED BY <1>8, <3>2 DEF Items
  <2>4. ASSUME NEW x \in Items(e) PROVE x \in Items(a \o e)
    <3>1. PICK i \in 1 .. Len(e) : x = e[i]
      BY DEF Items
    <3>2. i + Len(a) \in 1 .. Len(a) + Len(e) /\ (a \o e)[i + Len(a)] = x
      BY <1>8, <2>1, <3>1
    <3> QED BY <1>8, <3>2 DEF Items
  <2> QED BY <2>2, <2>3, <2>4
<1> QED BY <1>6, <1>7, <1>8, <1>9 DEF a, e

-----------------------------------------------------------------------------
(* Types. *)

(* What every bytes a handler reads parse to. *)
LEMMA ContentType ==
    ASSUME NEW d \in Digests
    PROVE  /\ Content[d].kind \in Kinds \cup {None}
           /\ Content[d].blobs \in Seq(Digests)
           /\ Content[d].dirs \in Seq(Digests)
BY ContentAssumption DEF Parsed

(* The walk's own operations keep it a walk. *)
LEMMA WalkTypes ==
    ASSUME NEW w \in Walks
    PROVE  /\ NoWalk \in Walks
           /\ \A d \in Digests : StartWalk(d) \in Walks
           /\ w.pending # <<>> => SkipTop(w) \in Walks
           /\ w.pending # <<>> => EnterTop(w) \in Walks /\ EnterTop(w).current \in Digests
           /\ w.current # None =>
                \A dirs \in Seq(Digests) : LeaveCurrent(w, dirs) \in Walks
<1>1. NoWalk \in Walks
  BY DEF NoWalk, Walks
<1>2. ASSUME NEW d \in Digests PROVE StartWalk(d) \in Walks
  <2>1. EnterVisit(d) \in Visits
    BY DEF EnterVisit, Visits
  <2>2. <<EnterVisit(d)>> \in Seq(Visits)
    BY <2>1
  <2> QED BY <1>1, <2>2 DEF StartWalk, NoWalk, Walks
<1>3. ASSUME w.pending # <<>> PROVE SkipTop(w) \in Walks /\ EnterTop(w) \in Walks
                                    /\ EnterTop(w).current \in Digests
  <2>1. w.pending \in Seq(Visits)
    BY DEF Walks
  <2>2. Below(w.pending) \in Seq(Visits) /\ Top(w.pending) \in Visits
    BY <1>3, <2>1, PopStack
  <2>3. Top(w.pending).dir \in Digests
    BY <2>2 DEF Visits
  <2> QED BY <2>2, <2>3 DEF SkipTop, EnterTop, Pop, Walks
<1>4. ASSUME w.current # None, NEW dirs \in Seq(Digests)
      PROVE  LeaveCurrent(w, dirs) \in Walks
  <2>1. w.current \in Digests /\ w.pending \in Seq(Visits)
    BY <1>4 DEF Walks
  <2>2. Append(w.pending, ExitVisit(w.current)) \o Enters(dirs) \in Seq(Visits)
    BY <2>1, PushStack
  <2> QED BY <2>2 DEF LeaveCurrent, Walks
<1> QED BY <1>1, <1>2, <1>3, <1>4

-----------------------------------------------------------------------------
(* What an empty stack has established: WalkOK. *)

(* An Enter is not an Exit, and each names one directory. *)
LEMMA VisitsDiffer ==
    ASSUME NEW d, NEW e
    PROVE  /\ EnterVisit(d) # ExitVisit(e)
           /\ EnterVisit(d) = EnterVisit(e) => d = e
           /\ ExitVisit(d) = ExitVisit(e) => d = e
BY DEF EnterVisit, ExitVisit

(* A visit is an Enter or an Exit of its directory. *)
LEMMA VisitIs ==
    ASSUME NEW v \in Visits
    PROVE  /\ v.dir \in Digests
           /\ v.visit = "exit" => v = ExitVisit(v.dir)
           /\ v.visit # "exit" => v = EnterVisit(v.dir)
BY DEF Visits, EnterVisit, ExitVisit

(* What popping the stack does to the pending Enters and Exits. *)
LEMMA PopPending ==
    ASSUME NEW w \in Walks, w.pending # <<>>
    PROVE  LET top == Top(w.pending)
           IN  /\ top.dir \in Digests
               /\ top.visit = "exit" =>
                    /\ EnterPending(Pop(w)) = EnterPending(w)
                    /\ ExitPending(Pop(w)) \subseteq ExitPending(w)
                    /\ ExitPending(w) \subseteq ExitPending(Pop(w)) \cup {top.dir}
                    /\ top.dir \in ExitPending(w)
               /\ top.visit # "exit" =>
                    /\ ExitPending(Pop(w)) = ExitPending(w)
                    /\ EnterPending(Pop(w)) \subseteq EnterPending(w)
                    /\ EnterPending(w) \subseteq EnterPending(Pop(w)) \cup {top.dir}
<1> DEFINE top == Top(w.pending)
<1>1. w.pending \in Seq(Visits)
  BY DEF Walks
<1>2. top \in Visits /\ Items(w.pending) = Items(Below(w.pending)) \cup {top}
  BY <1>1, PopStack
<1>3. Pop(w).pending = Below(w.pending)
  BY DEF Pop, Walks
<1>4. /\ top.dir \in Digests
      /\ top.visit = "exit" => top = ExitVisit(top.dir)
      /\ top.visit # "exit" => top = EnterVisit(top.dir)
  BY <1>2, VisitIs
<1> HIDE DEF top
<1>5. CASE top.visit = "exit"
  BY <1>2, <1>3, <1>4, <1>5, VisitsDiffer DEF EnterPending, ExitPending, top
<1>6. CASE top.visit # "exit"
  BY <1>2, <1>3, <1>4, <1>6, VisitsDiffer DEF EnterPending, ExitPending, top
<1> QED BY <1>4, <1>5, <1>6 DEF top

(* validate_tree starts with the root to come and nothing behind it. *)
LEMMA WalkStarts ==
    ASSUME NEW root \in Digests, NEW held
    PROVE  WalkOK(StartWalk(root), root, held) /\ StartWalk(root).current = None
<1> DEFINE w == StartWalk(root)
<1>1. /\ w.seen = {} /\ w.visiting = {} /\ w.current = None
      /\ w.pending = <<EnterVisit(root)>>
  BY DEF StartWalk, NoWalk
<1>2. Items(w.pending) = {EnterVisit(root)}
  BY <1>1 DEF Items
<1> HIDE DEF w
<1>3. Passed(w) = {} /\ ExitPending(w) = {} /\ root \in Known(w)
  BY <1>1, <1>2, VisitsDiffer DEF Passed, ExitPending, Known, EnterPending
<1> QED BY <1>1, <1>3 DEF WalkOK, w

(* An Exit, or an Enter of a directory already seen. *)
LEMMA WalkSkips ==
    ASSUME NEW w \in Walks, NEW root, NEW held, WalkOK(w, root, held),
           w.pending # <<>>, w.current = None, SkipsTop(w)
    PROVE  WalkOK(SkipTop(w), root, held) /\ SkipTop(w).current = None
<1> DEFINE top == Top(w.pending)
           v == SkipTop(w)
<1>1. w.visiting \subseteq Digests /\ w.seen \subseteq Digests /\ None \notin w.visiting
  BY NoneAssumption DEF Walks
<1>2. top.dir \in Digests
  BY PopPending
<1>3. CASE top.visit = "exit"
  <2>1. /\ v.seen = w.seen \cup {top.dir}
        /\ v.visiting = w.visiting \ {top.dir}
        /\ v.current = None
        /\ v.pending = Pop(w).pending
    BY <1>3 DEF SkipTop, Pop, Walks
  <2>2. /\ EnterPending(v) = EnterPending(w)
        /\ ExitPending(v) \subseteq ExitPending(w)
        /\ ExitPending(w) \subseteq ExitPending(v) \cup {top.dir}
        /\ top.dir \in ExitPending(w)
    BY <1>3, <2>1, PopPending DEF EnterPending, ExitPending
  <2> HIDE DEF v, top
  <2>3. top.dir \in Passed(w)
    BY <2>2 DEF WalkOK
  <2>4. Passed(v) = Passed(w) /\ Known(v) = Known(w)
    BY <1>1, <2>1, <2>2, <2>3 DEF Passed, Known
  <2>5. \A d \in v.visiting : d \in ExitPending(v)
    BY <1>1, <2>1, <2>2 DEF WalkOK
  <2> QED BY <2>1, <2>2, <2>4, <2>5 DEF WalkOK, v
<1>4. CASE top.visit # "exit"
  <2>1. /\ v.seen = w.seen /\ v.visiting = w.visiting /\ v.current = None
        /\ v.pending = Pop(w).pending
    BY <1>4 DEF SkipTop, Pop, Walks
  <2>2. /\ ExitPending(v) = ExitPending(w)
        /\ EnterPending(v) \subseteq EnterPending(w)
        /\ EnterPending(w) \subseteq EnterPending(v) \cup {top.dir}
    BY <1>4, <2>1, PopPending DEF EnterPending, ExitPending
  <2>3. top.dir \in w.seen
    BY <1>4 DEF SkipsTop
  <2> HIDE DEF v, top
  <2>4. Passed(v) = Passed(w) /\ Known(v) = Known(w)
    BY <2>1, <2>2, <2>3 DEF Passed, Known
  <2> QED BY <2>1, <2>2, <2>4 DEF WalkOK, v
<1> QED BY <1>3, <1>4

(* An Enter of a directory that is new: it becomes the current one. *)
LEMMA WalkEnters ==
    ASSUME NEW w \in Walks, NEW root, NEW held, WalkOK(w, root, held),
           w.pending # <<>>, w.current = None, ~SkipsTop(w), ~RefusesTop(w)
    PROVE  /\ WalkOK(EnterTop(w), root, held)
           /\ EnterTop(w).current = Top(w.pending).dir
           /\ EnterTop(w).current \in EnterTop(w).visiting
<1> DEFINE top == Top(w.pending)
           v == EnterTop(w)
<1>1. w.visiting \subseteq Digests /\ w.seen \subseteq Digests /\ None \notin w.visiting
  BY NoneAssumption DEF Walks
<1>2. top.dir \in Digests
  BY PopPending
<1>3. top.visit # "exit" /\ top.dir \notin w.seen /\ top.dir \notin w.visiting
  BY DEF SkipsTop, RefusesTop
<1>4. /\ v.seen = w.seen /\ v.visiting = w.visiting \cup {top.dir}
      /\ v.current = top.dir /\ v.pending = Pop(w).pending
  BY DEF EnterTop, Pop, Walks
<1>5. /\ ExitPending(v) = ExitPending(w)
      /\ EnterPending(v) \subseteq EnterPending(w)
      /\ EnterPending(w) \subseteq EnterPending(v) \cup {top.dir}
  BY <1>3, <1>4, PopPending DEF EnterPending, ExitPending
<1> HIDE DEF v, top
<1>6. Passed(v) = Passed(w) /\ Known(w) \subseteq Known(v)
  BY <1>1, <1>3, <1>4, <1>5 DEF Passed, Known
<1>7. \A d \in v.visiting : d = v.current \/ d \in ExitPending(v)
  BY <1>1, <1>4, <1>5 DEF WalkOK
<1>8. WalkOK(v, root, held)
  BY <1>5, <1>6, <1>7 DEF WalkOK
<1> QED BY <1>4, <1>8 DEF v, top

(* The end of the loop body: the current directory has been passed. *)
LEMMA WalkLeaves ==
    ASSUME NEW w \in Walks, NEW root, NEW held, WalkOK(w, root, held),
           w.current \in Digests, w.current \in w.visiting, w.current \in held,
           IsDirectory(w.current), Items(Content[w.current].blobs) \subseteq held
    PROVE  LET v == LeaveCurrent(w, Content[w.current].dirs)
           IN  WalkOK(v, root, held) /\ v.current = None
<1> DEFINE d == w.current
           dirs == Content[w.current].dirs
           v == LeaveCurrent(w, dirs)
<1>1. w.visiting \subseteq Digests /\ w.seen \subseteq Digests /\ None \notin w.visiting
  BY NoneAssumption DEF Walks
<1>2. dirs \in Seq(Digests) /\ w.pending \in Seq(Visits)
  BY ContentType DEF Walks
<1>3. /\ v.seen = w.seen /\ v.visiting = w.visiting /\ v.current = None
      /\ v.pending = Append(w.pending, ExitVisit(d)) \o Enters(dirs)
  BY DEF LeaveCurrent, Walks
<1>4. Items(v.pending) = Items(w.pending) \cup {ExitVisit(d)}
                              \cup {EnterVisit(e) : e \in Items(dirs)}
  BY <1>2, <1>3, PushStack
<1>5. Items(dirs) \subseteq Digests
  BY <1>2, ElementOfSeq DEF Items
<1> HIDE DEF v, d, dirs
<1>6. ExitPending(v) = ExitPending(w) \cup {d}
  BY <1>4, VisitsDiffer DEF ExitPending, d
<1>7. EnterPending(v) = EnterPending(w) \cup Items(dirs)
  BY <1>4, <1>5, VisitsDiffer DEF EnterPending
<1>8. Passed(v) = Passed(w) \cup {d} /\ Known(v) = Known(w) \cup Items(dirs)
  BY <1>1, <1>3, <1>7 DEF Passed, Known, d
<1>9. \A e \in v.visiting : e = v.current \/ e \in ExitPending(v)
  BY <1>3, <1>6 DEF WalkOK, d
<1>10. \A e \in Passed(v) : /\ e \in held
                            /\ IsDirectory(e)
                            /\ Items(Content[e].blobs) \subseteq held
                            /\ Items(Content[e].dirs) \subseteq Known(v)
  BY <1>8 DEF WalkOK, d, dirs
<1>11. WalkOK(v, root, held)
  BY <1>6, <1>8, <1>9, <1>10 DEF WalkOK
<1> QED BY <1>3, <1>11 DEF v, d, dirs

(* When the stack is empty, the directories seen are a whole tree. *)
LEMMA WalkEnds ==
    ASSUME NEW w \in Walks, NEW root, NEW held, WalkOK(w, root, held),
           w.pending = <<>>, w.current = None
    PROVE  root \in w.seen /\ ClosedTree(w.seen, held) /\ TreeComplete(root, held)
<1>1. Items(w.pending) = {}
  BY DEF Items
<1>2. EnterPending(w) = {} /\ ExitPending(w) = {}
  BY <1>1 DEF EnterPending, ExitPending
<1>3. w.visiting = {}
  <2>1. None \notin w.visiting
    BY NoneAssumption DEF Walks
  <2> QED BY <1>2, <2>1 DEF WalkOK
<1>4. Known(w) = w.seen /\ Passed(w) = w.seen
  BY <1>2, <1>3 DEF Known, Passed
<1>5. w.seen \in SUBSET Digests
  BY DEF Walks
<1>6. root \in w.seen /\ ClosedTree(w.seen, held)
  BY <1>4 DEF WalkOK, ClosedTree
<1> QED BY <1>5, <1>6 DEF TreeComplete

-----------------------------------------------------------------------------
(* What is refused: StaysWithin and Descends. *)

(* validate_tree starts at the root. *)
LEMMA LooksStart ==
    ASSUME NEW root \in Digests
    PROVE  LET w == StartWalk(root)
           IN  StaysWithin(w, root) /\ w.seen \cap w.visiting = {} /\ Descends(w)
<1> DEFINE w == StartWalk(root)
<1>1. /\ w.seen = {} /\ w.visiting = {} /\ w.current = None
      /\ w.pending = <<EnterVisit(root)>>
  BY DEF StartWalk, NoWalk
<1>2. Items(w.pending) = {EnterVisit(root)} /\ Len(w.pending) = 1
  BY <1>1 DEF Items
<1> HIDE DEF w
<1>3. Known(w) = {root}
  BY <1>1, <1>2, VisitsDiffer DEF Known, EnterPending
<1>4. StaysWithin(w, root)
  BY <1>3 DEF StaysWithin, ClosedFrom
<1>5. Descends(w)
  BY <1>1, <1>2 DEF Descends, LeadsTo
<1> QED BY <1>1, <1>4, <1>5 DEF w

(* Popping a visit keeps the path. *)
LEMMA PopDescends ==
    ASSUME NEW w \in Walks, w.pending # <<>>, Descends(w)
    PROVE  LET s == Below(w.pending)
           IN  /\ \A i \in 1 .. Len(s) : LeadsTo(s, i - 1, s[i].dir)
               /\ LeadsTo(s, Len(s), Top(w.pending).dir)
<1> DEFINE s == Below(w.pending)
           n == Len(w.pending)
<1>0. w.pending \in Seq(Visits)
  BY DEF Walks
<1>1. n \in Nat \ {0} /\ Len(s) = n - 1 /\ \A i \in 1 .. n - 1 : s[i] = w.pending[i]
  BY <1>0, BelowTop
<1> HIDE DEF s
<1>2. ASSUME NEW m \in 0 .. n - 1, NEW d, LeadsTo(w.pending, m, d) PROVE LeadsTo(s, m, d)
  <2> SUFFICES ASSUME NEW j \in 1 .. m, s[j].visit = "exit"
               PROVE  \E e \in Items(Content[s[j].dir].dirs) :
                        e = d \/ \E k \in j + 1 .. m : s[k] = ExitVisit(e)
    BY DEF LeadsTo
  <2>1. s[j] = w.pending[j] /\ \A k \in j + 1 .. m : s[k] = w.pending[k]
    BY <1>1
  <2> QED BY <1>2, <2>1 DEF LeadsTo
<1>3. \A i \in 1 .. n : i - 1 \in 0 .. n - 1 /\ LeadsTo(w.pending, i - 1, w.pending[i].dir)
  BY <1>1 DEF Descends
<1>4. ASSUME NEW i \in 1 .. Len(s) PROVE LeadsTo(s, i - 1, s[i].dir)
  BY <1>1, <1>2, <1>3
<1>5. LeadsTo(s, Len(s), Top(w.pending).dir)
  BY <1>1, <1>2, <1>3 DEF Top
<1> QED BY <1>4, <1>5 DEF s

(* An Exit, or an Enter of a directory already seen. *)
LEMMA LooksSkip ==
    ASSUME NEW w \in Walks, NEW root, NEW held, WalkOK(w, root, held), w.pending # <<>>,
           w.current = None, StaysWithin(w, root), w.seen \cap w.visiting = {}, Descends(w)
    PROVE  LET v == SkipTop(w)
           IN  StaysWithin(v, root) /\ v.seen \cap v.visiting = {} /\ Descends(v)
<1> DEFINE top == Top(w.pending)
           v == SkipTop(w)
<1>1. /\ v.pending = Below(w.pending) /\ v.current = None
      /\ \/ /\ top.visit = "exit" /\ v.seen = w.seen \cup {top.dir}
            /\ v.visiting = w.visiting \ {top.dir}
         \/ top.visit # "exit" /\ v.seen = w.seen /\ v.visiting = w.visiting
      /\ Pop(w).pending = v.pending
  BY DEF SkipTop, Pop, Walks
<1>2. EnterPending(v) \subseteq EnterPending(w) /\ (top.visit = "exit" => top.dir \in ExitPending(w))
  BY <1>1, PopPending DEF EnterPending
<1> HIDE DEF top, v
<1>3. top.visit = "exit" => top.dir \in Known(w)
  BY <1>2 DEF WalkOK, Passed, Known
<1>4. Known(v) \subseteq Known(w)
  BY <1>1, <1>2, <1>3 DEF Known
<1>5. Descends(v)
  BY <1>1, PopDescends DEF Descends
<1> QED BY <1>1, <1>4, <1>5 DEF StaysWithin, v

(* An Enter on top of the stack is pending. *)
LEMMA TopPending ==
    ASSUME NEW w \in Walks, w.pending # <<>>, Top(w.pending).visit # "exit"
    PROVE  Top(w.pending).dir \in EnterPending(w)
<1>1. w.pending \in Seq(Visits)
  BY DEF Walks
<1>2. Top(w.pending) \in Visits /\ Top(w.pending) \in Items(w.pending)
  BY <1>1, PopStack
<1>3. /\ Top(w.pending).dir \in Digests
      /\ Top(w.pending) = EnterVisit(Top(w.pending).dir)
  BY <1>2, VisitIs
<1> QED BY <1>2, <1>3 DEF EnterPending

(* An Enter of a directory that is new. *)
LEMMA LooksEnter ==
    ASSUME NEW w \in Walks, NEW root, w.pending # <<>>, ~SkipsTop(w),
           StaysWithin(w, root), w.seen \cap w.visiting = {}, Descends(w)
    PROVE  LET v == EnterTop(w)
           IN  StaysWithin(v, root) /\ v.seen \cap v.visiting = {} /\ Descends(v)
<1> DEFINE top == Top(w.pending)
           v == EnterTop(w)
<1>1. /\ v.pending = Below(w.pending) /\ v.current = top.dir
      /\ v.seen = w.seen /\ v.visiting = w.visiting \cup {top.dir}
      /\ Pop(w).pending = v.pending
      /\ top.visit # "exit" /\ top.dir \notin w.seen
  BY DEF EnterTop, Pop, Walks, SkipsTop
<1>2. EnterPending(v) \subseteq EnterPending(w)
  BY <1>1, PopPending DEF EnterPending
<1>3. top.dir \in EnterPending(w)
  BY <1>1, TopPending
<1> HIDE DEF top, v
<1>4. Known(v) \subseteq Known(w)
  BY <1>1, <1>2, <1>3 DEF Known
<1>5. Descends(v)
  BY <1>1, PopDescends DEF Descends, top
<1> QED BY <1>1, <1>4, <1>5 DEF StaysWithin, v

(* Where the pushes at the end of the loop body put what they push. *)
LEMMA PushPlaces ==
    ASSUME NEW s \in Seq(Visits), NEW d \in Digests, NEW dirs \in Seq(Digests)
    PROVE  LET t == Append(s, ExitVisit(d)) \o Enters(dirs)
               n == Len(s)
           IN  /\ Len(t) = n + 1 + Len(dirs)
               /\ \A i \in 1 .. n : t[i] = s[i]
               /\ t[n + 1] = ExitVisit(d)
               /\ \A i \in 1 .. Len(dirs) : t[n + 1 + i] = EnterVisit(dirs[i])
<1> DEFINE n == Len(s)
           a == Append(s, ExitVisit(d))
           e == Enters(dirs)
<1>1. ExitVisit(d) \in Visits /\ n \in Nat /\ Len(dirs) \in Nat
  BY LenProperties DEF ExitVisit, Visits
<1>2. /\ a \in Seq(Visits) /\ Len(a) = n + 1
      /\ \A i \in 1 .. n : a[i] = s[i]
      /\ a[n + 1] = ExitVisit(d)
  BY <1>1, AppendProperties
<1>3. e \in [1 .. Len(dirs) -> Visits]
  BY <1>1, ElementOfSeq DEF Enters, EnterVisit, Visits
<1>4. e \in Seq(Visits) /\ Len(e) = Len(dirs) /\ \A i \in 1 .. Len(dirs) : e[i] = EnterVisit(dirs[i])
  BY <1>1, <1>3 DEF Enters
<1> HIDE DEF a, e, n
<1>5. /\ Len(a \o e) = Len(a) + Len(e)
      /\ \A i \in 1 .. Len(a) + Len(e) :
            (a \o e)[i] = IF i <= Len(a) THEN a[i] ELSE e[i - Len(a)]
  <2>1. a \in Seq(Visits) /\ e \in Seq(Visits)
    BY <1>2, <1>4
  <2> QED BY <2>1, ConcatProperties
<1>6. \A i \in 1 .. n + 1 : (a \o e)[i] = a[i]
  BY <1>1, <1>2, <1>4, <1>5
<1>7. ASSUME NEW i \in 1 .. Len(dirs) PROVE (a \o e)[n + 1 + i] = EnterVisit(dirs[i])
  <2>1. PICK k \in 1 .. Len(a) + Len(e) :
            k = n + 1 + i /\ ~ (k <= Len(a)) /\ k - Len(a) = i
    BY <1>1, <1>2, <1>4
  <2>2. (a \o e)[k] = e[k - Len(a)]
    BY <1>5, <2>1
  <2>3. (a \o e)[k] = EnterVisit(dirs[i])
    BY <1>4, <2>1, <2>2
  <2> QED BY <2>1, <2>3
<1>8. n + 1 \in 1 .. n + 1 /\ \A i \in 1 .. n : i \in 1 .. n + 1
  BY <1>1
<1> QED BY <1>2, <1>4, <1>5, <1>6, <1>7, <1>8 DEF a, e, n

(* The end of the loop body: the Exit goes where the Enter was, and the    *)
(* subdirectories above it.                                                *)
LEMMA LooksLeave ==
    ASSUME NEW w \in Walks, NEW root, w.current \in Digests, w.current \in w.visiting,
           StaysWithin(w, root), w.seen \cap w.visiting = {}, Descends(w)
    PROVE  LET v == LeaveCurrent(w, Content[w.current].dirs)
           IN  StaysWithin(v, root) /\ v.seen \cap v.visiting = {} /\ Descends(v)
<1> DEFINE c == w.current
           dirs == Content[w.current].dirs
           v == LeaveCurrent(w, dirs)
           s == w.pending
           n == Len(w.pending)
           t == v.pending
<1>1. dirs \in Seq(Digests) /\ s \in Seq(Visits) /\ n \in Nat /\ Len(dirs) \in Nat
  BY ContentType, LenProperties DEF Walks
<1>2. /\ v.seen = w.seen /\ v.visiting = w.visiting /\ v.current = None
      /\ t = Append(s, ExitVisit(c)) \o Enters(dirs)
  BY DEF LeaveCurrent, Walks
<1>3. Items(t) = Items(s) \cup {ExitVisit(c)} \cup {EnterVisit(e) : e \in Items(dirs)}
  BY <1>1, <1>2, PushStack
<1>4. /\ Len(t) = n + 1 + Len(dirs)
      /\ \A i \in 1 .. n : t[i] = s[i]
      /\ t[n + 1] = ExitVisit(c)
      /\ \A i \in 1 .. Len(dirs) : t[n + 1 + i] = EnterVisit(dirs[i])
  <2>1. c \in Digests
    OBVIOUS
  <2> HIDE DEF v, t, s, c, dirs
  <2> QED BY <1>1, <1>2, <2>1, PushPlaces DEF n, s
<1> HIDE DEF v, t, s, n, c, dirs
<1>5. StaysWithin(v, root)
  <2> SUFFICES ASSUME NEW D \in SUBSET Digests, ClosedFrom(root, D) PROVE Known(v) \subseteq D
    BY DEF StaysWithin
  <2>1. Known(w) \subseteq D /\ c \in Known(w)
    BY DEF StaysWithin, Known, c
  <2>2. Items(dirs) \subseteq D
    BY <2>1 DEF ClosedFrom, dirs, c
  <2>3. EnterPending(v) \subseteq EnterPending(w) \cup Items(dirs)
    BY <1>3, VisitsDiffer DEF EnterPending, t, s
  <2> QED BY <1>2, <2>1, <2>2, <2>3 DEF Known
<1>6. LeadsTo(s, n, c) /\ \A i \in 1 .. n : LeadsTo(s, i - 1, s[i].dir)
  BY NoneAssumption DEF Descends, s, n, c
<1>7. ASSUME NEW m \in 0 .. n, NEW d, LeadsTo(s, m, d) PROVE LeadsTo(t, m, d)
  <2> SUFFICES ASSUME NEW j \in 1 .. m, t[j].visit = "exit"
               PROVE  \E e \in Items(Content[t[j].dir].dirs) :
                        e = d \/ \E k \in j + 1 .. m : t[k] = ExitVisit(e)
    BY DEF LeadsTo
  <2>1. t[j] = s[j] /\ \A k \in j + 1 .. m : t[k] = s[k]
    BY <1>1, <1>4
  <2> QED BY <1>7, <2>1 DEF LeadsTo
<1>8. ASSUME NEW i \in 1 .. Len(dirs) PROVE LeadsTo(t, n + i, dirs[i])
  <2> SUFFICES ASSUME NEW j \in 1 .. n + i, t[j].visit = "exit"
               PROVE  \E e \in Items(Content[t[j].dir].dirs) :
                        e = dirs[i] \/ \E k \in j + 1 .. n + i : t[k] = ExitVisit(e)
    BY DEF LeadsTo
  <2>1. CASE j \in 1 .. n
    <3>1. LeadsTo(t, n, c)
      BY <1>1, <1>6, <1>7
    <3>2. PICK e \in Items(Content[t[j].dir].dirs) :
                e = c \/ \E k \in j + 1 .. n : t[k] = ExitVisit(e)
      BY <2>1, <3>1 DEF LeadsTo
    <3>3. n + 1 \in j + 1 .. n + i /\ \A k \in j + 1 .. n : k \in j + 1 .. n + i
      BY <1>1, <2>1
    <3> QED BY <1>4, <3>2, <3>3
  <2>2. CASE j = n + 1
    <3>1. t[j].dir = c /\ dirs[i] \in Items(dirs)
      BY <1>4, <2>2 DEF ExitVisit, Items
    <3> QED BY <3>1 DEF dirs, c
  <2>3. CASE j \notin 1 .. n /\ j # n + 1
    <3>1. j - (n + 1) \in 1 .. Len(dirs) /\ j = n + 1 + (j - (n + 1))
      BY <1>1, <2>3
    <3>2. t[j] = EnterVisit(dirs[j - (n + 1)])
      BY <1>4, <3>1
    <3> QED BY <3>2 DEF EnterVisit
  <2> QED BY <2>1, <2>2, <2>3
<1>9. ASSUME NEW i \in 1 .. Len(t) PROVE LeadsTo(t, i - 1, t[i].dir)
  <2>1. CASE i \in 1 .. n
    <3>1. i - 1 \in 0 .. n /\ t[i] = s[i]
      BY <1>1, <1>4, <2>1
    <3> QED BY <1>6, <1>7, <2>1, <3>1
  <2>2. CASE i = n + 1
    <3>1. i - 1 = n /\ n \in 0 .. n /\ t[i].dir = c
      BY <1>1, <1>4, <2>2 DEF ExitVisit
    <3> QED BY <1>6, <1>7, <3>1
  <2>3. CASE i \notin 1 .. n /\ i # n + 1
    <3>1. PICK k \in 1 .. Len(dirs) : i = n + 1 + k
      <4>1. i - (n + 1) \in 1 .. Len(dirs) /\ i = n + 1 + (i - (n + 1))
        BY <1>1, <1>4, <2>3
      <4> QED BY <4>1
    <3>2. i - 1 = n + k
      BY <1>1, <3>1
    <3>3. t[n + 1 + k] = EnterVisit(dirs[k])
      BY <1>4
    <3>4. t[i].dir = dirs[k]
      BY <3>1, <3>3 DEF EnterVisit
    <3> QED BY <1>8, <3>2, <3>4
  <2> QED BY <2>1, <2>2, <2>3
<1>10. Descends(v)
  BY <1>2, <1>9 DEF Descends, t
<1> QED BY <1>2, <1>5, <1>10 DEF v, dirs

(* validate_tree refuses no directory of an acyclic graph that is within   *)
(* the limits: a directory met again while it is being visited lies on a   *)
(* cycle, and the directories counted are directories of the graph.        *)
LEMMA NoneRefused ==
    ASSUME NEW w \in Walks, NEW root, NEW held, WalkOK(w, root, held),
           w.pending # <<>>, w.current = None, ~SkipsTop(w),
           StaysWithin(w, root), w.seen \cap w.visiting = {}, Descends(w),
           NEW dirs \in SUBSET Digests, ClosedFrom(root, dirs), dirs \cap Oversized = {},
           Cardinality(dirs) <= MaxDirectories, Acyclic(dirs)
    PROVE  ~RefusesTop(w) /\ Top(w.pending).dir \in dirs
<1> DEFINE s == w.pending
           n == Len(w.pending)
           d == Top(w.pending).dir
<1>1. s \in Seq(Visits) /\ n \in Nat \ {0}
  BY EmptySeq DEF Walks
<1>2. Top(s).visit # "exit" /\ d \notin w.seen /\ d \in EnterPending(w)
  BY TopPending DEF SkipsTop
<1>3. Known(w) \subseteq dirs
  BY DEF StaysWithin
<1>4. d \in dirs /\ w.seen \subseteq dirs /\ w.visiting \cup {d} \subseteq dirs
  BY <1>2, <1>3 DEF Known
<1>5. d \notin Oversized
  BY <1>4
<1>6. Cardinality(w.seen) + Cardinality(w.visiting \cup {d}) <= MaxDirectories
  <2> DEFINE A == w.seen
             B == w.visiting \cup {d}
  <2>1. IsFiniteSet(dirs)
    BY DigestsAssumption, FS_Subset
  <2>2. A \subseteq dirs /\ B \subseteq dirs /\ A \cap B = {}
    BY <1>2, <1>4
  <2> HIDE DEF A, B
  <2>3. IsFiniteSet(A) /\ IsFiniteSet(B) /\ IsFiniteSet(A \cup B)
    BY <2>1, <2>2, FS_Subset, FS_Union
  <2>4. Cardinality(A \cup B) = Cardinality(A) + Cardinality(B) - Cardinality(A \cap B)
    BY <2>3, FS_Union
  <2>5. Cardinality(A \cap B) = 0
    BY <2>2, FS_EmptySet
  <2>6. Cardinality(A \cup B) <= Cardinality(dirs)
    BY <2>1, <2>2, FS_Subset
  <2>7. /\ Cardinality(A) \in Nat /\ Cardinality(B) \in Nat
        /\ Cardinality(A \cup B) \in Nat /\ Cardinality(dirs) \in Nat
    BY <2>1, <2>3, FS_CardinalityType
  <2>8. Cardinality(A) + Cardinality(B) <= MaxDirectories
    BY <2>4, <2>5, <2>6, <2>7, MaxDirectoriesAssumption
  <2> QED BY <2>8 DEF A, B
<1>7. d \notin w.visiting
  <2> SUFFICES ASSUME d \in w.visiting PROVE FALSE
    OBVIOUS
  <2>1. None \notin w.visiting
    BY NoneAssumption DEF Walks
  <2>2. d \in ExitPending(w)
    BY <2>1 DEF WalkOK
  <2>3. PICK first \in 1 .. n : s[first] = ExitVisit(d)
    BY <2>2 DEF ExitPending, Items
  <2> DEFINE part == {e \in dirs : \E k \in first .. n - 1 : s[k] = ExitVisit(e)}
  <2>4. s[n].visit # "exit" /\ s[n].dir = d
    BY <1>2 DEF Top
  <2>5. first # n /\ first \in first .. n - 1
    BY <1>1, <2>3, <2>4 DEF ExitVisit
  <2>6. d \in part
    BY <1>4, <2>3, <2>5
  <2>7. PICK m \in part : Items(Content[m].dirs) \cap part = {}
    BY <2>6 DEF Acyclic
  <2>8. PICK j \in first .. n - 1 : s[j] = ExitVisit(m)
    OBVIOUS
  <2>9. j \in 1 .. n - 1 /\ s[j].visit = "exit" /\ s[j].dir = m
    BY <1>1, <2>8 DEF ExitVisit
  <2>10. LeadsTo(s, n - 1, d)
    <3>1. n \in 1 .. n
      BY <1>1
    <3>2. LeadsTo(s, n - 1, s[n].dir)
      BY <3>1 DEF Descends
    <3> QED BY <2>4, <3>2
  <2>11. PICK e \in Items(Content[m].dirs) :
              e = d \/ \E k \in j + 1 .. n - 1 : s[k] = ExitVisit(e)
    BY <2>9, <2>10 DEF LeadsTo
  <2>12. e \in dirs
    BY <2>7, <2>11 DEF ClosedFrom
  <2>13. \A k \in j + 1 .. n - 1 : k \in first .. n - 1
    BY <1>1, <2>8
  <2>14. e \in part
    BY <2>6, <2>11, <2>12, <2>13
  <2> QED BY <2>7, <2>11, <2>14
<1>8. ~ (Cardinality(w.seen) + Cardinality(w.visiting \cup {d}) > MaxDirectories)
  <2>1. w.seen \in SUBSET Digests /\ w.visiting \cup {d} \in SUBSET Digests
    BY <1>4
  <2>2. IsFiniteSet(w.seen) /\ IsFiniteSet(w.visiting \cup {d})
    BY <2>1, DigestsAssumption, FS_Subset
  <2>3. Cardinality(w.seen) \in Nat /\ Cardinality(w.visiting \cup {d}) \in Nat
    BY <2>2, FS_CardinalityType
  <2> QED BY <1>6, <2>3, MaxDirectoriesAssumption
<1> QED BY <1>4, <1>5, <1>7, <1>8 DEF RefusesTop

-----------------------------------------------------------------------------
(* What is accepted: WalkBounded. *)

(* Finite sets of directories have a number of members. *)
LEMMA CountedDirs ==
    ASSUME NEW S \in SUBSET Digests
    PROVE  IsFiniteSet(S) /\ Cardinality(S) \in Nat
BY DigestsAssumption, FS_Subset, FS_CardinalityType

(* A directory that is added after all of its subdirectories closes no     *)
(* cycle.                                                                  *)
LEMMA AddAcyclic ==
    ASSUME NEW S \in SUBSET Digests, NEW d \in Digests, d \notin S, Acyclic(S),
           \A e \in S : Items(Content[e].dirs) \subseteq S,
           Items(Content[d].dirs) \subseteq S
    PROVE  Acyclic(S \cup {d})
<1> SUFFICES ASSUME NEW part \in SUBSET (S \cup {d}), part # {}
             PROVE  \E e \in part : Items(Content[e].dirs) \cap part = {}
  BY DEF Acyclic
<1>1. CASE part \ {d} = {}
  <2>1. part = {d}
    BY <1>1
  <2> QED BY <2>1
<1>2. CASE part \ {d} # {}
  <2>1. part \ {d} \in SUBSET S
    OBVIOUS
  <2>2. PICK e \in part \ {d} : Items(Content[e].dirs) \cap (part \ {d}) = {}
    BY <1>2, <2>1 DEF Acyclic
  <2>3. Items(Content[e].dirs) \subseteq S
    BY <2>1, <2>2
  <2> QED BY <2>2, <2>3
<1> QED BY <1>1, <1>2

(* What popping a visit leaves of the places on the stack. *)
LEMMA PopPlaces ==
    ASSUME NEW w \in Walks, w.pending # <<>>
    PROVE  LET n == Len(w.pending)
               t == Below(w.pending)
           IN  /\ n \in Nat \ {0} /\ Len(t) = n - 1
               /\ \A i \in 1 .. n - 1 : i \in 1 .. n /\ t[i] = w.pending[i]
               /\ \A i \in 1 .. n - 1 : \A j \in i + 1 .. n : j \in i + 1 .. n - 1 \/ j = n
               /\ \A i \in 1 .. n - 1 : \A j \in i + 1 .. n - 1 : j \in i + 1 .. n /\ t[j] = w.pending[j]
               /\ n \in 1 .. n /\ w.pending[n] = Top(w.pending) /\ w.pending[n] \in Visits
               /\ n + 1 .. n = {}
               /\ \A i \in 1 .. n : i \in 1 .. n - 1 \/ i = n
<1>1. w.pending \in Seq(Visits)
  BY DEF Walks
<1>2. /\ Len(w.pending) \in Nat \ {0} /\ Len(Below(w.pending)) = Len(w.pending) - 1
      /\ \A i \in 1 .. Len(w.pending) - 1 : Below(w.pending)[i] = w.pending[i]
  BY <1>1, BelowTop
<1>3. Top(w.pending) \in Visits /\ Top(w.pending) = w.pending[Len(w.pending)]
  BY <1>1, PopStack DEF Top
<1> QED BY <1>2, <1>3

(* validate_tree starts with nothing counted. *)
LEMMA BoundedStart ==
    ASSUME NEW root \in Digests
    PROVE  WalkBounded(StartWalk(root), root)
<1> DEFINE w == StartWalk(root)
<1>1. /\ w.seen = {} /\ w.visiting = {} /\ w.current = None
      /\ w.pending = <<EnterVisit(root)>>
  BY DEF StartWalk, NoWalk
<1>2. /\ Len(w.pending) = 1 /\ w.pending[1].dir = root /\ w.pending[1].visit = "enter"
  BY <1>1 DEF EnterVisit
<1> HIDE DEF w
<1>3. Cardinality(w.seen) + Cardinality(w.visiting) <= MaxDirectories
  BY <1>1, FS_EmptySet, MaxDirectoriesAssumption
<1>4. Acyclic(w.seen)
  BY <1>1 DEF Acyclic
<1> QED BY <1>1, <1>2, <1>3, <1>4 DEF WalkBounded, w

(* An Exit: its directory is seen, and all of its subdirectories were. *)
LEMMA BoundedExit ==
    ASSUME NEW w \in Walks, NEW root \in Digests, WalkBounded(w, root), w.pending # <<>>,
           w.current = None, Top(w.pending).visit = "exit"
    PROVE  WalkBounded(SkipTop(w), root) /\ Top(w.pending).dir \in w.visiting
<1> DEFINE s == w.pending
           n == Len(w.pending)
           d == Top(w.pending).dir
           v == SkipTop(w)
           t == Below(w.pending)
<1>1. /\ v.seen = w.seen \cup {d} /\ v.visiting = w.visiting \ {d}
      /\ v.current = None /\ v.pending = t
  BY DEF SkipTop, Pop, Walks
<1>2. /\ n \in Nat \ {0} /\ Len(t) = n - 1
      /\ \A i \in 1 .. n - 1 : i \in 1 .. n /\ t[i] = s[i]
      /\ \A i \in 1 .. n - 1 : \A j \in i + 1 .. n : j \in i + 1 .. n - 1 \/ j = n
      /\ \A i \in 1 .. n - 1 : \A j \in i + 1 .. n - 1 : j \in i + 1 .. n /\ t[j] = s[j]
      /\ n \in 1 .. n /\ s[n] = Top(s) /\ s[n] \in Visits
      /\ n + 1 .. n = {}
      /\ \A i \in 1 .. n : i \in 1 .. n - 1 \/ i = n
  BY PopPlaces
<1>3. s[n] = ExitVisit(d) /\ s[n].visit = "exit" /\ s[n].dir = d /\ d \in Digests
  BY <1>2, VisitIs
<1>4. w.seen \in SUBSET Digests /\ w.visiting \in SUBSET Digests
  BY DEF Walks
<1> HIDE DEF v, t, s, n, d
<1>5. ExitOK(w, n)
  BY <1>2, <1>3 DEF WalkBounded, s, n
<1>6. d \in w.visiting /\ d \notin w.seen
  BY <1>3, <1>5 DEF ExitOK, WalkBounded, s
<1>7. Items(Content[d].dirs) \subseteq w.seen
  <2> SUFFICES ASSUME NEW e \in Items(Content[d].dirs) PROVE e \in w.seen
    OBVIOUS
  <2>1. e \in Digests
    BY <1>3, ContentType, ElementOfSeq DEF Items
  <2>2. e \in w.seen \/ e = w.current \/ \E j \in n + 1 .. n : s[j].dir = e
    BY <1>3, <1>5 DEF ExitOK, s, n
  <2> QED BY <1>2, <2>1, <2>2, NoneAssumption
<1>8. Acyclic(v.seen)
  BY <1>1, <1>3, <1>4, <1>6, <1>7, AddAcyclic DEF WalkBounded
<1>9. Cardinality(v.seen) + Cardinality(v.visiting) <= MaxDirectories
  <2>1. /\ IsFiniteSet(w.seen) /\ Cardinality(w.seen) \in Nat
        /\ IsFiniteSet(w.visiting) /\ Cardinality(w.visiting) \in Nat
    BY <1>4, CountedDirs
  <2>2. Cardinality(v.seen) = Cardinality(w.seen) + 1
    BY <1>1, <1>6, <2>1, FS_AddElement
  <2>3. Cardinality(v.visiting) = Cardinality(w.visiting) - 1
    BY <1>1, <1>6, <2>1, FS_RemoveElement
  <2> QED BY <2>1, <2>2, <2>3 DEF WalkBounded
<1>10. ASSUME NEW i \in 1 .. n - 1, s[i].visit = "exit" PROVE ExitOK(v, i)
  <2>1. /\ s[i].dir \in w.visiting
        /\ \A e \in Items(Content[s[i].dir].dirs) :
              e \in w.seen \/ e = w.current \/ \E j \in i + 1 .. n : s[j].dir = e
        /\ \A j \in i + 1 .. n : s[j] # ExitVisit(s[i].dir)
    BY <1>2, <1>10 DEF WalkBounded, ExitOK, s, n
  <2>2. t[i] = s[i] /\ n \in i + 1 .. n
    BY <1>2
  <2>3. s[i].dir # d
    BY <1>3, <2>1, <2>2
  <2>4. s[i].dir \in v.visiting /\ s[i].dir # v.current
    BY <1>1, <1>4, <2>1, <2>3, NoneAssumption
  <2>5. ASSUME NEW e \in Items(Content[s[i].dir].dirs)
        PROVE  e \in v.seen \/ e = v.current \/ \E j \in i + 1 .. n - 1 : t[j].dir = e
    <3>1. CASE e \in w.seen \/ e = w.current
      BY <1>1, <3>1
    <3>2. CASE \E j \in i + 1 .. n : s[j].dir = e
      <4>1. PICK j \in i + 1 .. n : s[j].dir = e
        BY <3>2
      <4>2. (j \in i + 1 .. n - 1 /\ t[j] = s[j]) \/ j = n
        BY <1>2
      <4> QED BY <1>1, <1>3, <4>1, <4>2
    <3> QED BY <2>1, <3>1, <3>2
  <2>6. \A j \in i + 1 .. n - 1 : t[j] # ExitVisit(s[i].dir)
    BY <1>2, <2>1
  <2> QED BY <1>1, <1>2, <2>2, <2>4, <2>5, <2>6 DEF ExitOK
<1>11. \A i \in 1 .. Len(v.pending) : v.pending[i].visit = "exit" => ExitOK(v, i)
  BY <1>1, <1>2, <1>10
<1>12. ASSUME NEW e \in v.visiting PROVE e \in ExitPending(v)
  <2>1. e \in ExitPending(w) /\ e # d
    BY <1>1, <1>4, <1>12, NoneAssumption DEF WalkBounded
  <2>2. PICK i \in 1 .. n : s[i] = ExitVisit(e)
    BY <2>1 DEF ExitPending, Items, s, n
  <2>3. i # n
    BY <1>3, <2>1, <2>2, VisitsDiffer
  <2>4. i \in 1 .. n - 1 /\ t[i] = ExitVisit(e)
    BY <1>2, <2>2, <2>3
  <2> QED BY <1>1, <1>2, <2>1, <2>4 DEF ExitPending, Items
<1>13. \/ root \in v.seen \/ root = v.current
       \/ \E i \in 1 .. Len(v.pending) : v.pending[i].dir = root
  <2>1. CASE root \in w.seen \/ root = w.current
    BY <1>1, <2>1
  <2>2. CASE \E i \in 1 .. n : s[i].dir = root
    <3>1. PICK i \in 1 .. n : s[i].dir = root
      BY <2>2
    <3>2. (i \in 1 .. n - 1 /\ t[i] = s[i]) \/ i = n
      BY <1>2
    <3> QED BY <1>1, <1>2, <1>3, <3>1, <3>2
  <2> QED BY <2>1, <2>2 DEF WalkBounded, s, n
<1>14. /\ v.seen \cap v.visiting = {}
       /\ (v.seen \cup v.visiting) \cap Oversized = {}
       /\ \A e \in v.seen : Items(Content[e].dirs) \subseteq v.seen
  BY <1>1, <1>6, <1>7 DEF WalkBounded
<1> QED BY <1>6, <1>8, <1>9, <1>11, <1>12, <1>13, <1>14 DEF WalkBounded, v, d

(* An Enter that is popped: what was above an Exit still is, or is the     *)
(* directory that was popped.                                              *)
LEMMA BoundedPop ==
    ASSUME NEW w \in Walks, NEW root \in Digests, WalkBounded(w, root), w.pending # <<>>,
           w.current = None, Top(w.pending).visit # "exit",
           NEW v \in Walks, v.pending = Below(w.pending), v.seen = w.seen,
           v.current \in {None, Top(w.pending).dir},
           v.visiting \in {w.visiting, w.visiting \cup {v.current}},
           Top(w.pending).dir \in w.seen \/ Top(w.pending).dir = v.current,
           v.current \notin w.visiting
    PROVE  /\ \A i \in 1 .. Len(v.pending) : v.pending[i].visit = "exit" => ExitOK(v, i)
           /\ \A e \in w.visiting : e \in ExitPending(v)
           /\ \/ root \in v.seen \/ root = v.current
              \/ \E i \in 1 .. Len(v.pending) : v.pending[i].dir = root
<1> DEFINE s == w.pending
           n == Len(w.pending)
           d == Top(w.pending).dir
           t == Below(w.pending)
<1>1. /\ n \in Nat \ {0} /\ Len(t) = n - 1
      /\ \A i \in 1 .. n - 1 : i \in 1 .. n /\ t[i] = s[i]
      /\ \A i \in 1 .. n - 1 : \A j \in i + 1 .. n : j \in i + 1 .. n - 1 \/ j = n
      /\ \A i \in 1 .. n - 1 : \A j \in i + 1 .. n - 1 : j \in i + 1 .. n /\ t[j] = s[j]
      /\ n \in 1 .. n /\ s[n] = Top(s) /\ s[n] \in Visits
      /\ \A i \in 1 .. n : i \in 1 .. n - 1 \/ i = n
  BY PopPlaces
<1>2. s[n].visit # "exit" /\ s[n].dir = d /\ d \in Digests
  BY <1>1, VisitIs
<1>3. w.visiting \in SUBSET Digests
  BY DEF Walks
<1> HIDE DEF t, s, n, d
<1>4. ASSUME NEW i \in 1 .. n - 1, s[i].visit = "exit" PROVE ExitOK(v, i)
  <2>1. /\ s[i].dir \in w.visiting
        /\ \A e \in Items(Content[s[i].dir].dirs) :
              e \in w.seen \/ e = w.current \/ \E j \in i + 1 .. n : s[j].dir = e
        /\ \A j \in i + 1 .. n : s[j] # ExitVisit(s[i].dir)
    BY <1>1, <1>4 DEF WalkBounded, ExitOK, s, n
  <2>2. t[i] = s[i]
    BY <1>1
  <2>3. s[i].dir \in v.visiting /\ s[i].dir # v.current
    BY <2>1
  <2>4. ASSUME NEW e \in Items(Content[s[i].dir].dirs)
        PROVE  e \in v.seen \/ e = v.current \/ \E j \in i + 1 .. n - 1 : t[j].dir = e
    <3>1. CASE e \in w.seen
      BY <3>1
    <3>2. CASE e = w.current
      <4>1. s[i].dir \in Digests
        BY <1>3, <2>1
      <4>2. e \in Digests
        BY <4>1, ContentType, ElementOfSeq DEF Items
      <4> QED BY <3>2, <4>2, NoneAssumption
    <3>3. CASE \E j \in i + 1 .. n : s[j].dir = e
      <4>1. PICK j \in i + 1 .. n : s[j].dir = e
        BY <3>3
      <4>2. (j \in i + 1 .. n - 1 /\ t[j] = s[j]) \/ j = n
        BY <1>1
      <4> QED BY <1>2, <4>1, <4>2 DEF d
    <3> QED BY <2>1, <3>1, <3>2, <3>3
  <2>5. \A j \in i + 1 .. n - 1 : t[j] # ExitVisit(s[i].dir)
    BY <1>1, <2>1
  <2> QED BY <1>1, <2>2, <2>3, <2>4, <2>5 DEF ExitOK, t
<1>5. ASSUME NEW e \in w.visiting PROVE e \in ExitPending(v)
  <2>1. e \in ExitPending(w)
    BY <1>3, <1>5, NoneAssumption DEF WalkBounded
  <2>2. PICK i \in 1 .. n : s[i] = ExitVisit(e)
    BY <2>1 DEF ExitPending, Items, s, n
  <2>3. i # n
    BY <1>2, <2>2 DEF ExitVisit
  <2>4. i \in 1 .. n - 1 /\ t[i] = ExitVisit(e)
    BY <1>1, <2>2, <2>3
  <2> QED BY <1>1, <2>1, <2>4 DEF ExitPending, Items, t
<1>6. \/ root \in v.seen \/ root = v.current
      \/ \E i \in 1 .. n - 1 : t[i].dir = root
  <2>1. CASE root \in w.seen
    BY <2>1
  <2>2. CASE \E i \in 1 .. n : s[i].dir = root
    <3>1. PICK i \in 1 .. n : s[i].dir = root
      BY <2>2
    <3>2. (i \in 1 .. n - 1 /\ t[i] = s[i]) \/ i = n
      BY <1>1
    <3> QED BY <1>2, <3>1, <3>2 DEF d
  <2>3. CASE root = w.current
    BY <2>3, NoneAssumption
  <2> QED BY <2>1, <2>2, <2>3 DEF WalkBounded, s, n
<1> QED BY <1>1, <1>4, <1>5, <1>6 DEF t

(* A turn that pops: an Exit, or an Enter of a directory already seen. *)
LEMMA BoundedSkip ==
    ASSUME NEW w \in Walks, NEW root \in Digests, WalkBounded(w, root), w.pending # <<>>,
           w.current = None, SkipsTop(w)
    PROVE  WalkBounded(SkipTop(w), root)
<1>1. CASE Top(w.pending).visit = "exit"
  BY <1>1, BoundedExit
<1>2. CASE Top(w.pending).visit # "exit"
  <2> DEFINE v == SkipTop(w)
  <2>1. /\ v.seen = w.seen /\ v.visiting = w.visiting /\ v.current = None
        /\ v.pending = Below(w.pending)
    BY <1>2 DEF SkipTop, Pop, Walks
  <2>2. v \in Walks /\ Top(w.pending).dir \in w.seen /\ None \notin w.visiting
    BY <1>2, WalkTypes, NoneAssumption DEF SkipsTop, Walks
  <2> HIDE DEF v
  <2>3. /\ \A i \in 1 .. Len(v.pending) : v.pending[i].visit = "exit" => ExitOK(v, i)
        /\ \A e \in w.visiting : e \in ExitPending(v)
        /\ \/ root \in v.seen \/ root = v.current
           \/ \E i \in 1 .. Len(v.pending) : v.pending[i].dir = root
    BY <1>2, <2>1, <2>2, BoundedPop
  <2>4. WalkBounded(v, root)
    BY <2>1, <2>3 DEF WalkBounded
  <2> QED BY <2>4 DEF v
<1> QED BY <1>1, <1>2

(* An Enter of a directory that is new and not refused. *)
LEMMA BoundedEnter ==
    ASSUME NEW w \in Walks, NEW root \in Digests, WalkBounded(w, root), w.pending # <<>>,
           w.current = None, ~SkipsTop(w), ~RefusesTop(w)
    PROVE  WalkBounded(EnterTop(w), root)
<1> DEFINE d == Top(w.pending).dir
           v == EnterTop(w)
<1>1. /\ v.seen = w.seen /\ v.visiting = w.visiting \cup {d} /\ v.current = d
      /\ v.pending = Below(w.pending)
  BY DEF EnterTop, Pop, Walks
<1>2. v \in Walks /\ d \in Digests
  BY WalkTypes, PopPending
<1>3. /\ Top(w.pending).visit # "exit" /\ d \notin w.seen /\ d \notin w.visiting
      /\ d \notin Oversized
      /\ ~ (Cardinality(w.seen) + Cardinality(w.visiting \cup {d}) > MaxDirectories)
  BY DEF SkipsTop, RefusesTop
<1> HIDE DEF v
<1>4. /\ \A i \in 1 .. Len(v.pending) : v.pending[i].visit = "exit" => ExitOK(v, i)
      /\ \A e \in w.visiting : e \in ExitPending(v)
      /\ \/ root \in v.seen \/ root = v.current
         \/ \E i \in 1 .. Len(v.pending) : v.pending[i].dir = root
  BY <1>1, <1>2, <1>3, BoundedPop
<1>5. Cardinality(v.seen) + Cardinality(v.visiting) <= MaxDirectories
  <2>1. v.seen \in SUBSET Digests /\ v.visiting \in SUBSET Digests
    BY <1>2 DEF Walks
  <2>2. Cardinality(v.seen) \in Nat /\ Cardinality(v.visiting) \in Nat
    BY <2>1, CountedDirs
  <2>3. ~ (Cardinality(v.seen) + Cardinality(v.visiting) > MaxDirectories)
    BY <1>1, <1>3
  <2> HIDE DEF d
  <2> QED BY <2>2, <2>3, MaxDirectoriesAssumption
<1>6. WalkBounded(v, root)
  BY <1>1, <1>3, <1>4, <1>5 DEF WalkBounded
<1> QED BY <1>6 DEF v

(* The end of the loop body: the subdirectories are above the Exit. *)
LEMMA BoundedLeave ==
    ASSUME NEW w \in Walks, NEW root \in Digests, WalkBounded(w, root),
           w.current \in Digests, w.current \in w.visiting
    PROVE  WalkBounded(LeaveCurrent(w, Content[w.current].dirs), root)
<1> DEFINE c == w.current
           dirs == Content[w.current].dirs
           v == LeaveCurrent(w, dirs)
           s == w.pending
           n == Len(w.pending)
           t == v.pending
           m == Len(t)
<1>1. dirs \in Seq(Digests) /\ s \in Seq(Visits) /\ n \in Nat /\ Len(dirs) \in Nat
  BY ContentType, LenProperties DEF Walks
<1>2. /\ v.seen = w.seen /\ v.visiting = w.visiting /\ v.current = None
      /\ t = Append(s, ExitVisit(c)) \o Enters(dirs)
  BY DEF LeaveCurrent, Walks
<1>3. /\ m = n + 1 + Len(dirs)
      /\ \A i \in 1 .. n : t[i] = s[i]
      /\ t[n + 1] = ExitVisit(c)
      /\ \A i \in 1 .. Len(dirs) : t[n + 1 + i] = EnterVisit(dirs[i])
  <2>1. c \in Digests
    OBVIOUS
  <2> HIDE DEF v, t, s, c, dirs
  <2> QED BY <1>1, <1>2, <2>1, PushPlaces DEF n, s, m
<1>4. w.visiting \in SUBSET Digests
  BY DEF Walks
<1> HIDE DEF v, t, s, n, c, dirs, m
<1>5. /\ n + 1 \in 1 .. m
      /\ \A i \in 1 .. n : i \in 1 .. m /\ n + 1 \in i + 1 .. m
      /\ \A i \in 1 .. n : \A j \in i + 1 .. n : j \in i + 1 .. m /\ j \in 1 .. n
      /\ \A i \in 1 .. Len(dirs) : n + 1 + i \in n + 1 + 1 .. m
  BY <1>1, <1>3
<1>6. ASSUME NEW j \in n + 1 + 1 .. m PROVE t[j].visit = "enter" /\ \A e : t[j] # ExitVisit(e)
  <2>1. j - (n + 1) \in 1 .. Len(dirs) /\ j = n + 1 + (j - (n + 1))
    BY <1>1, <1>3
  <2>2. t[j] = EnterVisit(dirs[j - (n + 1)])
    BY <1>3, <2>1
  <2>3. t[j].visit = "enter"
    BY <2>2 DEF EnterVisit
  <2>4. ASSUME NEW e PROVE t[j] # ExitVisit(e)
    BY <2>3 DEF ExitVisit
  <2> QED BY <2>3, <2>4
<1>7. ASSUME NEW i \in 1 .. n, s[i].visit = "exit" PROVE ExitOK(v, i)
  <2>1. /\ s[i].dir \in w.visiting /\ s[i].dir # c
        /\ \A e \in Items(Content[s[i].dir].dirs) :
              e \in w.seen \/ e = c \/ \E j \in i + 1 .. n : s[j].dir = e
        /\ \A j \in i + 1 .. n : s[j] # ExitVisit(s[i].dir)
    BY <1>7 DEF WalkBounded, ExitOK, s, n, c
  <2>2. t[i] = s[i] /\ s[i].dir \in v.visiting /\ s[i].dir # v.current
    BY <1>2, <1>3, <1>4, <2>1, NoneAssumption
  <2>3. ASSUME NEW e \in Items(Content[s[i].dir].dirs)
        PROVE  e \in v.seen \/ e = v.current \/ \E j \in i + 1 .. m : t[j].dir = e
    <3>1. CASE e \in w.seen
      BY <1>2, <3>1
    <3>2. CASE e = c
      <4>1. n + 1 \in i + 1 .. m /\ t[n + 1].dir = c
        BY <1>3, <1>5 DEF ExitVisit
      <4> QED BY <3>2, <4>1
    <3>3. CASE \E j \in i + 1 .. n : s[j].dir = e
      BY <1>3, <1>5, <3>3
    <3> QED BY <2>1, <3>1, <3>2, <3>3
  <2>4. ASSUME NEW j \in i + 1 .. m PROVE t[j] # ExitVisit(s[i].dir)
    <3>1. CASE j \in i + 1 .. n
      BY <1>3, <1>5, <2>1, <3>1
    <3>2. CASE j = n + 1
      BY <1>3, <2>1, <3>2, VisitsDiffer
    <3>3. CASE j \in n + 1 + 1 .. m
      BY <1>6, <3>3
    <3>4. j \in i + 1 .. n \/ j = n + 1 \/ j \in n + 1 + 1 .. m
      BY <1>1, <1>3
    <3> QED BY <3>1, <3>2, <3>3, <3>4
  <2> QED BY <2>2, <2>3, <2>4 DEF ExitOK, t, m
<1>8. ExitOK(v, n + 1)
  <2>1. t[n + 1].dir = c /\ c \in v.visiting /\ c # v.current
    <3>1. t[n + 1].dir = c
      BY <1>3 DEF ExitVisit
    <3>2. c \in Digests /\ c \in v.visiting
      BY <1>2 DEF c
    <3> QED BY <1>2, <3>1, <3>2, NoneAssumption
  <2>2. ASSUME NEW e \in Items(dirs) PROVE \E j \in n + 1 + 1 .. m : t[j].dir = e
    <3>1. PICK i \in 1 .. Len(dirs) : e = dirs[i]
      BY DEF Items
    <3>2. n + 1 + i \in n + 1 + 1 .. m /\ t[n + 1 + i] = EnterVisit(dirs[i])
      BY <1>3, <1>5
    <3>3. t[n + 1 + i].dir = e
      BY <3>1, <3>2 DEF EnterVisit
    <3> QED BY <3>2, <3>3
  <2>3. \A j \in n + 1 + 1 .. m : t[j] # ExitVisit(c)
    BY <1>6
  <2> QED BY <2>1, <2>2, <2>3 DEF ExitOK, t, m, dirs, c
<1>9. ASSUME NEW i \in 1 .. m, t[i].visit = "exit" PROVE ExitOK(v, i)
  <2>1. i \in 1 .. n \/ i = n + 1 \/ i \in n + 1 + 1 .. m
    BY <1>1, <1>3
  <2> QED BY <1>3, <1>6, <1>7, <1>8, <1>9, <2>1
<1>10. ASSUME NEW e \in v.visiting PROVE e \in ExitPending(v)
  <2>1. e \in Digests /\ (e = c \/ e \in ExitPending(w))
    BY <1>2, <1>4, <1>10 DEF WalkBounded, c
  <2>2. CASE e = c
    BY <1>3, <1>5, <2>1, <2>2 DEF ExitPending, Items, t, m
  <2>3. CASE e \in ExitPending(w)
    <3>1. PICK i \in 1 .. n : s[i] = ExitVisit(e)
      BY <2>3 DEF ExitPending, Items, s, n
    <3> QED BY <1>3, <1>5, <2>1, <3>1 DEF ExitPending, Items, t, m
  <2> QED BY <2>1, <2>2, <2>3
<1>11. root \in v.seen \/ root = v.current \/ \E i \in 1 .. m : t[i].dir = root
  <2>1. CASE root = c
    BY <1>3, <1>5, <2>1 DEF ExitVisit
  <2>2. CASE \E i \in 1 .. n : s[i].dir = root
    BY <1>3, <1>5, <2>2
  <2> QED BY <1>2, <2>1, <2>2 DEF WalkBounded, s, n, c
<1>12. WalkBounded(v, root)
  BY <1>2, <1>9, <1>10, <1>11 DEF WalkBounded, t, m
<1> QED BY <1>12 DEF v, dirs

(* When the stack is empty, the directories seen are acyclic and within    *)
(* the limits, and the root is one of them.                                *)
LEMMA BoundedEnd ==
    ASSUME NEW w \in Walks, NEW root \in Digests, WalkBounded(w, root),
           w.pending = <<>>, w.current = None
    PROVE  /\ w.seen \in SUBSET Digests /\ root \in w.seen
           /\ \A d \in w.seen : Items(Content[d].dirs) \subseteq w.seen
           /\ w.seen \cap Oversized = {}
           /\ Cardinality(w.seen) <= MaxDirectories
           /\ Acyclic(w.seen)
<1>1. Items(w.pending) = {} /\ 1 .. Len(w.pending) = {}
  BY DEF Items
<1>2. w.visiting = {}
  BY <1>1, NoneAssumption DEF WalkBounded, ExitPending, Walks
<1>3. Cardinality(w.visiting) = 0 /\ Cardinality(w.seen) \in Nat
  BY <1>2, FS_EmptySet, CountedDirs DEF Walks
<1>4. Cardinality(w.seen) <= MaxDirectories
  BY <1>3, MaxDirectoriesAssumption DEF WalkBounded
<1> QED BY <1>1, <1>4, NoneAssumption DEF WalkBounded, Walks

(* Every turn of the loop brings the end nearer: it pops a visit and knows *)
(* the directories it knew, or enters a directory it had not entered.      *)
LEMMA TurnAdvances ==
    ASSUME NEW w \in Walks, NEW root \in Digests, WalkBounded(w, root), w.pending # <<>>,
           w.current = None
    PROVE  /\ SkipsTop(w) => /\ Len(SkipTop(w).pending) = Len(w.pending) - 1
                             /\ SkipTop(w).seen \cup SkipTop(w).visiting = w.seen \cup w.visiting
           /\ ~SkipsTop(w) /\ ~RefusesTop(w) =>
                Top(w.pending).dir \in Digests \ (w.seen \cup w.visiting)
<1>1. /\ SkipTop(w).pending = Below(w.pending)
      /\ \/ /\ Top(w.pending).visit = "exit"
            /\ SkipTop(w).seen = w.seen \cup {Top(w.pending).dir}
            /\ SkipTop(w).visiting = w.visiting \ {Top(w.pending).dir}
         \/ SkipTop(w).seen = w.seen /\ SkipTop(w).visiting = w.visiting
  BY DEF SkipTop, Pop, Walks
<1>2. Top(w.pending).visit = "exit" => Top(w.pending).dir \in w.visiting
  BY BoundedExit
<1>3. Len(Below(w.pending)) = Len(w.pending) - 1 /\ Top(w.pending).dir \in Digests
  BY PopPlaces, PopPending
<1> QED BY <1>1, <1>2, <1>3 DEF SkipsTop, RefusesTop
=============================================================================
