------------------------ MODULE TreeValidationProofs ------------------------
(***************************************************************************)
(* validate_tree gives the right verdict on every directory graph: any     *)
(* finite set of digests, any parse of them, any set of objects missing or *)
(* oversized, any limit, any root.  The argument is the one of WalkProofs, *)
(* taken through an INSTANCE whose Content is the variable content.        *)
(***************************************************************************)
EXTENDS TreeValidation, FiniteSetTheorems, TLAPS

Facts == INSTANCE WalkProofs WITH
    Namespaces <- {}, Submissions <- {}, Content <- content, Oversized <- oversized,
    MaxDirectories <- limit

(* Any input, not only the small graphs of Init. *)
InputOK ==
    /\ content \in [Digests -> Data!Parsed]
    /\ available \subseteq Digests
    /\ oversized \subseteq Digests
    /\ limit \in Nat
    /\ root \in Digests

AnyTree ==
    /\ InputOK
    /\ walk = Data!StartWalk(root)
    /\ verdict = "walking"

(* The assumptions of the modules behind Facts hold of any such input. *)
LEMMA FactsApply ==
    ASSUME InputOK
    PROVE  /\ None \notin Digests /\ None \notin Facts!Kinds
           /\ content \in [Digests -> Facts!Parsed]
           /\ oversized \subseteq Digests
           /\ limit \in Nat
           /\ {} \subseteq Facts!Results
           /\ Facts!IsFiniteSet(Digests)
<1>1. IsFiniteSet(Digests)
  BY FiniteAssumption, FS_Union DEF Digests
<1>2. Facts!IsFiniteSet(Digests)
  BY <1>1 DEF Facts!IsFiniteSet, IsFiniteSet
<1> QED
  BY <1>2, NoneAssumption
  DEF InputOK, Data!Kinds, Facts!Kinds, Data!Parsed, Facts!Parsed, Data!Defects, Facts!Defects

(* Data and Facts are two instances of one module: what the model says     *)
(* with the first is what WalkProofs proves of the second.                 *)
LEMMA SameWalks ==
    ASSUME NEW w
    PROVE  /\ Data!Walks = Facts!Walks
           /\ Data!StartWalk(root) = Facts!StartWalk(root)
           /\ Data!Top(w.pending) = Facts!Top(w.pending)
           /\ Data!SkipsTop(w) <=> Facts!SkipsTop(w)
           /\ Data!SkipTop(w) = Facts!SkipTop(w)
           /\ Data!EnterTop(w) = Facts!EnterTop(w)
           /\ \A dirs : Data!LeaveCurrent(w, dirs) = Facts!LeaveCurrent(w, dirs)
<1> USE DEF Data!Walks, Facts!Walks, Data!Visits, Facts!Visits, Data!EnterVisit,
        Facts!EnterVisit, Data!ExitVisit, Facts!ExitVisit, Data!Top, Facts!Top,
        Data!Below, Facts!Below, Data!Pop, Facts!Pop
<1>1. Data!Walks = Facts!Walks /\ Data!Top(w.pending) = Facts!Top(w.pending)
  OBVIOUS
<1>2. Data!StartWalk(root) = Facts!StartWalk(root)
  BY DEF Data!StartWalk, Facts!StartWalk, Data!NoWalk, Facts!NoWalk
<1>3. Data!SkipsTop(w) <=> Facts!SkipsTop(w)
  BY DEF Data!SkipsTop, Facts!SkipsTop
<1>4. Data!SkipTop(w) = Facts!SkipTop(w)
  BY DEF Data!SkipTop, Facts!SkipTop
<1>5. Data!EnterTop(w) = Facts!EnterTop(w)
  BY DEF Data!EnterTop, Facts!EnterTop
<1>6. ASSUME NEW dirs PROVE Data!LeaveCurrent(w, dirs) = Facts!LeaveCurrent(w, dirs)
  BY DEF Data!LeaveCurrent, Facts!LeaveCurrent, Data!Enters, Facts!Enters
<1> QED BY <1>1, <1>2, <1>3, <1>4, <1>5, <1>6

LEMMA SameTests ==
    ASSUME NEW w
    PROVE  /\ Data!RefusesTop(w) <=> Facts!RefusesTop(w)
           /\ \A d : Data!IsDirectory(d) <=> Facts!IsDirectory(d)
           /\ \A s : Data!Items(s) = Facts!Items(s)
           /\ \A S : Data!Acyclic(S) <=> Facts!Acyclic(S)
           /\ \A S, T : Data!ClosedTree(S, T) <=> Facts!ClosedTree(S, T)
           /\ \A S : Cardinality(S) = Facts!Cardinality(S)
<1> USE DEF Data!Items, Facts!Items, Data!IsDirectory, Facts!IsDirectory
<1>1. ASSUME NEW S PROVE Data!Cardinality(S) = Facts!Cardinality(S)
  BY DEF Data!Cardinality, Facts!Cardinality
<1>2. ASSUME NEW S PROVE Cardinality(S) = Facts!Cardinality(S)
  BY DEF Cardinality, Facts!Cardinality
<1>3. Data!RefusesTop(w) <=> Facts!RefusesTop(w)
  BY <1>1 DEF Data!RefusesTop, Facts!RefusesTop, Data!Top, Facts!Top
<1>4. ASSUME NEW S PROVE Data!Acyclic(S) <=> Facts!Acyclic(S)
  BY DEF Data!Acyclic, Facts!Acyclic
<1>5. ASSUME NEW S, NEW T PROVE Data!ClosedTree(S, T) <=> Facts!ClosedTree(S, T)
  BY DEF Data!ClosedTree, Facts!ClosedTree
<1>6. ASSUME NEW d PROVE Data!IsDirectory(d) <=> Facts!IsDirectory(d)
  OBVIOUS
<1>7. ASSUME NEW s PROVE Data!Items(s) = Facts!Items(s)
  OBVIOUS
<1> QED BY <1>2, <1>3, <1>4, <1>5, <1>6, <1>7

-----------------------------------------------------------------------------
(* What the walk knows at each turn of the loop. *)
WalkGood(w) ==
    /\ w \in Facts!Walks /\ w.current = None
    /\ Facts!WalkOK(w, root, available)
    /\ Facts!WalkBounded(w, root)
    /\ w.seen \cap w.visiting = {}
    /\ Facts!StaysWithin(w, root)
    /\ Facts!Descends(w)

(* validate_tree starts with an Enter of the root. *)
LEMMA GoodStart ==
    ASSUME InputOK
    PROVE  WalkGood(Data!StartWalk(root))
<1> DEFINE w == Facts!StartWalk(root)
<1>1. root \in Digests
  BY DEF InputOK
<1>2. Facts!WalkOK(w, root, available) /\ w.current = None
  BY <1>1, FactsApply, Facts!WalkStarts
<1>3. Facts!StaysWithin(w, root) /\ w.seen \cap w.visiting = {} /\ Facts!Descends(w)
  BY <1>1, FactsApply, Facts!LooksStart
<1>4. Facts!WalkBounded(w, root)
  BY <1>1, FactsApply, Facts!BoundedStart
<1>5. w \in Facts!Walks
  <2>1. Facts!NoWalk \in Facts!Walks
    BY FactsApply DEF Facts!NoWalk, Facts!Walks
  <2> QED BY <1>1, <2>1, FactsApply, Facts!WalkTypes
<1>6. WalkGood(w)
  BY <1>2, <1>3, <1>4, <1>5 DEF WalkGood
<1> QED BY <1>6, SameWalks

(* A visit that needs no look-up. *)
LEMMA GoodSkip ==
    ASSUME InputOK, NEW w, WalkGood(w), w.pending # <<>>, Data!SkipsTop(w)
    PROVE  WalkGood(Data!SkipTop(w))
<1> DEFINE v == Facts!SkipTop(w)
<1>1. Facts!SkipsTop(w) /\ root \in Digests
  BY SameWalks DEF InputOK
<1>2. Facts!WalkOK(v, root, available) /\ v.current = None
  BY <1>1, FactsApply, Facts!WalkSkips DEF WalkGood
<1>3. Facts!StaysWithin(v, root) /\ v.seen \cap v.visiting = {} /\ Facts!Descends(v)
  BY <1>1, FactsApply, Facts!LooksSkip DEF WalkGood
<1>4. Facts!WalkBounded(v, root)
  BY <1>1, FactsApply, Facts!BoundedSkip DEF WalkGood
<1>5. v \in Facts!Walks
  BY <1>1, FactsApply, Facts!WalkTypes DEF WalkGood
<1>6. WalkGood(v)
  BY <1>2, <1>3, <1>4, <1>5 DEF WalkGood
<1> QED BY <1>6, SameWalks

(* The loop body of an Enter that is not refused, from one end to the      *)
(* other: between the two, the directory is current.                       *)
LEMMA GoodVisit ==
    ASSUME InputOK, NEW w, WalkGood(w), w.pending # <<>>, ~Data!SkipsTop(w),
           ~Data!RefusesTop(w), NEW d, d = Data!Top(w.pending).dir, d \in available,
           Data!IsDirectory(d), Data!Items(content[d].blobs) \subseteq available
    PROVE  WalkGood(Data!LeaveCurrent(Data!EnterTop(w), content[d].dirs))
<1> DEFINE u == Facts!EnterTop(w)
           v == Facts!LeaveCurrent(u, content[u.current].dirs)
<1>1. /\ ~Facts!SkipsTop(w) /\ ~Facts!RefusesTop(w) /\ root \in Digests
      /\ d = Facts!Top(w.pending).dir /\ Facts!IsDirectory(d)
      /\ Facts!Items(content[d].blobs) \subseteq available
  BY SameWalks, SameTests DEF InputOK
<1>2. /\ Facts!WalkOK(u, root, available)
      /\ u.current = d /\ u.current \in u.visiting
  BY <1>1, FactsApply, Facts!WalkEnters DEF WalkGood
<1>3. Facts!StaysWithin(u, root) /\ u.seen \cap u.visiting = {} /\ Facts!Descends(u)
  BY <1>1, FactsApply, Facts!LooksEnter DEF WalkGood
<1>4. Facts!WalkBounded(u, root)
  BY <1>1, FactsApply, Facts!BoundedEnter DEF WalkGood
<1>5. u \in Facts!Walks /\ u.current \in Digests
  BY <1>1, FactsApply, Facts!WalkTypes DEF WalkGood
<1> HIDE DEF u
<1>6. Facts!WalkOK(v, root, available) /\ v.current = None
  BY <1>1, <1>2, <1>5, FactsApply, Facts!WalkLeaves
<1>7. Facts!StaysWithin(v, root) /\ v.seen \cap v.visiting = {} /\ Facts!Descends(v)
  BY <1>2, <1>3, <1>5, FactsApply, Facts!LooksLeave
<1>8. Facts!WalkBounded(v, root)
  BY <1>1, <1>2, <1>4, <1>5, FactsApply, Facts!BoundedLeave
<1>9. v \in Facts!Walks
  <2>1. content[u.current].dirs \in Seq(Digests)
    BY <1>5, FactsApply, Facts!ContentType
  <2>2. u.current # None
    BY <1>5, FactsApply
  <2> QED BY <1>5, <2>1, <2>2, FactsApply, Facts!WalkTypes
<1>10. WalkGood(v)
  BY <1>6, <1>7, <1>8, <1>9 DEF WalkGood
<1>11. v = Data!LeaveCurrent(Data!EnterTop(w), content[d].dirs)
  BY <1>2, SameWalks DEF u
<1> QED BY <1>10, <1>11

(* Nothing of a sound tree is refused. *)
LEMMA SoundNotRefused ==
    ASSUME InputOK, NEW w, WalkGood(w), w.pending # <<>>, ~Data!SkipsTop(w), Sound,
           NEW d, d = Data!Top(w.pending).dir
    PROVE  /\ ~Data!RefusesTop(w) /\ d \in available /\ Data!IsDirectory(d)
           /\ Data!Items(content[d].blobs) \subseteq available
<1>1. ~Facts!SkipsTop(w) /\ d = Facts!Top(w.pending).dir
  BY SameWalks
<1>2. PICK dirs \in SUBSET Digests :
        /\ root \in dirs
        /\ Data!ClosedTree(dirs, available)
        /\ dirs \cap oversized = {}
        /\ Cardinality(dirs) <= limit
        /\ Data!Acyclic(dirs)
  BY DEF Sound
<1>3. Facts!Acyclic(dirs) /\ Facts!Cardinality(dirs) <= limit
  BY <1>2, SameTests
<1>4. /\ Facts!ClosedFrom(root, dirs)
      /\ \A e \in dirs : /\ e \in available /\ Data!IsDirectory(e)
                         /\ Data!Items(content[e].blobs) \subseteq available
  BY <1>2, SameTests DEF Data!ClosedTree, Facts!ClosedFrom
<1>5. ~Facts!RefusesTop(w) /\ d \in dirs
  BY <1>1, <1>2, <1>3, <1>4, FactsApply, Facts!NoneRefused DEF WalkGood
<1> QED BY <1>4, <1>5, SameTests

(* When the stack is empty, what was seen is the tree. *)
LEMMA EmptySound ==
    ASSUME InputOK, NEW w, WalkGood(w), w.pending = <<>>
    PROVE  Sound
<1>1. root \in Digests
  BY DEF InputOK
<1>2. root \in w.seen /\ Facts!ClosedTree(w.seen, available)
  BY <1>1, FactsApply, Facts!WalkEnds DEF WalkGood
<1>3. /\ w.seen \in SUBSET Digests
      /\ w.seen \cap oversized = {}
      /\ Facts!Cardinality(w.seen) <= limit
      /\ Facts!Acyclic(w.seen)
  BY <1>1, FactsApply, Facts!BoundedEnd DEF WalkGood
<1>4. /\ Data!ClosedTree(w.seen, available)
      /\ Cardinality(w.seen) <= limit
      /\ Data!Acyclic(w.seen)
  BY <1>2, <1>3, SameTests
<1> QED BY <1>2, <1>3, <1>4 DEF Sound

-----------------------------------------------------------------------------
(* The input does not change, so what is said of the new walk may be said  *)
(* in the new state.                                                       *)
LEMMA GoodNext ==
    ASSUME UNCHANGED input, WalkGood(walk')
    PROVE  WalkGood(walk)'
<1>0. /\ content' = content /\ available' = available /\ oversized' = oversized
      /\ limit' = limit /\ root' = root
  BY DEF input
<1> USE DEF Facts!Items, Facts!IsDirectory, Facts!Known, Facts!EnterPending, Facts!ExitPending,
        Facts!EnterVisit, Facts!ExitVisit
<1>1. Facts!WalkOK(walk', root, available) => Facts!WalkOK(walk, root, available)'
  <2>1. ASSUME NEW d, Facts!IsDirectory(d) PROVE Facts!IsDirectory(d)'
    BY <1>0, <2>1
  <2> HIDE DEF Facts!IsDirectory
  <2> QED BY <1>0, <2>1 DEF Facts!WalkOK, Facts!Passed
<1>2. Facts!WalkBounded(walk', root) => Facts!WalkBounded(walk, root)'
  <2>1. ASSUME NEW i, Facts!ExitOK(walk', i) PROVE Facts!ExitOK(walk, i)'
    BY <1>0, <2>1 DEF Facts!ExitOK
  <2>2. ASSUME Facts!Acyclic(walk'.seen) PROVE Facts!Acyclic(walk.seen)'
    <3>1. ASSUME NEW part \in SUBSET walk'.seen, part # {}
          PROVE  \E d \in part : Facts!Items(content'[d].dirs) \cap part = {}
      <4>1. PICK d \in part : Facts!Items(content[d].dirs) \cap part = {}
        BY <2>2, <3>1, Zenon DEF Facts!Acyclic
      <4> QED BY <1>0, <4>1
    <3> QED BY <3>1, Zenon DEF Facts!Acyclic
  <2> QED BY <1>0, <2>1, <2>2 DEF Facts!WalkBounded
<1>3. Facts!StaysWithin(walk', root) => Facts!StaysWithin(walk, root)'
  BY <1>0 DEF Facts!StaysWithin, Facts!ClosedFrom
<1>4. Facts!Descends(walk') => Facts!Descends(walk)'
  <2>1. ASSUME NEW n, NEW d, Facts!LeadsTo(walk'.pending, n, d)
        PROVE  Facts!LeadsTo(walk.pending, n, d)'
    BY <1>0, <2>1 DEF Facts!LeadsTo
  <2> QED BY <1>0, <2>1 DEF Facts!Descends
<1>5. walk' \in Facts!Walks => (walk \in Facts!Walks)'
  BY DEF Facts!Walks, Facts!Visits
<1> QED BY <1>1, <1>2, <1>3, <1>4, <1>5 DEF WalkGood

LEMMA InputKept ==
    ASSUME UNCHANGED input
    PROVE  /\ InputOK => InputOK'
           /\ Sound' <=> Sound
<1>0. /\ content' = content /\ available' = available /\ oversized' = oversized
      /\ limit' = limit /\ root' = root
  BY DEF input
<1>1. InputOK => InputOK'
  BY <1>0 DEF InputOK, Digests, Data!Parsed, Data!Kinds, Data!Defects
<1>2. Sound' <=> Sound
  BY <1>0
  DEF Sound, Digests, Data!ClosedTree, Data!Acyclic, Data!Items, Data!IsDirectory
<1> QED BY <1>1, <1>2

(* The inductive invariant: a walk that is accepted is over, and a refusal *)
(* is right when it is made.                                               *)
TreeSafe ==
    /\ InputOK
    /\ WalkGood(walk)
    /\ verdict = "accepted" => walk.pending = <<>>
    /\ verdict = "rejected" => ~Sound

LEMMA TreeStep ==
    ASSUME TreeSafe, [Next]_vars
    PROVE  TreeSafe'
<1>1. WalkGood(walk) /\ InputOK
  BY DEF TreeSafe
<1>2. CASE skip_visit
  <2>1. /\ walk' = Data!SkipTop(walk) /\ walk.pending # <<>> /\ Data!SkipsTop(walk)
        /\ verdict = "walking" /\ verdict' = verdict /\ UNCHANGED input
    BY <1>2 DEF skip_visit, Walking
  <2>2. WalkGood(walk')
    BY <1>1, <2>1, GoodSkip
  <2>3. WalkGood(walk)' /\ InputOK'
    BY <1>1, <2>1, <2>2, GoodNext, InputKept
  <2> QED BY <2>1, <2>3 DEF TreeSafe
<1>3. CASE visit_directory
  <2> DEFINE d == Data!Top(walk.pending).dir
             refused == \/ Data!RefusesTop(walk)
                        \/ d \notin available
                        \/ ~ Data!IsDirectory(d)
                        \/ ~ (Data!Items(content[d].blobs) \subseteq available)
  <2>1. /\ walk.pending # <<>> /\ ~Data!SkipsTop(walk) /\ verdict = "walking"
        /\ UNCHANGED input
        /\ \/ /\ ~refused
              /\ walk' = Data!LeaveCurrent(Data!EnterTop(walk), content[d].dirs)
              /\ verdict' = verdict
           \/ /\ refused
              /\ verdict' = "rejected"
              /\ walk' = walk
    BY <1>3 DEF visit_directory, Walking
  <2>2. InputOK' /\ (Sound' <=> Sound)
    BY <1>1, <2>1, InputKept
  <2>3. CASE /\ ~refused
             /\ walk' = Data!LeaveCurrent(Data!EnterTop(walk), content[d].dirs)
             /\ verdict' = verdict
    <3>1. WalkGood(walk')
      BY <1>1, <2>1, <2>3, GoodVisit
    <3>2. WalkGood(walk)'
      BY <2>1, <3>1, GoodNext
    <3> QED BY <2>1, <2>2, <2>3, <3>2 DEF TreeSafe
  <2>4. CASE refused /\ verdict' = "rejected" /\ walk' = walk
    <3>1. ~Sound
      BY <1>1, <2>1, <2>4, SoundNotRefused
    <3>2. WalkGood(walk)'
      BY <1>1, <2>1, <2>4, GoodNext
    <3> QED BY <2>2, <2>4, <3>1, <3>2 DEF TreeSafe
  <2> QED BY <2>1, <2>3, <2>4
<1>4. CASE accept
  <2>1. walk.pending = <<>> /\ verdict' = "accepted" /\ walk' = walk /\ UNCHANGED input
    BY <1>4 DEF accept
  <2>2. WalkGood(walk)' /\ InputOK'
    BY <1>1, <2>1, GoodNext, InputKept
  <2> QED BY <2>1, <2>2 DEF TreeSafe
<1>5. CASE UNCHANGED vars
  <2>1. UNCHANGED input /\ walk' = walk /\ verdict' = verdict
    BY <1>5 DEF vars, input
  <2>2. WalkGood(walk)' /\ InputOK' /\ (Sound' <=> Sound)
    BY <1>1, <2>1, GoodNext, InputKept
  <2> QED BY <2>1, <2>2 DEF TreeSafe
<1> QED BY <1>2, <1>3, <1>4, <1>5 DEF Next, done

LEMMA TreeStarts == AnyTree => TreeSafe
<1> SUFFICES ASSUME AnyTree PROVE TreeSafe
  OBVIOUS
<1>1. InputOK /\ WalkGood(walk)
  BY GoodStart DEF AnyTree
<1> QED BY <1>1 DEF AnyTree, TreeSafe

LEMMA SafeRight == TreeSafe => VerdictRight
<1> SUFFICES ASSUME TreeSafe PROVE VerdictRight
  OBVIOUS
<1>1. InputOK /\ WalkGood(walk)
  BY DEF TreeSafe
<1>2. verdict = "accepted" => Sound
  BY <1>1, EmptySound DEF TreeSafe
<1> QED BY <1>2 DEF TreeSafe, VerdictRight

(* validate_tree, on any directory graph whatever its size and shape: what *)
(* TreeSafe says of the walk holds at every turn of the loop.               *)
THEOREM TreeInductive == AnyTree /\ [][Next]_vars => []TreeSafe
<1>1. AnyTree => TreeSafe
  BY TreeStarts
<1>2. TreeSafe /\ [Next]_vars => TreeSafe'
  BY TreeStep
<1> QED BY <1>1, <1>2, PTL

(* validate_tree accepts a tree only if it is whole, acyclic and within    *)
(* the limits, and refuses it only if it is not, on any directory graph.   *)
THEOREM AnyVerdictRight == AnyTree /\ [][Next]_vars => []VerdictRight
BY TreeInductive, SafeRight, PTL

(* The graphs of Init are graphs. *)
LEMMA InitAnyTree == Init => AnyTree
<1> SUFFICES ASSUME Init PROVE AnyTree
  OBVIOUS
<1>1. PICK dirs \in [Nodes -> EntryLists], holder \in Nodes \cup {None},
           files \in {<<f>> : f \in Files} :
        content = [d \in Digests |->
            IF d \in Nodes
            THEN Object("directory", IF d = holder THEN files ELSE <<>>, dirs[d])
            ELSE Object("raw", <<>>, <<>>)]
  BY DEF Init
<1>2. ASSUME NEW d \in Nodes PROVE dirs[d] \in Seq(Digests)
  <2>1. PICK k \in 0 .. MaxEntries : dirs[d] \in [1 .. k -> Nodes]
    BY DEF EntryLists
  <2>2. k \in Nat
    BY <2>1, BoundsAssumption
  <2> QED BY <2>1, <2>2 DEF Digests
<1>3. files \in Seq(Digests) /\ <<>> \in Seq(Digests)
  <2>1. PICK f \in Files : files = <<f>>
    OBVIOUS
  <2>2. f \in Digests
    BY DEF Digests
  <2> QED BY <2>1, <2>2
<1>4. ASSUME NEW d \in Digests PROVE content[d] \in Data!Parsed
  BY <1>1, <1>2, <1>3 DEF Object, Data!Parsed
<1>5. content \in [Digests -> Data!Parsed]
  BY <1>1, <1>4
<1>6. available \subseteq Digests /\ oversized \subseteq Digests
  BY DEF Init, Digests
<1> QED
  BY <1>5, <1>6, BoundsAssumption, RootsAssumption DEF Init, AnyTree, InputOK, Digests

(* In particular on the graphs the run enumerates. *)
THEOREM VerdictsRight == Spec => []VerdictRight
<1>1. Init => AnyTree
  BY InitAnyTree
<1> QED BY <1>1, AnyVerdictRight, PTL DEF Spec

-----------------------------------------------------------------------------
(* Every turn of the loop of validate_tree ends the walk, or pops a visit  *)
(* and has entered the directories it had entered, or enters one more and  *)
(* adds its entries to the stack.  No directory is entered twice, which    *)
(* bounds the turns by the directories and their entries.                  *)
Entered(w) == w.seen \cup w.visiting

Advances ==
    \/ verdict = "walking" /\ verdict' \in {"accepted", "rejected"}
    \/ /\ Len(walk'.pending) = Len(walk.pending) - 1
       /\ Entered(walk') = Entered(walk) /\ walk.seen \subseteq walk'.seen
    \/ \E d \in Digests \ Entered(walk) :
          /\ Entered(walk') = Entered(walk) \cup {d} /\ walk'.seen = walk.seen
          /\ Len(walk'.pending) = Len(walk.pending) + Len(content[d].dirs)

LEMMA EveryTurn ==
    ASSUME TreeSafe, Next
    PROVE  Advances \/ UNCHANGED vars
<1>1. WalkGood(walk) /\ InputOK /\ root \in Digests
  BY DEF TreeSafe, InputOK
<1>2. CASE skip_visit
  <2>1. walk' = Facts!SkipTop(walk) /\ walk.pending # <<>> /\ Facts!SkipsTop(walk)
    BY <1>2, SameWalks DEF skip_visit, Walking
  <2>2. /\ Len(walk'.pending) = Len(walk.pending) - 1
        /\ Entered(walk') = Entered(walk)
    BY <1>1, <2>1, FactsApply, Facts!TurnAdvances DEF WalkGood, Entered
  <2>3. walk.seen \subseteq walk'.seen
    BY <1>1, <2>1 DEF WalkGood, Facts!SkipTop, Facts!Pop, Facts!Walks
  <2> QED BY <2>2, <2>3 DEF Advances
<1>3. CASE visit_directory /\ verdict' = verdict
  <2> DEFINE d == Facts!Top(walk.pending).dir
             u == Facts!EnterTop(walk)
             dirs == content[d].dirs
  <2>1. /\ walk.pending # <<>> /\ ~Facts!SkipsTop(walk) /\ ~Facts!RefusesTop(walk)
        /\ walk' = Facts!LeaveCurrent(u, dirs)
    BY <1>3, SameWalks, SameTests DEF visit_directory, Walking
  <2>2. d \in Digests \ (walk.seen \cup walk.visiting)
    BY <1>1, <2>1, FactsApply, Facts!TurnAdvances DEF WalkGood
  <2>3. /\ u.pending = Facts!Below(walk.pending) /\ u.seen = walk.seen
        /\ u.visiting = walk.visiting \cup {d} /\ u.current = d
    BY <1>1 DEF WalkGood, Facts!EnterTop, Facts!Pop, Facts!Walks
  <2>4. /\ u \in Facts!Walks /\ dirs \in Seq(Digests) /\ Len(dirs) \in Nat
        /\ Len(walk.pending) \in Nat \ {0} /\ Len(u.pending) = Len(walk.pending) - 1
    BY <1>1, <2>1, <2>2, <2>3, FactsApply, Facts!WalkTypes, Facts!ContentType, Facts!PopPlaces
    DEF WalkGood
  <2> HIDE DEF d, u, dirs
  <2>5. /\ walk'.seen = u.seen /\ walk'.visiting = u.visiting
        /\ walk'.pending = Append(u.pending, Facts!ExitVisit(d)) \o Facts!Enters(dirs)
    BY <2>1, <2>3, <2>4 DEF Facts!LeaveCurrent, Facts!Walks
  <2>6. Len(walk'.pending) = Len(u.pending) + 1 + Len(dirs)
    <3>1. u.pending \in Seq(Facts!Visits) /\ d \in Digests /\ dirs \in Seq(Digests)
      BY <2>2, <2>4 DEF Facts!Walks
    <3> DEFINE t == Append(u.pending, Facts!ExitVisit(d)) \o Facts!Enters(dirs)
    <3>2. Len(t) = Len(u.pending) + 1 + Len(dirs)
      BY <1>1, <3>1, FactsApply, Facts!PushPlaces, Zenon
    <3> QED BY <2>5, <3>2
  <2>7. Len(walk'.pending) = Len(walk.pending) + Len(dirs)
    BY <2>4, <2>6
  <2> QED BY <2>2, <2>3, <2>5, <2>7 DEF Advances, Entered, dirs
<1>4. CASE visit_directory /\ verdict' # verdict
  BY <1>4 DEF visit_directory, Walking, Advances
<1>5. CASE accept
  BY <1>5 DEF accept, Advances
<1> QED BY <1>2, <1>3, <1>4, <1>5 DEF Next, done

(* The loop of validate_tree makes progress on any directory graph, the    *)
(* cyclic ones included: no turn gives back what an earlier turn gained.   *)
THEOREM TurnsAdvance == AnyTree /\ [][Next]_vars => [][Advances]_vars
<1>1. TreeSafe /\ [Next]_vars => [Advances]_vars
  BY EveryTurn
<1> QED BY <1>1, TreeInductive, PTL
=============================================================================
