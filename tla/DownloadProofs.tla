--------------------------- MODULE DownloadProofs ---------------------------
(***************************************************************************)
(* Proofs about the read-only endpoints and pack_blobs, for every set of   *)
(* digests, handlers and digest lists: the queries are exact, the gauge of *)
(* packs is exact, and a pack's length tells whether it is whole.          *)
(***************************************************************************)
EXTENDS PackDownload, SequenceTheorems, FiniteSetTheorems, WellFoundedInduction, TLAPS

(* A set of numbers has a least one, which is what inductions here use. *)
LEMMA SmallestOf ==
    ASSUME NEW T, T \subseteq Nat, T # {}
    PROVE  \E m \in T : \A k \in T : m <= k
<1> DEFINE R == OpToRel(<, Nat)
<1>1. IsWellFoundedOn(R, Nat)
  BY NatLessThanWellFounded
<1>2. \A a, b \in Nat : a < b => <<a, b>> \in R
  BY DEF OpToRel
<1> HIDE DEF R
<1>3. PICK m \in T : \A k \in T : ~ (<<k, m>> \in R)
  BY <1>1, WFMin
<1>4. \A k \in T : ~ (k < m)
  BY <1>2, <1>3
<1> QED BY <1>4

(* Whatever is so of 0, and of a number when it is of the one before, is   *)
(* so of all numbers up to n: Good is the set of those it is so of.        *)
LEMMA UpTo ==
    ASSUME NEW n \in Nat, NEW Good, 0 \in Good,
           \A i \in 1 .. n : i - 1 \in Good => i \in Good
    PROVE  0 .. n \subseteq Good
<1> DEFINE T == (0 .. n) \ Good
<1> SUFFICES ASSUME T # {} PROVE FALSE
  OBVIOUS
<1>1. T \subseteq Nat
  OBVIOUS
<1>2. PICK m \in T : \A k \in T : m <= k
  <2> HIDE DEF T
  <2> QED BY <1>1, SmallestOf
<1>3. m \in 1 .. n /\ m - 1 \in 0 .. n /\ ~ (m <= m - 1)
  BY <1>2
<1>4. m - 1 \in Good
  BY <1>2, <1>3
<1> QED BY <1>2, <1>3, <1>4

(* g starts at a and goes on by F. *)
Iterates(a, F, n, g) == g = [i \in 0 .. n |-> IF i = 0 THEN a ELSE F[i][g[i - 1]]]

(* There is such a function. *)
LEMMA IterationExists ==
    ASSUME NEW T, NEW a \in T, NEW n \in Nat, NEW F \in [1 .. n -> [T -> T]]
    PROVE  \E g \in [0 .. n -> T] : Iterates(a, F, n, g)
<1> DEFINE Good == {m \in 0 .. n : \E g \in [0 .. m -> T] : Iterates(a, F, m, g)}
<1>1. 0 \in Good
  <2>1. [i \in 0 .. 0 |-> a] \in [0 .. 0 -> T]
    OBVIOUS
  <2>2. Iterates(a, F, 0, [i \in 0 .. 0 |-> a])
    BY DEF Iterates
  <2> QED BY <2>1, <2>2
<1>2. ASSUME NEW m \in 1 .. n, m - 1 \in Good PROVE m \in Good
  <2>1. PICK g \in [0 .. m - 1 -> T] : Iterates(a, F, m - 1, g)
    BY <1>2
  <2> DEFINE h == [i \in 0 .. m |-> IF i = m THEN F[m][g[m - 1]] ELSE g[i]]
  <2>2. m - 1 \in 0 .. m - 1 /\ F[m][g[m - 1]] \in T
    OBVIOUS
  <2>3. h \in [0 .. m -> T]
    BY <2>2
  <2>4. ASSUME NEW i \in 0 .. m PROVE h[i] = IF i = 0 THEN a ELSE F[i][h[i - 1]]
    <3>1. CASE i = m
      BY <2>2, <3>1
    <3>2. CASE i # m
      <4>1. i \in 0 .. m - 1 /\ h[i] = g[i] /\ (i # 0 => i - 1 \in 0 .. m - 1 /\ h[i - 1] = g[i - 1])
        BY <3>2
      <4>2. g[i] = IF i = 0 THEN a ELSE F[i][g[i - 1]]
        BY <2>1, <4>1 DEF Iterates
      <4> QED BY <4>1, <4>2
    <3> QED BY <3>1, <3>2
  <2>5. Iterates(a, F, m, h)
    BY <2>3, <2>4 DEF Iterates
  <2> QED BY <2>3, <2>5
<1>3. 0 .. n \subseteq Good
  <2> HIDE DEF Good
  <2> QED BY <1>1, <1>2, UpTo
<1> QED BY <1>3

-----------------------------------------------------------------------------
(* Lists of digests. *)

(* An element at the end. *)
LEMMA AppendFacts ==
    ASSUME NEW S, NEW s \in Seq(S), NEW x \in S
    PROVE  /\ Append(s, x) \in Seq(S)
           /\ ToSet(Append(s, x)) = ToSet(s) \cup {x}
           /\ IsInjective(s) /\ x \notin ToSet(s) => IsInjective(Append(s, x))
<1>1. /\ Append(s, x) \in Seq(S) /\ Len(s) \in Nat
      /\ DOMAIN s = 1 .. Len(s) /\ DOMAIN Append(s, x) = 1 .. Len(s) + 1
      /\ Append(s, x)[Len(s) + 1] = x
      /\ \A i \in 1 .. Len(s) : Append(s, x)[i] = s[i]
  OBVIOUS
<1>2. ToSet(Append(s, x)) = ToSet(s) \cup {x}
  <2>1. ASSUME NEW y \in ToSet(Append(s, x)) PROVE y \in ToSet(s) \cup {x}
    <3>1. PICK i \in 1 .. Len(s) + 1 : y = Append(s, x)[i]
      BY <1>1 DEF ToSet
    <3>2. i \in 1 .. Len(s) \/ i = Len(s) + 1
      BY <1>1
    <3> QED BY <1>1, <3>1, <3>2 DEF ToSet
  <2>2. ASSUME NEW y \in ToSet(s) \cup {x} PROVE y \in ToSet(Append(s, x))
    <3>1. \E i \in 1 .. Len(s) + 1 : y = Append(s, x)[i]
      BY <1>1 DEF ToSet
    <3> QED BY <1>1, <3>1 DEF ToSet
  <2> QED BY <2>1, <2>2
<1>3. ASSUME IsInjective(s), x \notin ToSet(s),
             NEW i \in 1 .. Len(s) + 1, NEW j \in 1 .. Len(s) + 1,
             Append(s, x)[i] = Append(s, x)[j]
      PROVE  i = j
  <2>1. \A k \in 1 .. Len(s) : s[k] # x
    BY <1>1, <1>3 DEF ToSet
  <2>2. (i \in 1 .. Len(s) \/ i = Len(s) + 1) /\ (j \in 1 .. Len(s) \/ j = Len(s) + 1)
    BY <1>1
  <2>3. \A k, l \in 1 .. Len(s) : s[k] = s[l] => k = l
    BY <1>1, <1>3 DEF IsInjective
  <2> QED BY <1>1, <1>3, <2>1, <2>2, <2>3
<1>4. IsInjective(s) /\ x \notin ToSet(s) => IsInjective(Append(s, x))
  BY <1>1, <1>3 DEF IsInjective
<1> QED BY <1>1, <1>2, <1>4

(* kept is Kept's local function. *)
Keeps(seq, set, kept) ==
    kept = [n \in 0 .. Len(seq) |->
                IF n = 0 THEN <<>>
                ELSE IF seq[n] \in set THEN Append(kept[n - 1], seq[n]) ELSE kept[n - 1]]

(* There is one, and Kept takes its last value. *)
LEMMA KeptIs ==
    ASSUME NEW S, NEW seq \in Seq(S), NEW set
    PROVE  \E kept : Keeps(seq, set, kept) /\ Kept(seq, set) = kept[Len(seq)]
<1> DEFINE F == [n \in 1 .. Len(seq) |-> [x \in Seq(S) |->
                    IF seq[n] \in set THEN Append(x, seq[n]) ELSE x]]
           s == CHOOSE kept : Keeps(seq, set, kept)
<1>1. Len(seq) \in Nat /\ \A n \in 1 .. Len(seq) : seq[n] \in S
  OBVIOUS
<1>2. F \in [1 .. Len(seq) -> [Seq(S) -> Seq(S)]] /\ <<>> \in Seq(S)
  BY <1>1
<1>3. PICK g \in [0 .. Len(seq) -> Seq(S)] : Iterates(<<>>, F, Len(seq), g)
  <2> HIDE DEF F
  <2> QED BY <1>1, <1>2, IterationExists
<1>4. Keeps(seq, set, g)
  <2>1. ASSUME NEW n \in 1 .. Len(seq)
        PROVE  F[n][g[n - 1]] = IF seq[n] \in set THEN Append(g[n - 1], seq[n]) ELSE g[n - 1]
    <3>1. n - 1 \in 0 .. Len(seq)
      BY <1>1
    <3> QED BY <3>1
  <2>2. \A n \in 0 .. Len(seq) : n # 0 => n \in 1 .. Len(seq)
    BY <1>1
  <2>3. g = [n \in 0 .. Len(seq) |-> IF n = 0 THEN <<>> ELSE F[n][g[n - 1]]]
    BY <1>3 DEF Iterates
  <2> HIDE DEF F
  <2>4. \A n \in 0 .. Len(seq) :
            g[n] = IF n = 0 THEN <<>>
                   ELSE IF seq[n] \in set THEN Append(g[n - 1], seq[n]) ELSE g[n - 1]
    BY <2>1, <2>2, <2>3
  <2> QED BY <2>4 DEF Keeps
<1>5. Keeps(seq, set, s)
  BY <1>4
<1>6. Kept(seq, set) = s[Len(seq)]
  BY Zenon DEF Kept, Keeps
<1> QED BY <1>5, <1>6

(* What it computes, number by number. *)
LEMMA KeepsSteps ==
    ASSUME NEW seq, Len(seq) \in Nat, NEW set, NEW kept, Keeps(seq, set, kept)
    PROVE  /\ kept[0] = <<>>
           /\ \A n \in 1 .. Len(seq) :
                kept[n] = IF seq[n] \in set THEN Append(kept[n - 1], seq[n]) ELSE kept[n - 1]
<1>1. \A n \in 0 .. Len(seq) :
        kept[n] = IF n = 0 THEN <<>>
                  ELSE IF seq[n] \in set THEN Append(kept[n - 1], seq[n]) ELSE kept[n - 1]
  BY DEF Keeps
<1>2. 0 \in 0 .. Len(seq) /\ \A n \in 1 .. Len(seq) : n # 0 /\ n \in 0 .. Len(seq)
  OBVIOUS
<1> QED BY <1>1, <1>2

(* Kept holds what its name says, each element as often as before. *)
LEMMA KeptFacts ==
    ASSUME NEW S, NEW seq \in Seq(S), NEW set
    PROVE  /\ Kept(seq, set) \in Seq(S)
           /\ ToSet(Kept(seq, set)) = ToSet(seq) \cap set
           /\ IsInjective(seq) => IsInjective(Kept(seq, set))
<1>1. /\ Len(seq) \in Nat /\ DOMAIN seq = 1 .. Len(seq)
      /\ \A n \in 1 .. Len(seq) : seq[n] \in S
  OBVIOUS
<1>2. PICK kept : Keeps(seq, set, kept) /\ Kept(seq, set) = kept[Len(seq)]
  BY KeptIs
<1>3. /\ kept[0] = <<>>
      /\ \A n \in 1 .. Len(seq) :
            kept[n] = IF seq[n] \in set THEN Append(kept[n - 1], seq[n]) ELSE kept[n - 1]
  BY <1>1, <1>2, KeepsSteps
<1> DEFINE Before(n) == {seq[j] : j \in 1 .. n}
           Good == {n \in 0 .. Len(seq) :
                        /\ kept[n] \in Seq(S)
                        /\ ToSet(kept[n]) = Before(n) \cap set
                        /\ IsInjective(seq) => IsInjective(kept[n])}
<1>4. 0 \in Good
  <2>1. kept[0] \in Seq(S) /\ DOMAIN kept[0] = {} /\ Before(0) = {}
    BY <1>3
  <2>2. ToSet(kept[0]) = {} /\ IsInjective(kept[0])
    BY <2>1 DEF ToSet, IsInjective
  <2> QED BY <1>1, <2>1, <2>2
<1>5. ASSUME NEW n \in 1 .. Len(seq), n - 1 \in Good PROVE n \in Good
  <2>1. /\ n - 1 \in 0 .. Len(seq) /\ kept[n - 1] \in Seq(S)
        /\ ToSet(kept[n - 1]) = Before(n - 1) \cap set
        /\ IsInjective(seq) => IsInjective(kept[n - 1])
    BY <1>5
  <2>2. Before(n) = Before(n - 1) \cup {seq[n]}
    <3>1. 1 .. n = (1 .. n - 1) \cup {n}
      BY <1>1
    <3> QED BY <3>1
  <2>3. ASSUME IsInjective(seq) PROVE seq[n] \notin Before(n - 1)
    <3>1. \A j \in 1 .. n - 1 : j \in 1 .. Len(seq) /\ j # n
      BY <1>1
    <3> QED BY <1>1, <2>3, <3>1 DEF IsInjective
  <2> HIDE DEF Before
  <2>4. CASE seq[n] \in set
    <3>1. kept[n] = Append(kept[n - 1], seq[n]) /\ seq[n] \in S
      BY <1>1, <1>3, <2>4
    <3>2. /\ kept[n] \in Seq(S)
          /\ ToSet(kept[n]) = ToSet(kept[n - 1]) \cup {seq[n]}
          /\ IsInjective(kept[n - 1]) /\ seq[n] \notin ToSet(kept[n - 1]) => IsInjective(kept[n])
      BY <2>1, <3>1, AppendFacts
    <3>3. ToSet(kept[n]) = Before(n) \cap set
      BY <2>1, <2>2, <2>4, <3>2
    <3>4. IsInjective(seq) => IsInjective(kept[n])
      BY <2>1, <2>3, <3>2
    <3> QED BY <1>1, <3>2, <3>3, <3>4
  <2>5. CASE seq[n] \notin set
    <3>1. kept[n] = kept[n - 1]
      BY <1>3, <2>5
    <3>2. Before(n) \cap set = Before(n - 1) \cap set
      BY <2>2, <2>5
    <3> QED BY <1>1, <2>1, <3>1, <3>2
  <2> QED BY <2>4, <2>5
<1>6. 0 .. Len(seq) \subseteq Good
  <2> HIDE DEF Good
  <2> QED BY <1>1, <1>4, <1>5, UpTo
<1>7. Len(seq) \in Good /\ Before(Len(seq)) = ToSet(seq)
  BY <1>1, <1>6 DEF ToSet
<1> QED BY <1>2, <1>7

(* Only membership of the list's own elements matters. *)
LEMMA KeptAgrees ==
    ASSUME NEW S, NEW seq \in Seq(S), NEW A, NEW B, ToSet(seq) \cap A = ToSet(seq) \cap B
    PROVE  Kept(seq, A) = Kept(seq, B)
<1>1. Len(seq) \in Nat /\ \A n \in 1 .. Len(seq) : seq[n] \in A <=> seq[n] \in B
  BY DEF ToSet
<1>2. PICK a : Keeps(seq, A, a) /\ Kept(seq, A) = a[Len(seq)]
  BY KeptIs
<1>3. PICK b : Keeps(seq, B, b) /\ Kept(seq, B) = b[Len(seq)]
  BY KeptIs
<1>4. /\ a[0] = <<>>
      /\ \A n \in 1 .. Len(seq) : a[n] = IF seq[n] \in A THEN Append(a[n - 1], seq[n]) ELSE a[n - 1]
  BY <1>1, <1>2, KeepsSteps
<1>5. /\ b[0] = <<>>
      /\ \A n \in 1 .. Len(seq) : b[n] = IF seq[n] \in B THEN Append(b[n - 1], seq[n]) ELSE b[n - 1]
  BY <1>1, <1>3, KeepsSteps
<1> DEFINE Good == {n \in 0 .. Len(seq) : a[n] = b[n]}
<1>6. 0 \in Good
  BY <1>1, <1>4, <1>5
<1>7. ASSUME NEW n \in 1 .. Len(seq), n - 1 \in Good PROVE n \in Good
  BY <1>1, <1>4, <1>5, <1>7
<1>8. 0 .. Len(seq) \subseteq Good
  <2> HIDE DEF Good
  <2> QED BY <1>1, <1>6, <1>7, UpTo
<1> QED BY <1>1, <1>2, <1>3, <1>8

(* The indexes of a list, and the ones among them that are in a set. *)
LEMMA IndexFacts ==
    ASSUME NEW S, NEW seq \in Seq(S), NEW set \in SUBSET (1 .. Len(seq))
    PROVE  /\ Kept(Indexes(seq), set) \in Seq(1 .. Len(seq))
           /\ ToSet(Kept(Indexes(seq), set)) = set
           /\ IsInjective(Kept(Indexes(seq), set))
<1>1. Len(seq) \in Nat /\ Indexes(seq) = [i \in 1 .. Len(seq) |-> i]
  BY DEF Indexes
<1>2. Indexes(seq) \in Seq(1 .. Len(seq))
  BY <1>1
<1>3. ToSet(Indexes(seq)) = 1 .. Len(seq) /\ IsInjective(Indexes(seq))
  BY <1>1 DEF ToSet, IsInjective
<1>4. /\ Kept(Indexes(seq), set) \in Seq(1 .. Len(seq))
      /\ ToSet(Kept(Indexes(seq), set)) = ToSet(Indexes(seq)) \cap set
      /\ IsInjective(Kept(Indexes(seq), set))
  BY <1>2, <1>3, KeptFacts
<1> QED BY <1>3, <1>4

(* Picking the elements at some indexes. *)
LEMMA PickFacts ==
    ASSUME NEW S, NEW seq \in Seq(S), NEW indexes \in Seq(1 .. Len(seq))
    PROVE  /\ Pick(seq, indexes) \in Seq(S)
           /\ ToSet(Pick(seq, indexes)) = {seq[i] : i \in ToSet(indexes)}
           /\ IsInjective(indexes) /\ (\A i, j \in ToSet(indexes) : seq[i] = seq[j] => i = j)
                => IsInjective(Pick(seq, indexes))
<1>1. /\ Len(indexes) \in Nat /\ DOMAIN indexes = 1 .. Len(indexes)
      /\ \A k \in 1 .. Len(indexes) : indexes[k] \in 1 .. Len(seq) /\ seq[indexes[k]] \in S
  OBVIOUS
<1>2. Pick(seq, indexes) = [k \in 1 .. Len(indexes) |-> seq[indexes[k]]]
  BY <1>1 DEF Pick
<1>3. Pick(seq, indexes) \in Seq(S)
  BY <1>1, <1>2
<1>4. ToSet(Pick(seq, indexes)) = {seq[i] : i \in ToSet(indexes)}
  BY <1>1, <1>2 DEF ToSet
<1>5. ASSUME IsInjective(indexes), \A i, j \in ToSet(indexes) : seq[i] = seq[j] => i = j
      PROVE  IsInjective(Pick(seq, indexes))
  BY <1>1, <1>2, <1>5 DEF IsInjective, ToSet
<1> QED BY <1>3, <1>4, <1>5

(* Dedup drops the repetitions and nothing else. *)
LEMMA DedupFacts ==
    ASSUME NEW S, NEW seq \in Seq(S)
    PROVE  Dedup(seq) \in Seq(S) /\ IsInjective(Dedup(seq)) /\ ToSet(Dedup(seq)) = ToSet(seq)
<1>1. Len(seq) \in Nat /\ DOMAIN seq = 1 .. Len(seq) /\ Firsts(seq) \in SUBSET (1 .. Len(seq))
  BY DEF Firsts
<1>2. PICK indexes : indexes = Kept(Indexes(seq), Firsts(seq))
  OBVIOUS
<1>3. indexes \in Seq(1 .. Len(seq)) /\ ToSet(indexes) = Firsts(seq) /\ IsInjective(indexes)
  BY <1>1, <1>2, IndexFacts
<1>4. ASSUME NEW i \in Firsts(seq), NEW j \in Firsts(seq), seq[i] = seq[j] PROVE i = j
  <2>1. /\ i \in 1 .. Len(seq) /\ \A k \in 1 .. i - 1 : seq[k] # seq[i]
        /\ j \in 1 .. Len(seq) /\ \A k \in 1 .. j - 1 : seq[k] # seq[j]
    BY <1>1 DEF Firsts
  <2>2. (i < j => i \in 1 .. j - 1) /\ (j < i => j \in 1 .. i - 1)
    BY <1>1, <2>1
  <2>3. ~ (i < j) /\ ~ (j < i)
    BY <1>4, <2>1, <2>2
  <2> QED BY <1>1, <2>1, <2>3
<1>5. Dedup(seq) = Pick(seq, indexes)
  BY <1>2 DEF Dedup
<1>6. /\ Dedup(seq) \in Seq(S) /\ IsInjective(Dedup(seq))
      /\ ToSet(Dedup(seq)) = {seq[i] : i \in Firsts(seq)}
  BY <1>3, <1>4, <1>5, PickFacts
<1>7. ASSUME NEW x \in ToSet(seq) PROVE \E i \in Firsts(seq) : x = seq[i]
  <2> DEFINE T == {i \in 1 .. Len(seq) : seq[i] = x}
  <2>1. T # {} /\ T \subseteq Nat
    BY <1>1 DEF ToSet
  <2>2. PICK m \in T : \A k \in T : m <= k
    <3> HIDE DEF T
    <3> QED BY <2>1, SmallestOf
  <2>3. \A k \in 1 .. m - 1 : k \in 1 .. Len(seq) /\ ~ (m <= k)
    BY <1>1, <2>2
  <2>4. m \in 1 .. Len(seq) /\ seq[m] = x /\ \A k \in 1 .. m - 1 : seq[k] # x
    BY <2>2, <2>3
  <2>5. m \in Firsts(seq)
    BY <1>1, <2>4 DEF Firsts
  <2> QED BY <2>4, <2>5
<1>8. ToSet(Dedup(seq)) = ToSet(seq)
  <2>1. \A i \in Firsts(seq) : seq[i] \in ToSet(seq)
    BY <1>1 DEF ToSet
  <2> QED BY <1>6, <1>7, <2>1
<1> QED BY <1>6, <1>8

(* The join returns what it was asked for and the table has, each digest   *)
(* as often as it was asked for, except those it was not sent.             *)
LEMMA JoinFacts ==
    ASSUME NEW seq \in Seq(Digests), NEW table
    PROVE  /\ Join(seq, table) \in Seq(Digests)
           /\ ToSet(Join(seq, table)) = (ToSet(seq) \ Unrepresentable) \cap table
           /\ IsInjective(seq) => IsInjective(Join(seq, table))
<1>1. PICK sent : sent = representable_digests(seq)
  OBVIOUS
<1>2. /\ sent \in Seq(Digests) /\ ToSet(sent) = ToSet(seq) \cap (Digests \ Unrepresentable)
      /\ IsInjective(seq) => IsInjective(sent)
  BY <1>1, KeptFacts DEF representable_digests
<1>3. ToSet(seq) \subseteq Digests
  BY DEF ToSet
<1>4. PICK found : found = {i \in DOMAIN sent : sent[i] \in table}
  OBVIOUS
<1>5. DOMAIN sent = 1 .. Len(sent) /\ found \in SUBSET (1 .. Len(sent))
  BY <1>2, <1>4
<1>6. PICK ordinals : ordinals = Kept(Indexes(sent), found)
  OBVIOUS
<1>7. ordinals \in Seq(1 .. Len(sent)) /\ ToSet(ordinals) = found /\ IsInjective(ordinals)
  BY <1>2, <1>5, <1>6, IndexFacts
<1>8. Join(seq, table) = Pick(sent, ordinals)
  BY <1>1, <1>4, <1>6 DEF Join, Ordinals
<1>9. /\ Join(seq, table) \in Seq(Digests)
      /\ ToSet(Join(seq, table)) = {sent[i] : i \in found}
      /\ (\A i, j \in found : sent[i] = sent[j] => i = j) => IsInjective(Join(seq, table))
  BY <1>2, <1>7, <1>8, PickFacts
<1>10. IsInjective(seq) => IsInjective(Join(seq, table))
  BY <1>2, <1>5, <1>9 DEF IsInjective
<1>11. {sent[i] : i \in found} = ToSet(sent) \cap table
  BY <1>4 DEF ToSet
<1> QED BY <1>2, <1>3, <1>9, <1>10, <1>11

(* No row is of a digest that the metadata store cannot hold. *)
Representable == rows \cap Unrepresentable = {} /\ results \cap Unrepresentable = {}

(* Both stores find the blobs that have a row. *)
LEMMA VisibleFacts ==
    ASSUME NEW seq \in Seq(Digests), Representable
    PROVE  /\ visible_blobs(seq) \in Seq(Digests)
           /\ ToSet(visible_blobs(seq)) = ToSet(seq) \cap rows
           /\ IsInjective(seq) => IsInjective(visible_blobs(seq))
<1>1. CASE setup.backend = "memory"
  <2>1. visible_blobs(seq) = Kept(seq, rows)
    BY <1>1 DEF visible_blobs
  <2> QED BY <2>1, KeptFacts
<1>2. CASE setup.backend # "memory"
  <2>1. visible_blobs(seq) = Join(seq, rows)
    BY <1>2 DEF visible_blobs
  <2>2. (ToSet(seq) \ Unrepresentable) \cap rows = ToSet(seq) \cap rows
    BY DEF Representable
  <2> QED BY <2>1, <2>2, JoinFacts
<1> QED BY <1>1, <1>2

(* A list without repetitions is as long as its set is large. *)
LEMMA InjectiveCount ==
    ASSUME NEW S, NEW seq \in Seq(S), IsInjective(seq)
    PROVE  Cardinality(ToSet(seq)) = Len(seq) /\ IsFiniteSet(ToSet(seq))
<1>1. /\ Len(seq) \in Nat /\ DOMAIN seq = 1 .. Len(seq)
      /\ seq = [i \in 1 .. Len(seq) |-> seq[i]]
      /\ \A i, j \in 1 .. Len(seq) : seq[i] = seq[j] => i = j
  BY DEF IsInjective
<1>2. seq \in [1 .. Len(seq) -> ToSet(seq)] /\ \A x \in ToSet(seq) : \E i \in 1 .. Len(seq) : seq[i] = x
  BY <1>1 DEF ToSet
<1>3. ExistsBijection(1 .. Len(seq), ToSet(seq))
  BY <1>1, <1>2 DEF ExistsBijection, Bijection, Injection, Surjection, IsInjective
<1> QED BY <1>1, <1>3, FS_CountingElements, FS_NatBijection

(* The first element and the rest. *)
LEMMA HeadFacts ==
    ASSUME NEW S, NEW seq \in Seq(S), seq # <<>>
    PROVE  /\ Head(seq) \in S /\ Tail(seq) \in Seq(S)
           /\ ToSet(seq) = {Head(seq)} \cup ToSet(Tail(seq))
           /\ IsInjective(seq) => IsInjective(Tail(seq)) /\ Head(seq) \notin ToSet(Tail(seq))
<1>1. /\ Len(seq) \in Nat \ {0} /\ DOMAIN seq = 1 .. Len(seq) /\ Head(seq) = seq[1]
      /\ Tail(seq) \in Seq(S) /\ DOMAIN Tail(seq) = 1 .. Len(seq) - 1
      /\ \A i \in 1 .. Len(seq) - 1 : Tail(seq)[i] = seq[i + 1]
  BY EmptySeq
<1>2. 1 \in 1 .. Len(seq) /\ Head(seq) \in S
  BY <1>1
<1>3. \A i \in 1 .. Len(seq) - 1 : i + 1 \in 1 .. Len(seq) /\ i + 1 # 1
  BY <1>1
<1>4. \A i \in 1 .. Len(seq) : i = 1 \/ \E j \in 1 .. Len(seq) - 1 : i = j + 1
  <2> SUFFICES ASSUME NEW i \in 1 .. Len(seq), i # 1 PROVE \E j \in 1 .. Len(seq) - 1 : i = j + 1
    OBVIOUS
  <2>1. i - 1 \in 1 .. Len(seq) - 1 /\ i = (i - 1) + 1
    BY <1>1
  <2> QED BY <2>1
<1>5. ToSet(seq) = {Head(seq)} \cup ToSet(Tail(seq))
  <2>1. ASSUME NEW x \in ToSet(seq) PROVE x \in {Head(seq)} \cup ToSet(Tail(seq))
    <3>1. PICK i \in 1 .. Len(seq) : x = seq[i]
      BY <1>1 DEF ToSet
    <3>2. CASE i = 1
      BY <1>1, <3>1, <3>2
    <3>3. CASE i # 1
      <4>1. PICK j \in 1 .. Len(seq) - 1 : i = j + 1
        BY <1>4, <3>3
      <4>2. j \in DOMAIN Tail(seq) /\ x = Tail(seq)[j]
        BY <1>1, <3>1, <4>1
      <4> QED BY <4>2 DEF ToSet
    <3> QED BY <3>2, <3>3
  <2>2. ASSUME NEW x \in {Head(seq)} \cup ToSet(Tail(seq)) PROVE x \in ToSet(seq)
    BY <1>1, <1>2, <1>3 DEF ToSet
  <2> QED BY <2>1, <2>2
<1>6. ASSUME IsInjective(seq) PROVE IsInjective(Tail(seq)) /\ Head(seq) \notin ToSet(Tail(seq))
  <2>1. \A i, j \in 1 .. Len(seq) : seq[i] = seq[j] => i = j
    BY <1>1, <1>6 DEF IsInjective
  <2>2. ASSUME NEW i \in 1 .. Len(seq) - 1, NEW j \in 1 .. Len(seq) - 1,
               Tail(seq)[i] = Tail(seq)[j]
        PROVE  i = j
    <3>1. i + 1 = j + 1
      BY <1>1, <1>3, <2>1, <2>2
    <3> QED BY <1>1, <3>1
  <2>3. \A i \in 1 .. Len(seq) - 1 : Tail(seq)[i] # Head(seq)
    BY <1>1, <1>2, <1>3, <2>1
  <2> QED BY <1>1, <2>2, <2>3 DEF IsInjective, ToSet
<1> QED BY <1>1, <1>2, <1>5, <1>6

-----------------------------------------------------------------------------
(* The queries. *)

QueryRecords ==
    [pc : {"idle", "lookup", "answered", "rejected", "failed"},
     kind : {None, "missing", "get", "batch"}, ask : Seq(Digests), left : Seq(Digests),
     answer : Seq(Digests), hits : Int, misses : Int, held : SUBSET Digests]

(* A batch in progress: the looks taken and the looks to come share no     *)
(* action, and what was there throughout is behind one or the other.       *)
Looking(r) ==
    r.pc = "lookup" =>
        /\ r.kind = "batch"
        /\ IsInjective(r.ask) /\ IsInjective(r.left) /\ IsInjective(r.answer)
        /\ ToSet(r.left) \cap ToSet(r.answer) = {}
        /\ ToSet(r.left) \cup ToSet(r.answer) \subseteq ToSet(r.ask)
        /\ r.held \subseteq results \cap (ToSet(r.left) \cup ToSet(r.answer))
        /\ ToSet(r.answer) \subseteq results
        /\ setup.backend = "postgres" => r.answer = <<>>

StoresTyped ==
    /\ setup \in Setups
    /\ rows \subseteq Digests /\ results \subseteq Digests
    /\ objects \in [Digests -> Nat \cup {None}]
    /\ Representable

QueriesInv ==
    /\ StoresTyped
    /\ query \in [Queries -> QueryRecords]
    /\ \A q \in Queries : Looking(query[q])

(* What QueriesExact asks of an answer. *)
Exact(r) ==
    /\ r.kind = "missing" => r.answer = Kept(r.ask, Digests \ rows)
    /\ r.kind # "missing" =>
            /\ IsInjective(r.answer)
            /\ r.held \subseteq ToSet(r.answer)
            /\ ToSet(r.answer) \subseteq results \cap ToSet(r.ask)
            /\ r.hits = Len(r.answer)
            /\ r.hits + r.misses = Cardinality(ToSet(r.ask))

AnswersExact ==
    \A q \in Queries :
        query[q].pc # "answered" /\ query'[q].pc = "answered" => Exact(query'[q])

(* A step of one query. *)
LEMMA OneQuery ==
    ASSUME QueriesInv, NEW q \in Queries, NEW r \in QueryRecords,
           query' = [query EXCEPT ![q] = r], UNCHANGED <<setup, stores>>,
           Looking(r), query[q].pc # "answered" /\ r.pc = "answered" => Exact(r)
    PROVE  QueriesInv' /\ AnswersExact
<1>1. query' \in [Queries -> QueryRecords] /\ query'[q] = r
      /\ \A o \in Queries \ {q} : query'[o] = query[o]
  BY DEF QueriesInv
<1>2. StoresTyped'
  BY DEF QueriesInv, StoresTyped, Representable, stores
<1>3. \A o \in Queries : Looking(query[o])'
  BY <1>1 DEF QueriesInv, Looking, stores
<1>4. AnswersExact
  BY <1>1 DEF AnswersExact
<1> QED BY <1>1, <1>2, <1>3, <1>4 DEF QueriesInv

LEMMA MissingStep ==
    ASSUME QueriesInv, NEW q \in Queries, NEW seq \in Seq(Digests), missing_blobs(q, seq)
    PROVE  QueriesInv' /\ AnswersExact
<1>1. PICK visible : visible = ToSet(visible_blobs(seq))
  OBVIOUS
<1>2. visible = ToSet(seq) \cap rows
  BY <1>1, VisibleFacts DEF QueriesInv, StoresTyped
<1>3. ToSet(seq) \cap (Digests \ visible) = ToSet(seq) \cap (Digests \ rows)
  BY <1>2
<1>4. Kept(seq, Digests \ visible) = Kept(seq, Digests \ rows)
      /\ Kept(seq, Digests \ visible) \in Seq(Digests)
  BY <1>3, KeptAgrees, KeptFacts
<1>5. PICK r : r = [IdleQuery EXCEPT
            !.pc = IF Len(seq) > MaxBatch THEN "rejected" ELSE "answered",
            !.kind = "missing", !.ask = seq,
            !.answer = IF Len(seq) > MaxBatch THEN <<>> ELSE Kept(seq, Digests \ visible)]
  OBVIOUS
<1>6. query' = [query EXCEPT ![q] = r] /\ UNCHANGED <<setup, stores>>
  BY <1>1, <1>5 DEF missing_blobs, Begin
<1>7. r \in QueryRecords /\ r.pc # "lookup"
  <2>1. PICK pc, answer :
            /\ pc = (IF Len(seq) > MaxBatch THEN "rejected" ELSE "answered")
            /\ answer = (IF Len(seq) > MaxBatch THEN <<>> ELSE Kept(seq, Digests \ visible))
    OBVIOUS
  <2>2. r = [pc |-> pc, kind |-> "missing", ask |-> seq, left |-> <<>>, answer |-> answer,
             hits |-> 0, misses |-> 0, held |-> {}]
    BY <1>5, <2>1 DEF IdleQuery
  <2>3. /\ pc \in {"idle", "lookup", "answered", "rejected", "failed"} /\ pc # "lookup"
        /\ answer \in Seq(Digests) /\ <<>> \in Seq(Digests)
    BY <1>4, <2>1
  <2>4. r \in QueryRecords
    BY <2>2, <2>3 DEF QueryRecords
  <2> QED BY <2>2, <2>3, <2>4
<1>8. r.pc = "answered" => Exact(r)
  <2>1. r.kind = "missing" /\ r.ask = seq
        /\ (r.pc = "answered" => r.answer = Kept(seq, Digests \ visible))
    BY <1>5 DEF IdleQuery
  <2> QED BY <1>4, <2>1 DEF Exact
<1> QED BY <1>6, <1>7, <1>8, OneQuery DEF Looking

LEMMA GetStep ==
    ASSUME QueriesInv, NEW q \in Queries, NEW a \in Digests, get_action_result(q, a)
    PROVE  QueriesInv' /\ AnswersExact
<1>1. PICK r : r = [IdleQuery EXCEPT
            !.pc = "answered", !.kind = "get", !.ask = <<a>>,
            !.answer = IF a \in results THEN <<a>> ELSE <<>>,
            !.hits = IF a \in results THEN 1 ELSE 0,
            !.misses = IF a \in results THEN 0 ELSE 1]
  OBVIOUS
<1>2. query' = [query EXCEPT ![q] = r] /\ UNCHANGED <<setup, stores>>
  BY <1>1 DEF get_action_result, Begin
<1>3. r \in QueryRecords /\ r.pc = "answered"
  <2>1. PICK answer, hits, misses :
            /\ answer = (IF a \in results THEN <<a>> ELSE <<>>)
            /\ hits = (IF a \in results THEN 1 ELSE 0)
            /\ misses = (IF a \in results THEN 0 ELSE 1)
    OBVIOUS
  <2>2. r = [pc |-> "answered", kind |-> "get", ask |-> <<a>>, left |-> <<>>, answer |-> answer,
             hits |-> hits, misses |-> misses, held |-> {}]
    BY <1>1, <2>1 DEF IdleQuery
  <2>3. /\ answer \in Seq(Digests) /\ <<>> \in Seq(Digests) /\ <<a>> \in Seq(Digests)
        /\ hits \in Int /\ misses \in Int
    BY <2>1
  <2> QED BY <2>2, <2>3 DEF QueryRecords
<1>4. /\ r.kind = "get" /\ r.ask = <<a>> /\ r.held = {} /\ r.hits + r.misses = 1
      /\ a \in results => r.answer = <<a>> /\ r.hits = 1
      /\ a \notin results => r.answer = <<>> /\ r.hits = 0
  BY <1>1 DEF IdleQuery
<1>5. ToSet(<<a>>) = {a} /\ IsInjective(<<a>>) /\ Len(<<a>>) = 1
      /\ <<>> \in Seq(Digests) /\ DOMAIN <<>> = {} /\ Len(<<>>) = 0
  BY DEF ToSet, IsInjective
<1>6. ToSet(<<>>) = {} /\ IsInjective(<<>>)
  BY <1>5 DEF ToSet, IsInjective
<1>7. Cardinality({a}) = 1
  BY FS_Singleton
<1>8. Exact(r)
  BY <1>4, <1>5, <1>6, <1>7 DEF Exact
<1> QED BY <1>2, <1>3, <1>8, OneQuery DEF Looking

LEMMA BatchStep ==
    ASSUME QueriesInv, NEW q \in Queries, NEW seq \in Seq(Digests), batch_action_results(q, seq)
    PROVE  QueriesInv' /\ AnswersExact
<1>1. PICK asked : asked = Dedup(seq)
  OBVIOUS
<1>2. asked \in Seq(Digests) /\ IsInjective(asked) /\ ToSet(asked) = ToSet(seq)
  BY <1>1, DedupFacts
<1>3. PICK r : r = [IdleQuery EXCEPT
            !.pc = IF Len(seq) > MaxBatch THEN "rejected" ELSE "lookup",
            !.kind = "batch", !.ask = asked, !.left = asked, !.held = results \cap ToSet(seq)]
  OBVIOUS
<1>4. query' = [query EXCEPT ![q] = r] /\ UNCHANGED <<setup, stores>>
  BY <1>1, <1>3 DEF batch_action_results, Begin
<1>5. results \subseteq Digests
  BY DEF QueriesInv, StoresTyped
<1>6. r \in QueryRecords /\ r.pc # "answered"
  <2>1. PICK pc : pc = (IF Len(seq) > MaxBatch THEN "rejected" ELSE "lookup")
    OBVIOUS
  <2>2. r = [pc |-> pc, kind |-> "batch", ask |-> asked, left |-> asked, answer |-> <<>>,
             hits |-> 0, misses |-> 0, held |-> results \cap ToSet(seq)]
    BY <1>3, <2>1 DEF IdleQuery
  <2>3. /\ pc \in {"idle", "lookup", "answered", "rejected", "failed"} /\ pc # "answered"
        /\ <<>> \in Seq(Digests) /\ results \cap ToSet(seq) \in SUBSET Digests
    BY <1>5, <2>1
  <2>4. r \in QueryRecords
    BY <1>2, <2>2, <2>3 DEF QueryRecords
  <2> QED BY <2>2, <2>3, <2>4
<1>7. <<>> \in Seq(Digests) /\ DOMAIN <<>> = {}
  OBVIOUS
<1>8. ToSet(<<>>) = {} /\ IsInjective(<<>>)
  BY <1>7 DEF ToSet, IsInjective
<1>9. r.kind = "batch" /\ r.ask = asked /\ r.left = asked /\ r.answer = <<>>
      /\ r.held = results \cap ToSet(seq)
  BY <1>3 DEF IdleQuery
<1>10. Looking(r)
  BY <1>2, <1>8, <1>9 DEF Looking
<1> QED BY <1>4, <1>6, <1>10, OneQuery

(* The answer of a batch. *)
LEMMA AnswerStep ==
    ASSUME QueriesInv, NEW q \in Queries, query[q].pc = "lookup", UNCHANGED <<setup, stores>>,
           NEW found \in Seq(Digests), IsInjective(found), query[q].held \subseteq ToSet(found),
           ToSet(found) \subseteq results \cap ToSet(query[q].ask), Answer(q, found)
    PROVE  QueriesInv' /\ AnswersExact
<1>1. query[q] \in QueryRecords /\ Looking(query[q])
  BY DEF QueriesInv
<1>2. PICK ask, held, kind : ask = query[q].ask /\ held = query[q].held /\ kind = query[q].kind
  OBVIOUS
<1>3. ask \in Seq(Digests) /\ IsInjective(ask) /\ held \in SUBSET Digests /\ kind = "batch"
  BY <1>1, <1>2 DEF Looking, QueryRecords
<1>4. PICK r : r = [query[q] EXCEPT !.pc = "answered", !.left = <<>>, !.answer = found,
                       !.hits = Len(found), !.misses = Len(ask) - Len(found)]
  OBVIOUS
<1>5. query' = [query EXCEPT ![q] = r]
  <2>1. query \in [Queries -> QueryRecords]
    BY DEF QueriesInv
  <2> QED BY <1>2, <1>4, <2>1 DEF Answer
<1>6. Len(found) \in Nat /\ Len(ask) \in Nat
  BY <1>3
<1>7. r \in QueryRecords /\ r.pc = "answered"
  <2>1. <<>> \in Seq(Digests) /\ Len(ask) - Len(found) \in Int
    BY <1>6
  <2>2. r = [pc |-> "answered", kind |-> query[q].kind, ask |-> ask, left |-> <<>>,
             answer |-> found, hits |-> Len(found), misses |-> Len(ask) - Len(found),
             held |-> held]
    BY <1>1, <1>2, <1>4 DEF QueryRecords
  <2>3. query[q].kind \in {None, "missing", "get", "batch"}
    BY <1>2, <1>3
  <2>4. r \in QueryRecords
    BY <1>3, <1>6, <2>1, <2>2, <2>3 DEF QueryRecords
  <2> QED BY <2>2, <2>4
<1>8. /\ r.kind = "batch" /\ r.ask = ask /\ r.held = held /\ r.answer = found
      /\ r.hits = Len(found) /\ r.misses = Len(ask) - Len(found)
  BY <1>1, <1>2, <1>3, <1>4 DEF QueryRecords
<1>9. Len(found) + (Len(ask) - Len(found)) = Len(ask)
  BY <1>6
<1>10. Cardinality(ToSet(ask)) = Len(ask)
  BY <1>3, InjectiveCount
<1>11. Exact(r)
  BY <1>2, <1>8, <1>9, <1>10 DEF Exact
<1> QED BY <1>5, <1>7, <1>11, OneQuery DEF Looking

LEMMA MemoryStep ==
    ASSUME QueriesInv, NEW q \in Queries, memory_get_batch(q)
    PROVE  QueriesInv' /\ AnswersExact
<1>1. query[q] \in QueryRecords /\ Looking(query[q]) /\ query[q].pc = "lookup"
      /\ query \in [Queries -> QueryRecords] /\ UNCHANGED <<setup, stores>>
  BY DEF QueriesInv, memory_get_batch
<1>2. PICK seq, found, ask, held :
          seq = query[q].left /\ found = query[q].answer /\ ask = query[q].ask /\ held = query[q].held
  OBVIOUS
<1>3. /\ seq \in Seq(Digests) /\ found \in Seq(Digests) /\ ask \in Seq(Digests) /\ held \in SUBSET Digests
      /\ IsInjective(ask) /\ IsInjective(seq) /\ IsInjective(found) /\ query[q].kind = "batch"
      /\ ToSet(seq) \cap ToSet(found) = {}
      /\ ToSet(seq) \cup ToSet(found) \subseteq ToSet(ask)
      /\ held \subseteq results \cap (ToSet(seq) \cup ToSet(found))
      /\ ToSet(found) \subseteq results
  BY <1>1, <1>2 DEF Looking, QueryRecords
<1>4. CASE seq = <<>> /\ Answer(q, found)
  <2>1. seq = <<>> /\ DOMAIN seq = {}
    BY <1>4
  <2>2. ToSet(seq) = {}
    BY <2>1 DEF ToSet
  <2> QED BY <1>1, <1>2, <1>3, <1>4, <2>2, AnswerStep
<1>5. CASE seq # <<>> /\ query' = [query EXCEPT ![q].left = Tail(seq),
                ![q].answer = IF Head(seq) \in results THEN Append(@, Head(seq)) ELSE @]
  <2>1. PICK more : more = IF Head(seq) \in results THEN Append(found, Head(seq)) ELSE found
    OBVIOUS
  <2>2. PICK r : r = [query[q] EXCEPT !.left = Tail(seq), !.answer = more]
    OBVIOUS
  <2>3. query' = [query EXCEPT ![q] = r]
    BY <1>1, <1>2, <1>5, <2>1, <2>2
  <2>4. /\ Head(seq) \in Digests /\ Tail(seq) \in Seq(Digests)
        /\ ToSet(seq) = {Head(seq)} \cup ToSet(Tail(seq))
        /\ IsInjective(Tail(seq)) /\ Head(seq) \notin ToSet(Tail(seq))
    BY <1>3, <1>5, HeadFacts
  <2>5. /\ Append(found, Head(seq)) \in Seq(Digests)
        /\ ToSet(Append(found, Head(seq))) = ToSet(found) \cup {Head(seq)}
        /\ Head(seq) \notin ToSet(found) => IsInjective(Append(found, Head(seq)))
    BY <1>3, <2>4, AppendFacts
  <2>6. /\ more \in Seq(Digests) /\ IsInjective(more)
        /\ ToSet(more) = ToSet(found) \cup ({Head(seq)} \cap results)
    <3>1. Head(seq) \notin ToSet(found)
      BY <1>3, <2>4
    <3> QED BY <1>3, <2>1, <2>5, <3>1
  <2>7. /\ r.pc = "lookup" /\ r.kind = "batch" /\ r.ask = ask /\ r.held = held
        /\ r.left = Tail(seq) /\ r.answer = more /\ r \in QueryRecords
    BY <1>1, <1>2, <1>3, <2>2, <2>4, <2>6 DEF QueryRecords
  <2>8. setup.backend # "postgres"
    BY DEF memory_get_batch
  <2>9. ToSet(r.left) \cap ToSet(r.answer) = {}
    BY <1>3, <2>4, <2>6, <2>7
  <2>10. ToSet(r.left) \cup ToSet(r.answer) \subseteq ToSet(r.ask)
    BY <1>3, <2>4, <2>6, <2>7
  <2>11. r.held \subseteq results \cap (ToSet(r.left) \cup ToSet(r.answer))
         /\ ToSet(r.answer) \subseteq results
    BY <1>3, <2>4, <2>6, <2>7
  <2>12. Looking(r)
    BY <1>3, <2>4, <2>6, <2>7, <2>8, <2>9, <2>10, <2>11 DEF Looking
  <2> QED BY <1>1, <2>3, <2>7, <2>12, OneQuery
<1> QED BY <1>2, <1>4, <1>5 DEF memory_get_batch

LEMMA PostgresStep ==
    ASSUME QueriesInv, NEW q \in Queries, postgres_get_batch(q)
    PROVE  QueriesInv' /\ AnswersExact
<1>1. query[q] \in QueryRecords /\ Looking(query[q]) /\ query[q].pc = "lookup"
      /\ UNCHANGED <<setup, stores>> /\ setup.backend = "postgres"
  BY DEF QueriesInv, postgres_get_batch
<1>2. PICK seq, found : seq = query[q].left /\ found = Join(seq, results)
  OBVIOUS
<1>3. /\ seq \in Seq(Digests) /\ IsInjective(seq)
      /\ ToSet(seq) \subseteq ToSet(query[q].ask)
      /\ query[q].answer = <<>>
      /\ query[q].held \subseteq results \cap (ToSet(seq) \cup ToSet(query[q].answer))
  BY <1>1, <1>2 DEF Looking, QueryRecords
<1>4. query[q].held \subseteq results \cap ToSet(seq)
  <2>1. DOMAIN query[q].answer = {}
    BY <1>3
  <2>2. ToSet(query[q].answer) = {}
    BY <2>1 DEF ToSet
  <2> QED BY <1>3, <2>2
<1>5. found \in Seq(Digests) /\ IsInjective(found)
      /\ ToSet(found) = (ToSet(seq) \ Unrepresentable) \cap results
  BY <1>2, <1>3, JoinFacts
<1>6. results \cap Unrepresentable = {}
  BY DEF QueriesInv, StoresTyped, Representable
<1>7. query[q].held \subseteq ToSet(found) /\ ToSet(found) \subseteq results \cap ToSet(query[q].ask)
  BY <1>3, <1>4, <1>5, <1>6
<1>8. Answer(q, found)
  BY <1>2 DEF postgres_get_batch
<1> QED BY <1>1, <1>5, <1>7, <1>8, AnswerStep

(* A step of a query, and a step of the stores. *)
LEMMA QuerySteps ==
    ASSUME QueriesInv, NEW q \in Queries, QueryNext(q)
    PROVE  QueriesInv' /\ AnswersExact
<1>1. setup.asks \subseteq Seq(Digests) /\ setup.published \subseteq Digests
  BY SetupsAssumption DEF QueriesInv, StoresTyped
<1>2. CASE query_fails(q)
  <2>1. PICK r : r = [IdleQuery EXCEPT !.pc = "failed"]
    OBVIOUS
  <2>2. query' = [query EXCEPT ![q] = r] /\ UNCHANGED <<setup, stores>>
    BY <1>2, <2>1 DEF query_fails
  <2>3. <<>> \in Seq(Digests)
    OBVIOUS
  <2>4. r \in QueryRecords /\ r.pc = "failed"
    <3>1. r = [pc |-> "failed", kind |-> None, ask |-> <<>>, left |-> <<>>, answer |-> <<>>,
               hits |-> 0, misses |-> 0, held |-> {}]
      BY <2>1 DEF IdleQuery
    <3> QED BY <2>3, <3>1 DEF QueryRecords
  <2> QED BY <2>2, <2>4, OneQuery DEF Looking
<1> QED BY <1>1, <1>2, MissingStep, GetStep, BatchStep, MemoryStep, PostgresStep DEF QueryNext, QueryStep

LEMMA StoreSteps ==
    ASSUME QueriesInv, Environment
    PROVE  QueriesInv' /\ AnswersExact
<1>1. StoresTyped /\ query \in [Queries -> QueryRecords] /\ \A q \in Queries : Looking(query[q])
  BY DEF QueriesInv
<1>2. setup.stored \subseteq Digests /\ setup.published \subseteq Digests
  BY <1>1, SetupsAssumption DEF StoresTyped
<1>3. ASSUME NEW d \in setup.stored, upload(d) \/ copy_pending(d) \/ expire(d)
      PROVE  QueriesInv' /\ AnswersExact
  <2>1. d \in Digests /\ Size[d] \in Nat
    BY <1>2, SizeAssumption
  <2>2. UNCHANGED <<setup, results, query>> /\ rows' \in SUBSET Digests
        /\ objects' \in [Digests -> Nat \cup {None}] /\ rows' \cap Unrepresentable = {}
    BY <1>1, <1>3, <2>1 DEF StoresTyped, Representable, upload, copy_pending, expire
  <2>3. StoresTyped'
    BY <1>1, <2>2 DEF StoresTyped, Representable
  <2>4. \A q \in Queries : Looking(query[q])'
    BY <1>1, <2>2 DEF Looking
  <2> QED BY <1>1, <2>2, <2>3, <2>4 DEF QueriesInv, AnswersExact
<1>4. ASSUME NEW a \in setup.published, publish(a)
      PROVE  QueriesInv' /\ AnswersExact
  <2>1. UNCHANGED <<setup, rows, objects, query>> /\ results \subseteq results'
        /\ results' \in SUBSET Digests /\ results' \cap Unrepresentable = {}
    BY <1>1, <1>2, <1>4 DEF StoresTyped, Representable, publish
  <2>2. StoresTyped'
    BY <1>1, <2>1 DEF StoresTyped, Representable
  <2>3. \A q \in Queries : Looking(query[q])'
    BY <1>1, <2>1 DEF Looking
  <2> QED BY <1>1, <2>1, <2>2, <2>3 DEF QueriesInv, AnswersExact
<1>5. ASSUME NEW d, sweep(d)
      PROVE  QueriesInv' /\ AnswersExact
  <2>1. /\ UNCHANGED <<setup, objects>> /\ setup.backend = "postgres"
        /\ rows' = rows \ {d} /\ results' = results \ {d}
        /\ query' = [q \in Queries |-> [query[q] EXCEPT !.held = @ \ {d}]]
    BY <1>5 DEF sweep
  <2>2. StoresTyped'
    BY <1>1, <2>1 DEF StoresTyped, Representable
  <2>3. ASSUME NEW q \in Queries
        PROVE  /\ query'[q] = [query[q] EXCEPT !.held = @ \ {d}] /\ query'[q] \in QueryRecords
               /\ query'[q].pc = query[q].pc /\ Looking(query[q])'
    <3>1. query[q] \in QueryRecords /\ query'[q] = [query[q] EXCEPT !.held = @ \ {d}]
      BY <1>1, <2>1
    <3>2. query'[q] \in QueryRecords
      BY <3>1 DEF QueryRecords
    <3>3. /\ query'[q].pc = query[q].pc /\ query'[q].kind = query[q].kind
          /\ query'[q].ask = query[q].ask /\ query'[q].left = query[q].left
          /\ query'[q].answer = query[q].answer /\ query'[q].held = query[q].held \ {d}
      BY <3>1 DEF QueryRecords
    <3>4. Looking(query[q])'
      <4> SUFFICES ASSUME query[q].pc = "lookup" PROVE Looking(query[q])'
        BY <3>3 DEF Looking
      <4>1. Looking(query[q])
        BY <1>1
      <4>2. query[q].answer = <<>> /\ DOMAIN query[q].answer = {}
        BY <2>1, <4>1 DEF Looking
      <4>3. ToSet(query[q].answer) = {}
        BY <4>2 DEF ToSet
      <4>4. query'[q].held \subseteq results' \cap (ToSet(query[q].left) \cup ToSet(query[q].answer))
        BY <2>1, <3>3, <4>1 DEF Looking
      <4> QED BY <2>1, <3>3, <4>1, <4>2, <4>3, <4>4 DEF Looking
    <3> QED BY <3>1, <3>2, <3>3, <3>4
  <2>4. query' \in [Queries -> QueryRecords]
    BY <2>1, <2>3
  <2> QED BY <2>2, <2>3, <2>4 DEF QueriesInv, AnswersExact
<1> QED BY <1>3, <1>4, <1>5 DEF Environment

LEMMA QueriesPreserved ==
    ASSUME QueriesInv, [DNext]_dvars
    PROVE  QueriesInv' /\ [AnswersExact]_<<setup, stores, query>>
<1>1. ASSUME UNCHANGED <<setup, stores, query>>
      PROVE  QueriesInv' /\ [AnswersExact]_<<setup, stores, query>>
  BY <1>1 DEF QueriesInv, StoresTyped, Representable, Looking, stores
<1>2. ASSUME NEW k \in Packs, PackNext(k)
      PROVE  UNCHANGED <<setup, stores, query>>
  BY <1>2 DEF PackNext, PackStep, pack_blobs, lookup_visible, announce, yield_magic, blob_ends,
     complete, storage_get, next_entry, chunk, chunk_fails, lookup_fails, drop
<1>3. CASE UNCHANGED dvars
  <2>1. UNCHANGED <<setup, stores, query>>
    BY <1>3 DEF dvars, stores
  <2> QED BY <1>1, <2>1
<1> QED BY <1>1, <1>2, <1>3, QuerySteps, StoreSteps DEF DNext

LEMMA QueriesStart == DInit => QueriesInv
<1> SUFFICES ASSUME QueriesInit PROVE QueriesInv
  BY DEF DInit
<1>1. StoresTyped
  BY DEF QueriesInit, StoresTyped, Representable
<1>2. <<>> \in Seq(Digests)
  OBVIOUS
<1>3. IdleQuery \in QueryRecords /\ IdleQuery.pc = "idle"
  BY <1>2 DEF QueryRecords, IdleQuery
<1> QED BY <1>1, <1>3 DEF QueriesInit, QueriesInv, Looking

(* Though the stores change under them, and memory:// looks at one action  *)
(* after another, the answers of blobs:missing, action-results and         *)
(* action-results:batch are exact, and so are the hits and misses counted. *)
THEOREM QueriesAnswerExactly == DSafeSpec => QueriesExact
<1>1. AnswersExact =>
        \A q \in Queries :
          LET after == query'[q] IN
          query[q].pc # "answered" /\ after.pc = "answered" =>
            /\ after.kind = "missing" => after.answer = Kept(after.ask, Digests \ rows)
            /\ after.kind # "missing" =>
                    /\ IsInjective(after.answer)
                    /\ after.held \subseteq ToSet(after.answer)
                    /\ ToSet(after.answer) \subseteq results \cap ToSet(after.ask)
                    /\ after.hits = Len(after.answer)
                    /\ after.hits + after.misses = Cardinality(ToSet(after.ask))
  BY DEF AnswersExact, Exact
<1> QED BY <1>1, QueriesStart, QueriesPreserved, PTL DEF DSafeSpec, QueriesExact

-----------------------------------------------------------------------------
(* The length of a pack. *)

(* The sums of sizes, number by number. *)
LEMMA SumsAdd ==
    ASSUME NEW seq \in Seq(Digests)
    PROVE  /\ Sums(seq)[0] = 0
           /\ \A i \in 0 .. Len(seq) : Sums(seq)[i] \in Nat
           /\ \A i \in 1 .. Len(seq) : Sums(seq)[i] = Sums(seq)[i - 1] + Size[seq[i]]
<1> DEFINE Adds(sum) == sum = [i \in 0 .. Len(seq) |->
                            IF i = 0 THEN 0 ELSE sum[i - 1] + Size[seq[i]]]
           F == [i \in 1 .. Len(seq) |-> [x \in Nat |-> x + Size[seq[i]]]]
           s == CHOOSE sum : Adds(sum)
<1>1. Len(seq) \in Nat /\ \A i \in 1 .. Len(seq) : Size[seq[i]] \in Nat
  BY SizeAssumption
<1>2. F \in [1 .. Len(seq) -> [Nat -> Nat]]
  BY <1>1
<1>3. PICK g \in [0 .. Len(seq) -> Nat] : Iterates(0, F, Len(seq), g)
  <2> HIDE DEF F
  <2> QED BY <1>1, <1>2, IterationExists
<1>4. Adds(g)
  <2>1. ASSUME NEW i \in 1 .. Len(seq) PROVE F[i][g[i - 1]] = g[i - 1] + Size[seq[i]]
    <3>1. i - 1 \in 0 .. Len(seq)
      BY <1>1
    <3> QED BY <3>1
  <2>2. \A i \in 0 .. Len(seq) : i # 0 => i \in 1 .. Len(seq)
    BY <1>1
  <2>3. g = [i \in 0 .. Len(seq) |-> IF i = 0 THEN 0 ELSE F[i][g[i - 1]]]
    BY <1>3 DEF Iterates
  <2> HIDE DEF F
  <2>4. \A i \in 0 .. Len(seq) : g[i] = IF i = 0 THEN 0 ELSE g[i - 1] + Size[seq[i]]
    BY <2>1, <2>2, <2>3
  <2> QED BY <2>4
<1>5. Adds(s)
  <2> HIDE DEF Adds
  <2> QED BY <1>4
<1>6. Sums(seq) = s
  BY Zenon DEF Sums
<1>7. PICK sum : sum = Sums(seq)
  OBVIOUS
<1>8. \A i \in 0 .. Len(seq) : sum[i] = IF i = 0 THEN 0 ELSE sum[i - 1] + Size[seq[i]]
  <2> HIDE DEF s
  <2> QED BY <1>5, <1>6, <1>7
<1>9. 0 \in 0 .. Len(seq) /\ \A i \in 1 .. Len(seq) : i # 0 /\ i \in 0 .. Len(seq)
  BY <1>1
<1>10. sum[0] = 0 /\ \A i \in 1 .. Len(seq) : sum[i] = sum[i - 1] + Size[seq[i]]
  BY <1>8, <1>9
<1> DEFINE Good == {i \in 0 .. Len(seq) : sum[i] \in Nat}
<1>11. 0 \in Good
  BY <1>9, <1>10
<1>12. ASSUME NEW i \in 1 .. Len(seq), i - 1 \in Good PROVE i \in Good
  <2>1. sum[i - 1] \in Nat /\ Size[seq[i]] \in Nat /\ i \in 0 .. Len(seq)
    BY <1>1, <1>9, <1>12
  <2>2. sum[i] = sum[i - 1] + Size[seq[i]]
    BY <1>10
  <2> QED BY <2>1, <2>2
<1>13. 0 .. Len(seq) \subseteq Good
  <2> HIDE DEF Good
  <2> QED BY <1>1, <1>11, <1>12, UpTo
<1> QED BY <1>7, <1>10, <1>13

(* The bytes of a pack up to the end of its i-th frame. *)
Due(seq, i) == MagicLen + i * HeaderLen + Sums(seq)[i]

(* They grow with every frame, an empty one included. *)
LEMMA DueGrows ==
    ASSUME NEW seq \in Seq(Digests)
    PROVE  /\ Due(seq, 0) = MagicLen
           /\ \A i \in 0 .. Len(seq) : Due(seq, i) \in Nat
           /\ \A i \in 1 .. Len(seq) : Due(seq, i) = Due(seq, i - 1) + HeaderLen + Size[seq[i]]
           /\ \A i, j \in 0 .. Len(seq) : i < j => Due(seq, i) < Due(seq, j)
<1>1. /\ MagicLen \in Nat /\ HeaderLen \in Nat /\ HeaderLen > 0 /\ Len(seq) \in Nat
      /\ \A i \in 1 .. Len(seq) : Size[seq[i]] \in Nat
  BY FormatAssumption, SizeAssumption
<1>2. /\ Sums(seq)[0] = 0
      /\ \A i \in 0 .. Len(seq) : Sums(seq)[i] \in Nat
      /\ \A i \in 1 .. Len(seq) : Sums(seq)[i] = Sums(seq)[i - 1] + Size[seq[i]]
  BY SumsAdd
<1>3. \A i \in Nat : i * HeaderLen \in Nat
  BY <1>1
<1>4. 0 * HeaderLen = 0
  BY <1>1
<1>5. Due(seq, 0) = MagicLen
  BY <1>1, <1>2, <1>4 DEF Due
<1>6. ASSUME NEW i \in 0 .. Len(seq) PROVE Due(seq, i) \in Nat
  <2>0. i \in Nat
    BY <1>1
  <2>1. i * HeaderLen \in Nat /\ Sums(seq)[i] \in Nat
    BY <1>2, <1>3, <2>0
  <2> QED BY <1>1, <2>1 DEF Due
<1>7. ASSUME NEW i \in 1 .. Len(seq)
      PROVE  Due(seq, i) = Due(seq, i - 1) + HeaderLen + Size[seq[i]]
  <2>1. i - 1 \in Nat /\ i - 1 \in 0 .. Len(seq) /\ i \in 0 .. Len(seq)
    BY <1>1
  <2>2. i * HeaderLen = (i - 1) * HeaderLen + HeaderLen /\ (i - 1) * HeaderLen \in Nat
    BY <1>1, <2>1
  <2>3. Sums(seq)[i] = Sums(seq)[i - 1] + Size[seq[i]] /\ Sums(seq)[i - 1] \in Nat /\ Size[seq[i]] \in Nat
    BY <1>1, <1>2, <2>1
  <2> QED BY <1>1, <2>2, <2>3 DEF Due
<1> DEFINE Good == {j \in 0 .. Len(seq) : \A i \in 0 .. Len(seq) : i < j => Due(seq, i) < Due(seq, j)}
<1>8. 0 \in Good
  BY <1>1
<1>9. ASSUME NEW j \in 1 .. Len(seq), j - 1 \in Good PROVE j \in Good
  <2>1. j \in 0 .. Len(seq) /\ j - 1 \in 0 .. Len(seq)
    BY <1>1
  <2>2. Due(seq, j) \in Nat /\ Due(seq, j - 1) \in Nat /\ Size[seq[j]] \in Nat
    BY <1>1, <1>6, <2>1
  <2>3. Due(seq, j - 1) < Due(seq, j)
    BY <1>1, <1>7, <2>2
  <2>4. ASSUME NEW i \in 0 .. Len(seq), i < j PROVE Due(seq, i) < Due(seq, j)
    <3>1. CASE i = j - 1
      BY <2>3, <3>1
    <3>2. CASE i < j - 1
      <4>1. Due(seq, i) < Due(seq, j - 1) /\ Due(seq, i) \in Nat
        BY <1>6, <1>9, <3>2
      <4> QED BY <2>2, <2>3, <4>1
    <3> QED BY <1>1, <2>4, <3>1, <3>2
  <2> QED BY <2>1, <2>4
<1>10. 0 .. Len(seq) \subseteq Good
  <2> HIDE DEF Good
  <2> QED BY <1>1, <1>8, <1>9, UpTo
<1> QED BY <1>5, <1>6, <1>7, <1>10

-----------------------------------------------------------------------------
(* The packs. *)

Begun == Streaming \cup {"ending", "closed"}
Frames == [digest : Digests, bytes : Nat]

PackRecords ==
    [pc : {"idle", "lookup", "access"} \cup Streaming \cup Over,
     ask : Seq(Digests), entries : Seq(Digests), announced : Nat,
     reads : Seq(Reads \cup {None}), frames : Seq(Frames), sent : Nat]

(* The frames are those of the first entries, all but the last whole, and  *)
(* the last one too when the next is about to be begun.                    *)
FramesOK(p) ==
    /\ Len(p.frames) <= Len(p.entries)
    /\ \A i \in 1 .. Len(p.frames) :
        /\ p.frames[i].digest = p.entries[i]
        /\ p.frames[i].bytes <= Size[p.entries[i]]
        /\ i < Len(p.frames) \/ p.pc = "next" => p.frames[i].bytes = Size[p.entries[i]]

(* What has been sent is the frames. *)
SentOK(p) ==
    /\ p.frames = <<>> => p.sent \in {0, MagicLen}
    /\ p.frames = <<>> /\ p.pc = "next" => p.sent = MagicLen
    /\ p.frames # <<>> =>
        p.sent = Due(p.entries, Len(p.frames) - 1) + HeaderLen + p.frames[Len(p.frames)].bytes

(* The gets: one per entry; the blob being sent was found, and fits. *)
ReadsOK(p) ==
    /\ p.pc \in Streaming => Len(p.reads) = Len(p.entries)
    /\ p.pc = "announced" => p.frames = <<>>
    /\ p.pc = "blob" =>
        /\ p.frames # <<>>
        /\ p.reads[Len(p.frames)] # None
        /\ p.reads[Len(p.frames)].size = Size[p.entries[Len(p.frames)]]

PackOK(p, g) ==
    /\ g = "live" <=> p.pc \in Streaming
    /\ g \in Outcomes <=> p.pc \in {"ending", "closed"}
    /\ IsInjective(p.ask) /\ IsInjective(p.entries)
    /\ p.pc \in {"lookup", "access"} => p.frames = <<>> /\ p.sent = 0
    /\ p.pc \in Begun =>
        /\ p.announced = Due(p.entries, Len(p.entries))
        /\ FramesOK(p) /\ SentOK(p) /\ ReadsOK(p)
        /\ g = "completed" => p.sent = p.announced

(* The gauge and the counters, by the guards. *)
Counted ==
    /\ in_flight = Cardinality({k \in Packs : guard[k] = "live"})
    /\ \A o \in Outcomes : ended[o] = Cardinality({k \in Packs : guard[k] = o})

PacksInv ==
    /\ pack \in [Packs -> PackRecords]
    /\ guard \in [Packs -> {None, "live"} \cup Outcomes]
    /\ ended \in [Outcomes -> Nat]
    /\ \A k \in Packs : PackOK(pack[k], guard[k])
    /\ Counted

(* The packs with one guard. *)
Of(e, c) == {k \in Packs : e[k] = c}

(* One member of f turns from a to b. *)
LEMMA CountTurns ==
    ASSUME NEW G, NEW f \in [Packs -> G], NEW h \in [Packs -> G], NEW k \in Packs,
           NEW a \in G, NEW b \in G, a # b, f[k] = a, h[k] = b,
           \A l \in Packs \ {k} : h[l] = f[l]
    PROVE  /\ Cardinality(Of(h, b)) = Cardinality(Of(f, b)) + 1
           /\ Cardinality(Of(h, a)) = Cardinality(Of(f, a)) - 1
           /\ \A c : c # a /\ c # b => Of(h, c) = Of(f, c)
           /\ \A c : Cardinality(Of(f, c)) \in Nat
<1>1. \A c : IsFiniteSet(Of(f, c))
  BY PacksAssumption, FS_Subset DEF Of
<1>2. f[k] = a /\ h[k] = b /\ a # b /\ \A l \in Packs \ {k} : h[l] = f[l]
  OBVIOUS
<1>3. Of(h, b) = Of(f, b) \cup {k} /\ k \notin Of(f, b)
  BY <1>2 DEF Of
<1>4. Of(h, a) = Of(f, a) \ {k} /\ k \in Of(f, a)
  BY <1>2 DEF Of
<1>5. \A c : c # a /\ c # b => Of(h, c) = Of(f, c)
  BY <1>2 DEF Of
<1>6. Cardinality(Of(h, b)) = Cardinality(Of(f, b)) + 1
  BY <1>1, <1>3, FS_AddElement
<1>7. Cardinality(Of(h, a)) = Cardinality(Of(f, a)) - 1
  <2>1. IsFiniteSet(Of(f, a)) /\ k \in Of(f, a)
    BY <1>1, <1>4
  <2>2. Cardinality(Of(f, a) \ {k}) = Cardinality(Of(f, a)) - 1
    BY <2>1, FS_RemoveElement
  <2> QED BY <1>4, <2>2
<1>8. \A c : Cardinality(Of(f, c)) \in Nat
  BY <1>1, FS_CardinalityType
<1> QED BY <1>5, <1>6, <1>7, <1>8

(* The guard and its counters over a step that starts or finishes. *)
LEMMA GuardStarts ==
    ASSUME PacksInv, NEW k \in Packs, guard[k] = None, start_pack(k)
    PROVE  /\ guard' = [guard EXCEPT ![k] = "live"]
           /\ guard' \in [Packs -> {None, "live"} \cup Outcomes]
           /\ ended' \in [Outcomes -> Nat] /\ Counted'
<1> DEFINE G == {None, "live"} \cup Outcomes
<1>1. guard \in [Packs -> G] /\ guard' = [guard EXCEPT ![k] = "live"] /\ "live" \in G
      /\ in_flight' = in_flight + 1 /\ ended' = ended
  BY DEF PacksInv, start_pack
<1>2. None # "live" /\ \A o \in Outcomes : o # None /\ o # "live"
  BY NoneAssumption DEF Outcomes
<1>3. guard' \in [Packs -> G]
  BY <1>1
<1> HIDE DEF G
<1>4. PICK f, h \in [Packs -> G] : f = guard /\ h = guard'
  BY <1>1, <1>3
<1>0. /\ h[k] = "live" /\ (\A l \in Packs \ {k} : h[l] = f[l]) /\ f[k] = None /\ None # "live"
       /\ None \in G /\ "live" \in G
  BY <1>1, <1>2, <1>4 DEF G
<1>5. /\ Cardinality(Of(h, "live")) = Cardinality(Of(f, "live")) + 1
      /\ \A c : c # None /\ c # "live" => Of(h, c) = Of(f, c)
  BY <1>0, CountTurns, SMTT(20)
<1>6. Counted'
  BY <1>1, <1>2, <1>4, <1>5 DEF PacksInv, Counted, Of
<1> QED BY <1>1, <1>3, <1>6 DEF PacksInv, G

LEMMA GuardFinishes ==
    ASSUME PacksInv, NEW k \in Packs, guard[k] = "live", NEW o \in Outcomes, finish(k, o)
    PROVE  /\ guard' = [guard EXCEPT ![k] = o]
           /\ guard' \in [Packs -> {None, "live"} \cup Outcomes]
           /\ ended' \in [Outcomes -> Nat] /\ Counted'
<1> DEFINE G == {None, "live"} \cup Outcomes
<1>1. guard \in [Packs -> G] /\ guard' = [guard EXCEPT ![k] = o] /\ o \in G
      /\ in_flight' = in_flight - 1 /\ ended' = [ended EXCEPT ![o] = @ + 1]
      /\ ended \in [Outcomes -> Nat]
  BY DEF PacksInv, finish
<1>2. "live" # o /\ \A x \in Outcomes : x # "live"
  BY DEF Outcomes
<1>3. guard' \in [Packs -> G] /\ ended' \in [Outcomes -> Nat]
      /\ ended'[o] = ended[o] + 1 /\ \A x \in Outcomes \ {o} : ended'[x] = ended[x]
  BY <1>1
<1> HIDE DEF G
<1>4. PICK f, h \in [Packs -> G] : f = guard /\ h = guard'
  BY <1>1, <1>3
<1>0. /\ h[k] = o /\ (\A l \in Packs \ {k} : h[l] = f[l]) /\ f[k] = "live" /\ "live" # o
       /\ "live" \in G /\ o \in G
  BY <1>1, <1>2, <1>4 DEF G
<1>5. /\ Cardinality(Of(h, o)) = Cardinality(Of(f, o)) + 1
      /\ Cardinality(Of(h, "live")) = Cardinality(Of(f, "live")) - 1
      /\ \A c : c # "live" /\ c # o => Of(h, c) = Of(f, c)
  BY <1>0, CountTurns, SMTT(20)
<1>6. \A x \in Outcomes : ended'[x] = Cardinality(Of(h, x))
  <2>1. \A x \in Outcomes : ended[x] = Cardinality(Of(f, x))
    BY <1>4 DEF PacksInv, Counted, Of
  <2>2. ended'[o] = Cardinality(Of(h, o))
    BY <1>3, <1>5, <2>1
  <2>3. ASSUME NEW x \in Outcomes \ {o} PROVE ended'[x] = Cardinality(Of(h, x))
    <3>1. Of(h, x) = Of(f, x)
      BY <1>2, <1>5
    <3> QED BY <1>3, <2>1, <3>1
  <2> QED BY <2>2, <2>3
<1>7. in_flight' = Cardinality(Of(h, "live"))
  BY <1>1, <1>4, <1>5 DEF PacksInv, Counted, Of
<1> QED BY <1>1, <1>3, <1>4, <1>6, <1>7 DEF Counted, G, Of

(* A step of one pack: its guard stays as it is, or is finished. *)
LEMMA QuietPack ==
    ASSUME PacksInv, NEW k \in Packs, NEW p \in PackRecords,
           pack' = [pack EXCEPT ![k] = p], UNCHANGED metrics, PackOK(p, guard[k])
    PROVE  PacksInv'
<1>1. UNCHANGED <<guard, in_flight, ended>>
  BY DEF metrics
<1>2. pack' \in [Packs -> PackRecords] /\ pack'[k] = p /\ \A l \in Packs \ {k} : pack'[l] = pack[l]
  BY DEF PacksInv
<1>3. \A l \in Packs : PackOK(pack'[l], guard'[l])
  BY <1>1, <1>2 DEF PacksInv
<1>4. Counted'
  BY <1>1 DEF PacksInv, Counted
<1> QED BY <1>1, <1>2, <1>3, <1>4 DEF PacksInv

LEMMA EndingPack ==
    ASSUME PacksInv, NEW k \in Packs, NEW p \in PackRecords, NEW o \in Outcomes,
           pack' = [pack EXCEPT ![k] = p], guard[k] = "live", finish(k, o), PackOK(p, o)
    PROVE  PacksInv'
<1>1. /\ guard' = [guard EXCEPT ![k] = o]
      /\ guard' \in [Packs -> {None, "live"} \cup Outcomes]
      /\ ended' \in [Outcomes -> Nat] /\ Counted'
  BY GuardFinishes
<1>2. pack' \in [Packs -> PackRecords] /\ pack'[k] = p /\ \A l \in Packs \ {k} : pack'[l] = pack[l]
  BY DEF PacksInv
<1>3. guard'[k] = o /\ \A l \in Packs \ {k} : guard'[l] = guard[l]
  BY <1>1 DEF PacksInv
<1>4. \A l \in Packs : PackOK(pack'[l], guard'[l])
  BY <1>2, <1>3 DEF PacksInv
<1> QED BY <1>1, <1>2, <1>4 DEF PacksInv

(* The record of a pack that another one is made from. *)
LEMMA PackFields ==
    ASSUME NEW p \in PackRecords
    PROVE  /\ p.pc \in {"idle", "lookup", "access"} \cup Streaming \cup Over
           /\ p.ask \in Seq(Digests) /\ p.entries \in Seq(Digests)
           /\ p.announced \in Nat /\ p.sent \in Nat
           /\ p.reads \in Seq(Reads \cup {None}) /\ p.frames \in Seq(Frames)
           /\ Len(p.entries) \in Nat /\ Len(p.frames) \in Nat /\ Len(p.reads) \in Nat
           /\ DOMAIN p.reads = 1 .. Len(p.reads)
<1>1. /\ p.pc \in {"idle", "lookup", "access"} \cup Streaming \cup Over
      /\ p.ask \in Seq(Digests) /\ p.entries \in Seq(Digests)
      /\ p.announced \in Nat /\ p.sent \in Nat
      /\ p.reads \in Seq(Reads \cup {None}) /\ p.frames \in Seq(Frames)
  BY DEF PackRecords
<1> QED BY <1>1

LEMMA AskedPack ==
    ASSUME NEW pc \in {"idle", "lookup", "rejected", "failed"}, NEW ask \in Seq(Digests),
           NEW p, p = [IdlePack EXCEPT !.pc = pc, !.ask = ask]
    PROVE  p = [pc |-> pc, ask |-> ask, entries |-> <<>>, announced |-> 0,
                reads |-> <<>>, frames |-> <<>>, sent |-> 0]
  BY DEF IdlePack

(* An idle, a refused and a failed pack. *)
LEMMA IdlePacks ==
    ASSUME NEW pc \in {"idle", "lookup", "rejected", "failed"}, NEW ask \in Seq(Digests),
           IsInjective(ask), NEW g, g # "live", g \notin Outcomes, NEW none, none = <<>>,
           NEW p, p = [pc |-> pc, ask |-> ask, entries |-> none, announced |-> 0,
                       reads |-> none, frames |-> none, sent |-> 0]
    PROVE  p \in PackRecords /\ PackOK(p, g)
<1>1. none \in Seq(Digests) /\ none \in Seq(Reads \cup {None}) /\ none \in Seq(Frames)
      /\ DOMAIN none = {}
  OBVIOUS
<1>2. pc \in {"idle", "lookup", "access"} \cup Streaming \cup Over /\ pc \notin Begun
      /\ pc \notin Streaming /\ pc \notin {"ending", "closed"}
  BY DEF Streaming, Over, Begun
<1>3. IsInjective(none)
  BY <1>1 DEF IsInjective
<1>4. p.pc = pc /\ p.ask = ask /\ p.entries = none /\ p.frames = none /\ p.sent = 0
  OBVIOUS
<1>5. p \in PackRecords
  BY <1>1, <1>2 DEF PackRecords
<1> QED BY <1>2, <1>3, <1>4, <1>5 DEF PackOK

LEMMA PackStarts ==
    ASSUME PacksInv, NEW k \in Packs, NEW seq \in Seq(Digests), pack_blobs(k, seq)
    PROVE  PacksInv'
<1>1. Dedup(seq) \in Seq(Digests) /\ IsInjective(Dedup(seq))
  BY DedupFacts
<1>2. PICK pc, ask, none, p :
        /\ pc = (IF Len(seq) > MaxBatch \/ Total(Dedup(seq)) > MaxBlobBytes
                 THEN "rejected" ELSE "lookup")
        /\ ask = Dedup(seq) /\ none = <<>> /\ p = [IdlePack EXCEPT !.pc = pc, !.ask = ask]
  OBVIOUS
<1>3. pack' = [pack EXCEPT ![k] = p] /\ UNCHANGED metrics /\ pack[k].pc = "idle"
  BY <1>2 DEF pack_blobs
<1>4. pc \in {"idle", "lookup", "rejected", "failed"}
  BY <1>2
<1>5. guard[k] # "live" /\ guard[k] \notin Outcomes
  BY <1>3 DEF PacksInv, PackOK, Streaming
<1>6. p \in PackRecords /\ PackOK(p, guard[k])
  <2>1. p = [pc |-> pc, ask |-> ask, entries |-> <<>>, announced |-> 0,
             reads |-> <<>>, frames |-> <<>>, sent |-> 0]
    BY <1>1, <1>2, <1>4, AskedPack
  <2>2. p = [pc |-> pc, ask |-> ask, entries |-> none, announced |-> 0,
             reads |-> none, frames |-> none, sent |-> 0]
    BY <1>2, <2>1
  <2>3. none = <<>> /\ ask \in Seq(Digests) /\ IsInjective(ask)
    BY <1>1, <1>2
  <2> QED BY <1>4, <1>5, <2>2, <2>3, IdlePacks
<1> QED BY <1>3, <1>6, QuietPack

LEMMA PackLookupFails ==
    ASSUME PacksInv, NEW k \in Packs, lookup_fails(k)
    PROVE  PacksInv'
<1>1. PICK ask, p :
        /\ ask = <<>>
        /\ p = [pc |-> "failed", ask |-> ask, entries |-> ask, announced |-> 0,
                reads |-> ask, frames |-> ask, sent |-> 0]
  OBVIOUS
<1>2. p = [IdlePack EXCEPT !.pc = "failed"]
  BY <1>1 DEF IdlePack
<1>3. pack' = [pack EXCEPT ![k] = p] /\ UNCHANGED metrics /\ pack[k].pc \in {"lookup", "access"}
  BY <1>2 DEF lookup_fails
<1>4. ask \in Seq(Digests) /\ DOMAIN ask = {}
  BY <1>1
<1>5. IsInjective(ask)
  BY <1>4 DEF IsInjective
<1>6. guard[k] # "live" /\ guard[k] \notin Outcomes
  BY <1>3 DEF PacksInv, PackOK, Streaming
<1>7. p \in PackRecords /\ PackOK(p, guard[k])
  BY <1>1, <1>4, <1>5, <1>6, IdlePacks
<1> QED BY <1>3, <1>7, QuietPack

LEMMA PackLooksUp ==
    ASSUME PacksInv, QueriesInv, NEW k \in Packs, lookup_visible(k)
    PROVE  PacksInv'
<1>1. pack[k] \in PackRecords /\ PackOK(pack[k], guard[k]) /\ pack \in [Packs -> PackRecords]
  BY DEF PacksInv
<1>2. PICK o, entries : o = pack[k] /\ entries = visible_blobs(pack[k].ask)
  OBVIOUS
<1>3. PICK p : p = [o EXCEPT !.pc = "access", !.entries = entries]
  OBVIOUS
<1>4. pack' = [pack EXCEPT ![k] = p] /\ UNCHANGED metrics /\ o.pc = "lookup"
  BY <1>1, <1>2, <1>3 DEF lookup_visible
<1>5. o.ask \in Seq(Digests) /\ IsInjective(o.ask)
  BY <1>1, <1>2, PackFields DEF PackOK
<1>6. entries \in Seq(Digests) /\ IsInjective(entries)
  BY <1>2, <1>5, VisibleFacts DEF QueriesInv, StoresTyped
<1>7. p \in PackRecords /\ p.pc = "access" /\ p.entries = entries /\ p.ask = o.ask
      /\ p.frames = o.frames /\ p.sent = o.sent
  BY <1>1, <1>2, <1>3, <1>6 DEF PackRecords
<1>8. PackOK(p, guard[k])
  BY <1>1, <1>2, <1>4, <1>5, <1>6, <1>7 DEF PackOK, Begun, Streaming
<1> QED BY <1>4, <1>7, <1>8, QuietPack

LEMMA PackAnnounces ==
    ASSUME PacksInv, NEW k \in Packs, announce(k)
    PROVE  PacksInv'
<1>1. pack[k] \in PackRecords /\ PackOK(pack[k], guard[k]) /\ pack \in [Packs -> PackRecords]
      /\ guard[k] \in {None, "live"} \cup Outcomes
  BY DEF PacksInv
<1>2. PICK o, n, reads, total : o = pack[k] /\ n = Len(o.entries) /\ reads = [i \in DOMAIN o.entries |-> None]
                      /\ total = MagicLen + n * HeaderLen + Total(o.entries)
  OBVIOUS
<1>3. PICK p : p = [o EXCEPT !.pc = "announced", !.announced = total, !.reads = reads]
  OBVIOUS
<1>4. pack' = [pack EXCEPT ![k] = p] /\ start_pack(k) /\ o.pc = "access"
  BY <1>1, <1>2, <1>3 DEF announce
<1>5. guard[k] = None
  BY <1>1, <1>2, <1>4 DEF PackOK, Streaming
<1>6. /\ guard' = [guard EXCEPT ![k] = "live"]
      /\ guard' \in [Packs -> {None, "live"} \cup Outcomes]
      /\ ended' \in [Outcomes -> Nat] /\ Counted'
  BY <1>4, <1>5, GuardStarts
<1>7. o \in PackRecords /\ o.entries \in Seq(Digests) /\ n \in Nat /\ o.frames = <<>> /\ o.sent = 0
      /\ IsInjective(o.ask) /\ IsInjective(o.entries)
  BY <1>1, <1>2, <1>4, PackFields DEF PackOK
<1>8. total = Due(o.entries, n) /\ total \in Nat
  <2>1. n \in 0 .. Len(o.entries)
    BY <1>2, <1>7
  <2>2. Due(o.entries, n) \in Nat
    BY <1>7, <2>1, DueGrows
  <2>3. total = Due(o.entries, n)
    BY <1>2 DEF Due, Total
  <2> QED BY <2>2, <2>3
<1>9. reads \in Seq(Reads \cup {None}) /\ Len(reads) = n
  BY <1>2, <1>7
<1>10. p \in PackRecords /\ p.pc = "announced" /\ p.announced = total /\ p.reads = reads
       /\ p.entries = o.entries /\ p.ask = o.ask /\ p.frames = o.frames /\ p.sent = o.sent
  BY <1>3, <1>7, <1>8, <1>9 DEF PackRecords, Streaming
<1>11. Len(p.frames) = 0 /\ 1 .. Len(p.frames) = {} /\ Len(p.entries) = n
  BY <1>2, <1>7, <1>10
<1>12. FramesOK(p) /\ SentOK(p) /\ ReadsOK(p)
  BY <1>2, <1>7, <1>9, <1>10, <1>11 DEF FramesOK, SentOK, ReadsOK
<1>13. "live" \notin Outcomes /\ "announced" \in Streaming
       /\ "announced" \notin {"ending", "closed", "lookup", "access"}
  BY DEF Outcomes, Streaming
<1>14. PackOK(p, "live")
  BY <1>7, <1>8, <1>10, <1>11, <1>12, <1>13 DEF PackOK
<1>15. pack' \in [Packs -> PackRecords] /\ pack'[k] = p /\ \A l \in Packs \ {k} : pack'[l] = pack[l]
  BY <1>1, <1>4, <1>10
<1>16. guard'[k] = "live" /\ \A l \in Packs \ {k} : guard'[l] = guard[l]
  BY <1>6 DEF PacksInv
<1>17. \A l \in Packs : PackOK(pack'[l], guard'[l])
  BY <1>14, <1>15, <1>16 DEF PacksInv
<1> QED BY <1>6, <1>15, <1>17 DEF PacksInv

LEMMA PackYieldsMagic ==
    ASSUME PacksInv, NEW k \in Packs, yield_magic(k)
    PROVE  PacksInv'
<1>1. pack[k] \in PackRecords /\ PackOK(pack[k], guard[k]) /\ pack \in [Packs -> PackRecords]
  BY DEF PacksInv
<1>2. PICK o : o = pack[k]
  OBVIOUS
<1>3. PICK p : p = [o EXCEPT !.pc = "next", !.sent = MagicLen]
  OBVIOUS
<1>4. pack' = [pack EXCEPT ![k] = p] /\ UNCHANGED metrics /\ o.pc = "announced"
  BY <1>1, <1>2, <1>3 DEF yield_magic
<1>5. MagicLen \in Nat
  BY FormatAssumption
<1>6. p \in PackRecords /\ p.pc = "next" /\ p.announced = o.announced /\ p.reads = o.reads
      /\ p.entries = o.entries /\ p.ask = o.ask /\ p.frames = o.frames /\ p.sent = MagicLen
  BY <1>1, <1>2, <1>3, <1>5 DEF PackRecords, Streaming
<1>7. /\ o.pc \in Streaming /\ o.pc \in Begun /\ p.pc \in Streaming /\ p.pc \in Begun
      /\ o.pc \notin {"ending", "closed"} /\ p.pc \notin {"ending", "closed", "lookup", "access"}
  BY <1>4, <1>6 DEF Streaming, Begun
<1>8. PackOK(o, guard[k])
  BY <1>1, <1>2
<1>9. o.frames = <<>> /\ Len(o.reads) = Len(o.entries) /\ guard[k] = "live" /\ guard[k] # "completed"
  BY <1>4, <1>7, <1>8 DEF PackOK, ReadsOK
<1>10. Len(p.frames) = 0 /\ 1 .. Len(p.frames) = {} /\ p.frames = <<>> /\ 0 <= Len(p.entries)
  BY <1>6, <1>9, PackFields
<1>11. FramesOK(p) /\ SentOK(p) /\ ReadsOK(p)
  BY <1>6, <1>9, <1>10 DEF FramesOK, SentOK, ReadsOK
<1>12. PackOK(p, guard[k])
  BY <1>6, <1>7, <1>8, <1>9, <1>11 DEF PackOK
<1> QED BY <1>4, <1>6, <1>12, QuietPack

LEMMA PackGets ==
    ASSUME PacksInv, NEW k \in Packs, NEW i \in DOMAIN pack[k].reads, storage_get(k, i),
           objects \in [Digests -> Nat \cup {None}]
    PROVE  PacksInv'
<1>1. pack[k] \in PackRecords /\ PackOK(pack[k], guard[k]) /\ pack \in [Packs -> PackRecords]
  BY DEF PacksInv
<1>2. PICK o : o = pack[k]
  OBVIOUS
<1>31. PICK stored : stored = objects[pack[k].entries[i]]
  OBVIOUS
<1>32. PICK answer \in {IF stored = None THEN "missing" ELSE "found", "error"} :
          pack' = [pack EXCEPT ![k].reads[i] = [answer |-> answer,
                                  size |-> IF answer = "found" THEN stored ELSE 0]]
  BY <1>31 DEF storage_get
<1>33. PICK size : size = IF answer = "found" THEN stored ELSE 0
  OBVIOUS
<1>3. /\ answer \in {"found", "missing", "error"}
      /\ (answer = "found" => size = objects[o.entries[i]] /\ size # None)
      /\ (answer # "found" => size = 0)
      /\ pack' = [pack EXCEPT ![k].reads[i] = [answer |-> answer, size |-> size]]
      /\ i \in Ahead(k) /\ o.reads[i] = None /\ UNCHANGED metrics
  <2>1. /\ answer \in {"found", "missing", "error"} /\ (answer = "found" => stored # None)
        /\ (answer = "found" => size = stored) /\ (answer # "found" => size = 0)
    BY <1>32, <1>33
  <2>2. pack' = [pack EXCEPT ![k].reads[i] = [answer |-> answer, size |-> size]]
    BY <1>32, <1>33
  <2>3. i \in Ahead(k) /\ pack[k].reads[i] = None /\ UNCHANGED metrics
    BY DEF storage_get
  <2> QED BY <1>2, <1>31, <2>1, <2>2, <2>3
<1>4. o.pc \in {"next", "blob"}
  BY <1>2, <1>3 DEF Ahead
<1>5. PackOK(o, guard[k]) /\ o.pc \in Streaming /\ o.pc \in Begun
  BY <1>1, <1>2, <1>4 DEF Streaming, Begun
<1>6. Len(o.reads) = Len(o.entries) /\ i \in 1 .. Len(o.entries) /\ o.entries \in Seq(Digests)
      /\ o.reads \in Seq(Reads \cup {None}) /\ Len(o.reads) \in Nat
  BY <1>1, <1>2, <1>5, PackFields DEF PackOK, ReadsOK
<1>7. o.entries[i] \in Digests
  BY <1>6
<1>8. size \in Nat
  BY <1>3, <1>7
<1>9. PICK r : r = [answer |-> answer, size |-> size]
  OBVIOUS
<1>10. r \in Reads
  BY <1>3, <1>8, <1>9 DEF Reads
<1>11. PICK reads : reads = [o.reads EXCEPT ![i] = r]
  OBVIOUS
<1>12. reads \in Seq(Reads \cup {None}) /\ Len(reads) = Len(o.reads)
       /\ \A j \in 1 .. Len(o.reads) : j # i => reads[j] = o.reads[j]
  BY <1>6, <1>10, <1>11
<1>13. PICK p : p = [o EXCEPT !.reads = reads]
  OBVIOUS
<1>14. pack' = [pack EXCEPT ![k] = p]
  BY <1>1, <1>2, <1>3, <1>9, <1>11, <1>13
<1>15. p \in PackRecords /\ p.pc = o.pc /\ p.announced = o.announced /\ p.reads = reads
      /\ p.entries = o.entries /\ p.ask = o.ask /\ p.frames = o.frames /\ p.sent = o.sent
  BY <1>1, <1>2, <1>12, <1>13 DEF PackRecords
<1>16. ReadsOK(p)
  <2>1. ReadsOK(o) /\ FramesOK(o)
    BY <1>5 DEF PackOK
  <2>2. ASSUME o.pc = "blob" PROVE reads[Len(o.frames)] = o.reads[Len(o.frames)]
    <3>1. o.reads[Len(o.frames)] # None /\ o.frames # <<>> /\ Len(o.frames) <= Len(o.entries)
      BY <2>1, <2>2 DEF ReadsOK, FramesOK
    <3>2. Len(o.frames) \in 1 .. Len(o.reads)
      <4>1. o.frames \in Seq(Frames)
        BY <1>1, <1>2, PackFields
      <4>2. Len(o.frames) \in Nat /\ Len(o.frames) # 0
        BY <3>1, <4>1, EmptySeq
      <4> QED BY <1>6, <3>1, <4>2
    <3>3. Len(o.frames) # i
      BY <1>3, <3>1
    <3> QED BY <1>12, <3>2, <3>3
  <2> QED BY <1>4, <1>12, <1>15, <2>1, <2>2 DEF ReadsOK
<1>17. FramesOK(p) /\ SentOK(p)
  BY <1>5, <1>15 DEF PackOK, FramesOK, SentOK
<1>18. PackOK(p, guard[k])
  BY <1>4, <1>5, <1>15, <1>16, <1>17 DEF PackOK
<1> QED BY <1>3, <1>14, <1>15, <1>18, QuietPack

(* A pack about to go on to its next entry has sent its frames whole. *)
LEMMA NextSent ==
    ASSUME NEW p \in PackRecords, FramesOK(p), SentOK(p), p.pc = "next"
    PROVE  p.sent = Due(p.entries, Len(p.frames))
<1>1. p.entries \in Seq(Digests) /\ p.frames \in Seq(Frames) /\ Len(p.entries) \in Nat
  BY PackFields
<1>2. CASE p.frames = <<>>
  <2>1. Len(p.frames) = 0 /\ p.sent = MagicLen
    BY <1>2 DEF SentOK
  <2> QED BY <1>1, <2>1, DueGrows
<1>3. CASE p.frames # <<>>
  <2>1. Len(p.frames) \in Nat /\ Len(p.frames) # 0
    BY <1>1, <1>3, EmptySeq
  <2>2. Len(p.frames) <= Len(p.entries)
    BY DEF FramesOK
  <2>3. Len(p.frames) \in 1 .. Len(p.entries) /\ Len(p.frames) \in 1 .. Len(p.frames)
    BY <1>1, <2>1, <2>2
  <2>4. p.frames[Len(p.frames)].bytes = Size[p.entries[Len(p.frames)]]
    BY <2>3 DEF FramesOK
  <2>5. p.sent = Due(p.entries, Len(p.frames) - 1) + HeaderLen + Size[p.entries[Len(p.frames)]]
    BY <1>3, <2>4 DEF SentOK
  <2> QED BY <1>1, <2>3, <2>5, DueGrows
<1> QED BY <1>2, <1>3

(* A stream that is over keeps what it sent. *)
LEMMA EndedOK ==
    ASSUME NEW o \in PackRecords, NEW g, PackOK(o, g), o.pc \in Begun,
           NEW p, p.pc \in {"ending", "closed"}, p.ask = o.ask, p.entries = o.entries,
           p.announced = o.announced, p.frames = o.frames, p.sent = o.sent,
           NEW x \in Outcomes, x = "completed" => o.sent = o.announced
    PROVE  PackOK(p, x)
<1>1. /\ p.pc \notin Streaming /\ p.pc \in Begun /\ p.pc \notin {"lookup", "access"}
      /\ p.pc # "next" /\ p.pc # "blob" /\ p.pc # "announced" /\ x # "live"
  BY DEF Streaming, Begun, Outcomes
<1>2. FramesOK(o) /\ SentOK(o) /\ o.announced = Due(o.entries, Len(o.entries))
  BY DEF PackOK
<1>3. FramesOK(p)
  BY <1>1, <1>2 DEF FramesOK
<1>4. SentOK(p) /\ ReadsOK(p)
  BY <1>1, <1>2 DEF SentOK, ReadsOK
<1> QED BY <1>1, <1>2, <1>3, <1>4 DEF PackOK

LEMMA PackFails ==
    ASSUME PacksInv, NEW k \in Packs, pack[k].pc \in {"next", "blob"}, Fails(k)
    PROVE  PacksInv'
<1>1. pack[k] \in PackRecords /\ PackOK(pack[k], guard[k]) /\ pack \in [Packs -> PackRecords]
  BY DEF PacksInv
<1>2. PICK o, p : o = pack[k] /\ p = [o EXCEPT !.pc = "ending"]
  OBVIOUS
<1>3. pack' = [pack EXCEPT ![k] = p] /\ finish(k, "error") /\ "error" \in Outcomes
  BY <1>1, <1>2 DEF Fails, Outcomes
<1>4. o.pc \in Streaming /\ o.pc \in Begun
  BY <1>2 DEF Streaming, Begun
<1>5. guard[k] = "live"
  BY <1>1, <1>2, <1>4 DEF PackOK
<1>6. p \in PackRecords /\ p.pc = "ending" /\ p.ask = o.ask /\ p.entries = o.entries
      /\ p.announced = o.announced /\ p.frames = o.frames /\ p.sent = o.sent
  BY <1>1, <1>2 DEF PackRecords, Over
<1>7. PackOK(p, "error")
  <2>1. PICK x \in Outcomes : x = "error"
    BY <1>3
  <2>2. o \in PackRecords /\ PackOK(o, guard[k]) /\ x # "completed" /\ p.pc \in {"ending", "closed"}
    BY <1>1, <1>2, <1>6, <2>1
  <2>3. PackOK(p, x)
    BY <1>4, <1>6, <2>2, EndedOK
  <2> QED BY <2>1, <2>3
<1> QED BY <1>3, <1>5, <1>6, <1>7, EndingPack

LEMMA PackCompletes ==
    ASSUME PacksInv, NEW k \in Packs, complete(k)
    PROVE  PacksInv'
<1>1. pack[k] \in PackRecords /\ PackOK(pack[k], guard[k]) /\ pack \in [Packs -> PackRecords]
  BY DEF PacksInv
<1>2. PICK o, p : o = pack[k] /\ p = [o EXCEPT !.pc = "ending"]
  OBVIOUS
<1>3. /\ pack' = [pack EXCEPT ![k] = p] /\ finish(k, "completed") /\ "completed" \in Outcomes
      /\ o.pc = "next" /\ Len(o.frames) = Len(o.entries)
  BY <1>1, <1>2 DEF complete, Current, Outcomes
<1>4. o.pc \in Streaming /\ o.pc \in Begun
  BY <1>3 DEF Streaming, Begun
<1>5. guard[k] = "live"
  BY <1>1, <1>2, <1>4 DEF PackOK
<1>6. p \in PackRecords /\ p.pc = "ending" /\ p.ask = o.ask /\ p.entries = o.entries
      /\ p.announced = o.announced /\ p.frames = o.frames /\ p.sent = o.sent
  BY <1>1, <1>2 DEF PackRecords, Over
<1>7. o.sent = o.announced
  <2>1. FramesOK(o) /\ SentOK(o) /\ o.announced = Due(o.entries, Len(o.entries))
    BY <1>1, <1>2, <1>4 DEF PackOK
  <2>2. o.sent = Due(o.entries, Len(o.frames))
    BY <1>1, <1>2, <1>3, <2>1, NextSent
  <2> QED BY <1>3, <2>1, <2>2
<1>8. PackOK(p, "completed")
  <2>1. PICK x \in Outcomes : x = "completed"
    BY <1>3
  <2>2. o \in PackRecords /\ PackOK(o, guard[k]) /\ p.pc \in {"ending", "closed"}
    BY <1>1, <1>2, <1>6
  <2>3. PackOK(p, x)
    BY <1>4, <1>6, <1>7, <2>2, EndedOK
  <2> QED BY <2>1, <2>3
<1> QED BY <1>3, <1>5, <1>6, <1>8, EndingPack

LEMMA PackDrops ==
    ASSUME PacksInv, NEW k \in Packs, drop(k)
    PROVE  PacksInv'
<1>1. pack[k] \in PackRecords /\ PackOK(pack[k], guard[k]) /\ pack \in [Packs -> PackRecords]
  BY DEF PacksInv
<1>2. PICK o, none : o = pack[k] /\ none = <<>>
  OBVIOUS
<1>3. PICK p : p = [o EXCEPT !.pc = "closed", !.reads = none]
  OBVIOUS
<1>4. /\ pack' = [pack EXCEPT ![k] = p] /\ finish(k, "cancelled") /\ "cancelled" \in Outcomes
      /\ o.pc \in Streaming \cup {"ending"}
  BY <1>1, <1>2, <1>3 DEF drop, Outcomes
<1>5. o.pc \in Begun
  BY <1>4 DEF Begun
<1>6. none \in Seq(Reads \cup {None})
  BY <1>2
<1>7. p \in PackRecords /\ p.pc = "closed" /\ p.ask = o.ask /\ p.entries = o.entries
      /\ p.announced = o.announced /\ p.frames = o.frames /\ p.sent = o.sent
  BY <1>1, <1>2, <1>3, <1>6 DEF PackRecords, Over
<1>8. CASE o.pc \in Streaming
  <2>1. guard[k] = "live"
    BY <1>1, <1>2, <1>8 DEF PackOK
  <2>2. PackOK(p, "cancelled")
    BY <1>1, <1>2, <1>4, <1>5, <1>7, EndedOK
  <2> QED BY <1>4, <1>7, <2>1, <2>2, EndingPack
<1>9. CASE o.pc = "ending"
  <2>1. guard[k] \in Outcomes
    BY <1>1, <1>2, <1>9 DEF PackOK
  <2>2. guard[k] # "live"
    BY <2>1 DEF Outcomes
  <2>3. UNCHANGED metrics
    BY <1>4, <2>2 DEF finish
  <2>4. guard[k] = "completed" => o.sent = o.announced
    BY <1>1, <1>2, <1>5 DEF PackOK
  <2>5. PICK x : x = guard[k]
    OBVIOUS
  <2>6. x \in Outcomes /\ PackOK(o, x) /\ (x = "completed" => o.sent = o.announced)
    BY <1>1, <1>2, <2>1, <2>4, <2>5
  <2>7. PackOK(p, x)
    BY <1>1, <1>2, <1>5, <1>7, <2>6, EndedOK
  <2> QED BY <1>4, <1>7, <2>3, <2>5, <2>7, QuietPack
<1> QED BY <1>4, <1>8, <1>9

LEMMA PackNextEntry ==
    ASSUME PacksInv, NEW k \in Packs, NEW i \in DOMAIN pack[k].reads, next_entry(k, i)
    PROVE  PacksInv'
<1>1. pack[k] \in PackRecords /\ PackOK(pack[k], guard[k]) /\ pack \in [Packs -> PackRecords]
  BY DEF PacksInv
<1>2. PICK o, c : o = pack[k] /\ c = Len(o.frames)
  OBVIOUS
<1>3. o.pc = "next" /\ i = c + 1 /\ o.reads[i] # None
  BY <1>2 DEF next_entry, TakesUp, Turn
<1>4. CASE ~Fits(k, i) /\ Fails(k)
  BY <1>2, <1>3, <1>4, PackFails
<1>5. CASE Fits(k, i) /\ UNCHANGED metrics
           /\ pack' = [pack EXCEPT ![k].pc = "blob", ![k].sent = @ + HeaderLen,
                ![k].frames = Append(@, [digest |-> pack[k].entries[i], bytes |-> 0])]
  <2>1. PICK new : new = [digest |-> o.entries[i], bytes |-> 0]
    OBVIOUS
  <2>2. PICK frames, sent : frames = Append(o.frames, new) /\ sent = o.sent + HeaderLen
    OBVIOUS
  <2>3. PICK p : p = [o EXCEPT !.pc = "blob", !.sent = sent, !.frames = frames]
    OBVIOUS
  <2>4. pack' = [pack EXCEPT ![k] = p]
    BY <1>1, <1>2, <1>5, <2>1, <2>2, <2>3
  <2>5. /\ PackOK(o, guard[k]) /\ o.pc \in Streaming /\ o.pc \in Begun
        /\ "blob" \in Streaming /\ "blob" \in Begun /\ "blob" \notin {"ending", "closed", "lookup", "access"}
    BY <1>1, <1>2, <1>3 DEF Streaming, Begun
  <2>6. FramesOK(o) /\ SentOK(o) /\ ReadsOK(o) /\ o.announced = Due(o.entries, Len(o.entries))
        /\ IsInjective(o.ask) /\ IsInjective(o.entries) /\ guard[k] = "live"
    BY <2>5 DEF PackOK
  <2>7. /\ o.entries \in Seq(Digests) /\ o.frames \in Seq(Frames) /\ c \in Nat /\ o.sent \in Nat
        /\ Len(o.entries) \in Nat /\ DOMAIN o.reads = 1 .. Len(o.reads) /\ HeaderLen \in Nat
    BY <1>1, <1>2, PackFields, FormatAssumption
  <2>8. i \in 1 .. Len(o.entries) /\ Len(o.reads) = Len(o.entries)
    BY <1>2, <2>5, <2>6, <2>7 DEF ReadsOK
  <2>9. o.entries[i] \in Digests /\ Size[o.entries[i]] \in Nat
    BY <2>7, <2>8, SizeAssumption
  <2>10. new \in Frames /\ new.digest = o.entries[i] /\ new.bytes = 0
    BY <2>1, <2>9 DEF Frames
  <2>11. /\ frames \in Seq(Frames) /\ Len(frames) = i /\ frames[i] = new
         /\ \A j \in 1 .. c : frames[j] = o.frames[j]
    BY <1>2, <1>3, <2>2, <2>7, <2>10
  <2>12. sent \in Nat /\ sent = Due(o.entries, i - 1) + HeaderLen + 0
    <3>1. o.sent = Due(o.entries, c)
      BY <1>1, <1>2, <1>3, <2>6, NextSent
    <3>2. i - 1 = c
      BY <1>3, <2>7
    <3> QED BY <2>2, <2>7, <3>1, <3>2
  <2>13. /\ p \in PackRecords /\ p.pc = "blob" /\ p.sent = sent /\ p.frames = frames
         /\ p.ask = o.ask /\ p.entries = o.entries /\ p.announced = o.announced /\ p.reads = o.reads
    BY <1>1, <1>2, <2>3, <2>11, <2>12 DEF PackRecords, Streaming
  <2>14. \A j \in 1 .. i : j \in 1 .. c \/ j = i
    BY <1>3, <2>7
  <2>15. FramesOK(p)
    <3>1. Len(p.frames) <= Len(p.entries)
      BY <2>8, <2>11, <2>13
    <3>2. ASSUME NEW j \in 1 .. i
          PROVE  /\ frames[j].digest = o.entries[j]
                 /\ frames[j].bytes <= Size[o.entries[j]]
                 /\ j < i => frames[j].bytes = Size[o.entries[j]]
      <4>1. CASE j = i
        BY <2>7, <2>8, <2>9, <2>10, <2>11, <4>1
      <4>2. CASE j \in 1 .. c
        BY <1>2, <1>3, <2>6, <2>11, <4>2 DEF FramesOK
      <4> QED BY <2>14, <4>1, <4>2
    <3> QED BY <2>11, <2>13, <3>1, <3>2 DEF FramesOK
  <2>16. p.frames # <<>>
    BY <2>8, <2>11, <2>13
  <2>17. SentOK(p)
    BY <2>10, <2>11, <2>12, <2>13, <2>16 DEF SentOK
  <2>18. ReadsOK(p)
    <3>1. pack[k].reads[i].size = Size[pack[k].entries[i]]
      BY <1>5 DEF Fits
    <3> QED BY <1>2, <1>3, <2>8, <2>11, <2>13, <2>16, <3>1 DEF ReadsOK
  <2>19. PackOK(p, guard[k])
    BY <2>5, <2>6, <2>13, <2>15, <2>17, <2>18 DEF PackOK, Outcomes
  <2> QED BY <1>5, <2>4, <2>13, <2>19, QuietPack
<1> QED BY <1>4, <1>5 DEF next_entry

LEMMA PackChunk ==
    ASSUME PacksInv, NEW k \in Packs, NEW n \in Nat, chunk(k, n)
    PROVE  PacksInv'
<1>1. pack[k] \in PackRecords /\ PackOK(pack[k], guard[k]) /\ pack \in [Packs -> PackRecords]
  BY DEF PacksInv
<1>2. PICK o, c : o = pack[k] /\ c = Len(o.frames)
  OBVIOUS
<1>3. o.pc = "blob"
  BY <1>2 DEF chunk
<1>4. CASE Fails(k)
  BY <1>2, <1>3, <1>4, PackFails
<1>5. CASE /\ Streamed(k) + n <= Length(k)
           /\ pack' = [pack EXCEPT ![k].sent = @ + n, ![k].frames[Current(k)].bytes = @ + n]
           /\ UNCHANGED metrics
  <2>1. PICK old : old = o.frames[c]
    OBVIOUS
  <2>2. PICK new : new = [old EXCEPT !.bytes = old.bytes + n]
    OBVIOUS
  <2>3. PICK frames, sent : frames = [o.frames EXCEPT ![c] = new] /\ sent = o.sent + n
    OBVIOUS
  <2>4. PICK p : p = [o EXCEPT !.sent = sent, !.frames = frames]
    OBVIOUS
  <2>5. /\ PackOK(o, guard[k]) /\ o.pc \in Streaming /\ o.pc \in Begun
        /\ "blob" \notin {"ending", "closed", "lookup", "access"}
    BY <1>1, <1>2, <1>3 DEF Streaming, Begun
  <2>6. FramesOK(o) /\ SentOK(o) /\ ReadsOK(o) /\ o.announced = Due(o.entries, Len(o.entries))
        /\ IsInjective(o.ask) /\ IsInjective(o.entries) /\ guard[k] = "live"
    BY <2>5 DEF PackOK
  <2>7. /\ o.entries \in Seq(Digests) /\ o.frames \in Seq(Frames) /\ c \in Nat /\ o.sent \in Nat
        /\ Len(o.entries) \in Nat /\ HeaderLen \in Nat
    BY <1>1, <1>2, PackFields, FormatAssumption
  <2>8. o.frames # <<>> /\ o.reads[c].size = Size[o.entries[c]] /\ c <= Len(o.entries)
    BY <1>2, <1>3, <2>6 DEF ReadsOK, FramesOK
  <2>9. c \in 1 .. c /\ c \in 1 .. Len(o.entries)
    BY <1>2, <2>7, <2>8, EmptySeq
  <2>10. old \in Frames /\ old.bytes \in Nat /\ old.digest = o.entries[c] /\ Size[o.entries[c]] \in Nat
    <3>1. old \in Frames /\ o.entries[c] \in Digests
      BY <1>2, <2>1, <2>7, <2>9
    <3>2. old.digest = o.entries[c]
      BY <1>2, <2>1, <2>6, <2>9 DEF FramesOK
    <3> QED BY <3>1, <3>2, SizeAssumption DEF Frames
  <2>11. old.bytes + n <= Size[o.entries[c]]
    BY <1>2, <1>5, <2>1, <2>8 DEF Streamed, Length, Current
  <2>12. new \in Frames /\ new.digest = o.entries[c] /\ new.bytes = old.bytes + n
    BY <2>2, <2>10 DEF Frames
  <2>13. pack' = [pack EXCEPT ![k] = p]
    <3>1. c = Current(k)
      BY <1>2 DEF Current
    <3> QED BY <1>1, <1>2, <1>5, <2>1, <2>2, <2>3, <2>4, <3>1
  <2>14. /\ frames \in Seq(Frames) /\ Len(frames) = c /\ frames[c] = new
         /\ \A j \in 1 .. c : j # c => frames[j] = o.frames[j]
    BY <1>2, <2>3, <2>7, <2>9, <2>12
  <2>15. Due(o.entries, c - 1) \in Nat
    <3>1. c - 1 \in 0 .. Len(o.entries)
      BY <2>7, <2>9
    <3> QED BY <2>7, <3>1, DueGrows
  <2>16. sent \in Nat /\ sent = Due(o.entries, c - 1) + HeaderLen + new.bytes
    <3>1. o.sent = Due(o.entries, c - 1) + HeaderLen + old.bytes
      BY <1>2, <2>1, <2>6, <2>8 DEF SentOK
    <3> QED BY <2>3, <2>7, <2>10, <2>12, <2>15, <3>1
  <2>17. /\ p \in PackRecords /\ p.pc = "blob" /\ p.sent = sent /\ p.frames = frames
         /\ p.ask = o.ask /\ p.entries = o.entries /\ p.announced = o.announced /\ p.reads = o.reads
    BY <1>1, <1>2, <1>3, <2>4, <2>14, <2>16 DEF PackRecords
  <2>18. FramesOK(p)
    <3>1. ASSUME NEW j \in 1 .. c
          PROVE  /\ frames[j].digest = o.entries[j]
                 /\ frames[j].bytes <= Size[o.entries[j]]
                 /\ j < c => frames[j].bytes = Size[o.entries[j]]
      <4>1. CASE j = c
        BY <2>7, <2>11, <2>12, <2>14, <4>1
      <4>2. CASE j # c
        BY <1>2, <2>6, <2>14, <4>2 DEF FramesOK
      <4> QED BY <4>1, <4>2
    <3> QED BY <2>8, <2>14, <2>17, <3>1 DEF FramesOK
  <2>19. p.frames # <<>>
    BY <2>9, <2>14, <2>17
  <2>20. SentOK(p) /\ ReadsOK(p)
    BY <1>2, <1>3, <2>6, <2>14, <2>16, <2>17, <2>19 DEF SentOK, ReadsOK
  <2>21. PackOK(p, guard[k])
    BY <1>3, <2>5, <2>6, <2>17, <2>18, <2>20 DEF PackOK, Outcomes
  <2> QED BY <1>5, <2>13, <2>17, <2>21, QuietPack
<1> QED BY <1>4, <1>5 DEF chunk

LEMMA PackBlobEnds ==
    ASSUME PacksInv, NEW k \in Packs, blob_ends(k)
    PROVE  PacksInv'
<1>1. pack[k] \in PackRecords /\ PackOK(pack[k], guard[k]) /\ pack \in [Packs -> PackRecords]
  BY DEF PacksInv
<1>2. PICK o, c, p : o = pack[k] /\ c = Len(o.frames) /\ p = [o EXCEPT !.pc = "next"]
  OBVIOUS
<1>3. o.pc = "blob"
  BY <1>2 DEF blob_ends
<1>4. CASE Fails(k)
  BY <1>2, <1>3, <1>4, PackFails
<1>5. CASE Streamed(k) = Length(k) /\ pack' = [pack EXCEPT ![k].pc = "next"] /\ UNCHANGED metrics
  <2>1. pack' = [pack EXCEPT ![k] = p]
    BY <1>1, <1>2, <1>5
  <2>2. /\ PackOK(o, guard[k]) /\ o.pc \in Streaming /\ o.pc \in Begun /\ "next" \in Streaming
        /\ "next" \in Begun /\ "next" \notin {"ending", "closed", "lookup", "access"}
    BY <1>1, <1>2, <1>3 DEF Streaming, Begun
  <2>3. FramesOK(o) /\ SentOK(o) /\ ReadsOK(o) /\ o.announced = Due(o.entries, Len(o.entries))
        /\ IsInjective(o.ask) /\ IsInjective(o.entries) /\ guard[k] = "live"
    BY <2>2 DEF PackOK
  <2>4. /\ p \in PackRecords /\ p.pc = "next" /\ p.sent = o.sent /\ p.frames = o.frames
        /\ p.ask = o.ask /\ p.entries = o.entries /\ p.announced = o.announced /\ p.reads = o.reads
    BY <1>1, <1>2 DEF PackRecords, Streaming
  <2>5. o.frames # <<>> /\ o.frames[c].bytes = Size[o.entries[c]]
    BY <1>2, <1>3, <1>5, <2>3 DEF ReadsOK, Streamed, Length, Current
  <2>6. c \in Nat
    BY <1>1, <1>2, PackFields
  <2>7. FramesOK(p)
    <3>1. \A j \in 1 .. c : j < c \/ j = c
      BY <2>6
    <3> QED BY <1>2, <2>3, <2>4, <2>5, <3>1 DEF FramesOK
  <2>8. SentOK(p) /\ ReadsOK(p)
    BY <1>3, <2>2, <2>3, <2>4, <2>5 DEF SentOK, ReadsOK
  <2>9. PackOK(p, guard[k])
    BY <2>2, <2>3, <2>4, <2>7, <2>8 DEF PackOK, Outcomes
  <2> QED BY <1>5, <2>1, <2>4, <2>9, QuietPack
<1> QED BY <1>4, <1>5 DEF blob_ends

DownloadInv == QueriesInv /\ PacksInv

(* The invariant of queries, packs, guards and counters holds of every     *)
(* behaviour, whatever expires, fails or is dropped.                       *)
THEOREM DownloadsInductive == DSafeSpec => []DownloadInv
<1>1. DInit => PacksInv
  <2> SUFFICES ASSUME DInit PROVE PacksInv
    OBVIOUS
  <2>1. PICK none, idle :
          /\ none = <<>>
          /\ idle = [pc |-> "idle", ask |-> none, entries |-> none, announced |-> 0,
                     reads |-> none, frames |-> none, sent |-> 0]
    OBVIOUS
  <2>2. pack = [k \in Packs |-> idle] /\ guard = [k \in Packs |-> None]
        /\ in_flight = 0 /\ ended = [o \in Outcomes |-> 0]
    BY <2>1 DEF DInit, IdlePack
  <2>3. none \in Seq(Digests) /\ DOMAIN none = {}
    BY <2>1
  <2>4. IsInjective(none)
    BY <2>3 DEF IsInjective
  <2>5. None # "live" /\ None \notin Outcomes /\ \A o \in Outcomes : o # None
    BY NoneAssumption
  <2>6. idle \in PackRecords /\ PackOK(idle, None)
    BY <2>1, <2>3, <2>4, <2>5, IdlePacks
  <2>7. \A c : c # None => Of(guard, c) = {}
    BY <2>2 DEF Of
  <2>8. Cardinality({}) = 0
    BY FS_EmptySet
  <2>9. Counted
    <3>1. Cardinality(Of(guard, "live")) = 0 /\ \A o \in Outcomes : Cardinality(Of(guard, o)) = 0
      BY <2>5, <2>7, <2>8
    <3> QED BY <2>2, <3>1 DEF Counted, Of
  <2> QED BY <2>2, <2>6, <2>9 DEF PacksInv
<1>2. ASSUME DownloadInv, [DNext]_dvars PROVE PacksInv'
  <2>1. PacksInv /\ QueriesInv
    BY <1>2 DEF DownloadInv
  <2>2. setup.asks \subseteq Seq(Digests) /\ objects \in [Digests -> Nat \cup {None}]
    BY <2>1, SetupsAssumption DEF QueriesInv, StoresTyped
  <2>3. CASE UNCHANGED <<pack, metrics>>
    BY <2>1, <2>3 DEF PacksInv, Counted, metrics
  <2>4. ASSUME NEW k \in Packs, PackNext(k) PROVE PacksInv'
    <3>1. \A n \in 1 .. MaxBlobBytes : n \in Nat
      BY FormatAssumption
    <3>2. ASSUME chunk_fails(k) PROVE PacksInv'
      BY <2>1, <3>2, PackFails DEF chunk_fails
    <3>3. ASSUME NEW seq \in setup.asks, pack_blobs(k, seq) PROVE PacksInv'
      BY <2>1, <2>2, <3>3, PackStarts
    <3>4. ASSUME NEW i \in DOMAIN pack[k].reads, storage_get(k, i) \/ next_entry(k, i)
          PROVE  PacksInv'
      BY <2>1, <2>2, <3>4, PackGets, PackNextEntry
    <3>5. ASSUME NEW n \in 1 .. MaxBlobBytes, chunk(k, n) PROVE PacksInv'
      BY <2>1, <3>1, <3>5, PackChunk
    <3> QED BY <2>1, <2>4, <3>2, <3>3, <3>4, <3>5, PackLooksUp, PackAnnounces, PackYieldsMagic,
               PackBlobEnds, PackCompletes, PackLookupFails, PackDrops DEF PackNext, PackStep
  <2>5. CASE UNCHANGED dvars
    BY <2>3, <2>5 DEF dvars, metrics
  <2> QED BY <1>2, <2>3, <2>4, <2>5 DEF DNext
<1>3. DownloadInv /\ [DNext]_dvars => DownloadInv'
  BY <1>2, QueriesPreserved DEF DownloadInv
<1>4. DInit => DownloadInv
  BY <1>1, QueriesStart DEF DownloadInv
<1> QED BY <1>3, <1>4, PTL DEF DSafeSpec

(* However packs end, the in-flight gauge is the number of response        *)
(* streams without an outcome, and every stream that is over was counted   *)
(* under exactly one.                                                      *)
THEOREM GaugeExact == DSafeSpec => []GuardExact
<1>1. PacksInv => GuardExact
  <2> SUFFICES ASSUME PacksInv PROVE GuardExact
    OBVIOUS
  <2>1. \A k \in Packs : PackOK(pack[k], guard[k])
    BY DEF PacksInv
  <2>2. {k \in Packs : pack[k].pc \in Streaming} = {k \in Packs : guard[k] = "live"}
    BY <2>1 DEF PackOK
  <2>3. PICK c, e, x : c = Of(guard, "completed") /\ e = Of(guard, "error") /\ x = Of(guard, "cancelled")
    OBVIOUS
  <2>4. {k \in Packs : pack[k].pc \in {"ending", "closed"}} = (c \cup e) \cup x
    BY <2>1, <2>3 DEF PackOK, Outcomes, Of
  <2>5. IsFiniteSet(c) /\ IsFiniteSet(e) /\ IsFiniteSet(x)
    BY <2>3, PacksAssumption, FS_Subset DEF Of
  <2>6. c \cap e = {} /\ (c \cup e) \cap x = {}
    BY <2>3 DEF Of
  <2>7. Cardinality({}) = 0
    BY FS_EmptySet
  <2>8. IsFiniteSet(c \cup e) /\ Cardinality(c \cup e) = Cardinality(c) + Cardinality(e) - Cardinality(c \cap e)
    BY <2>5, FS_Union
  <2>9. Cardinality((c \cup e) \cup x)
          = Cardinality(c \cup e) + Cardinality(x) - Cardinality((c \cup e) \cap x)
    BY <2>5, <2>8, FS_Union
  <2>10. Cardinality(c) \in Nat /\ Cardinality(e) \in Nat /\ Cardinality(x) \in Nat
    BY <2>5, FS_CardinalityType
  <2>11. Cardinality((c \cup e) \cup x) = Cardinality(c) + Cardinality(e) + Cardinality(x)
    <3>1. Cardinality(c \cap e) = 0 /\ Cardinality((c \cup e) \cap x) = 0
      BY <2>6, <2>7
    <3>2. Cardinality(c \cup e) = Cardinality(c) + Cardinality(e)
      BY <2>8, <2>10, <3>1
    <3> QED BY <2>9, <2>10, <3>1, <3>2
  <2>12. /\ in_flight = Cardinality({k \in Packs : guard[k] = "live"})
         /\ \A o \in Outcomes : ended[o] = Cardinality({k \in Packs : guard[k] = o})
    BY DEF PacksInv, Counted
  <2>13. ended["completed"] = Cardinality(c) /\ ended["error"] = Cardinality(e)
         /\ ended["cancelled"] = Cardinality(x)
    BY <2>3, <2>12 DEF Of, Outcomes
  <2> QED BY <2>2, <2>4, <2>11, <2>12, <2>13 DEF GuardExact
<1> QED BY <1>1, DownloadsInductive, PTL DEF DownloadInv

(* A client can tell a broken pack by its length: as many bytes as were    *)
(* announced are sent only when every visible blob was, whole, once and in *)
(* the order of the entries; more are never sent.                          *)
THEOREM LengthTells == DSafeSpec => []LengthTellsWhole
<1>1. PacksInv => LengthTellsWhole
  <2> SUFFICES ASSUME PacksInv, NEW k \in Packs, pack[k].pc \in Begun
               PROVE  /\ pack[k].sent <= pack[k].announced
                      /\ pack[k].sent = pack[k].announced => Whole(k)
                      /\ guard[k] = "completed" => pack[k].sent = pack[k].announced
                      /\ IsInjective(pack[k].entries)
    BY DEF LengthTellsWhole, Begun
  <2>1. PICK p, c, n : p = pack[k] /\ c = Len(p.frames) /\ n = Len(p.entries)
    OBVIOUS
  <2>2. p \in PackRecords /\ PackOK(p, guard[k])
    BY <2>1 DEF PacksInv
  <2>3. /\ FramesOK(p) /\ SentOK(p) /\ p.announced = Due(p.entries, n) /\ IsInjective(p.entries)
        /\ guard[k] = "completed" => p.sent = p.announced
    BY <2>1, <2>2 DEF PackOK
  <2>4. /\ p.entries \in Seq(Digests) /\ p.frames \in Seq(Frames) /\ c \in Nat /\ n \in Nat /\ c <= n
        /\ p.sent \in Nat /\ MagicLen \in Nat /\ HeaderLen \in Nat
    BY <2>1, <2>2, <2>3, PackFields, FormatAssumption DEF FramesOK
  <2>5. /\ Due(p.entries, 0) = MagicLen
        /\ \A i \in 0 .. n : Due(p.entries, i) \in Nat
        /\ \A i \in 1 .. n : Due(p.entries, i) = Due(p.entries, i - 1) + HeaderLen + Size[p.entries[i]]
        /\ \A i, j \in 0 .. n : i < j => Due(p.entries, i) < Due(p.entries, j)
    BY <2>1, <2>4, DueGrows
  <2>6. 0 \in 0 .. n /\ c \in 0 .. n /\ n \in 0 .. n
    BY <2>4
  <2>7. /\ Due(p.entries, 0) \in Nat /\ Due(p.entries, c) \in Nat /\ Due(p.entries, n) \in Nat
        /\ c < n => Due(p.entries, c) < Due(p.entries, n)
    BY <2>5, <2>6
  <2>8. /\ p.sent <= Due(p.entries, c)
        /\ c # 0 /\ p.sent = Due(p.entries, c) => p.frames[c].bytes = Size[p.entries[c]]
    <3>1. CASE p.frames = <<>>
      <4>1. c = 0 /\ p.sent \in {0, MagicLen}
        BY <2>1, <2>3, <3>1 DEF SentOK
      <4> QED BY <2>4, <2>5, <4>1
    <3>2. CASE p.frames # <<>>
      <4>1. c # 0 /\ c \in 1 .. n /\ c \in 1 .. c /\ c - 1 \in 0 .. n
        BY <2>1, <2>4, <3>2, EmptySeq
      <4>2. p.frames[c] \in Frames /\ p.entries[c] \in Digests
        BY <2>1, <2>4, <4>1
      <4>3. p.frames[c].bytes \in Nat /\ Size[p.entries[c]] \in Nat
        BY <4>2, SizeAssumption DEF Frames
      <4>4. p.frames[c].bytes <= Size[p.entries[c]]
        BY <2>1, <2>3, <4>1 DEF FramesOK
      <4>5. p.sent = Due(p.entries, c - 1) + HeaderLen + p.frames[c].bytes
        BY <2>1, <2>3, <3>2 DEF SentOK
      <4>6. Due(p.entries, c) = Due(p.entries, c - 1) + HeaderLen + Size[p.entries[c]]
            /\ Due(p.entries, c - 1) \in Nat
        BY <2>5, <4>1
      <4>7. p.sent <= Due(p.entries, c)
        BY <2>4, <4>3, <4>4, <4>5, <4>6
      <4>8. p.sent = Due(p.entries, c) => p.frames[c].bytes = Size[p.entries[c]]
        <5>1. \A before, header, x, y \in Nat :
                before + header + x = before + header + y => x = y
          OBVIOUS
        <5>2. HeaderLen \in Nat
          BY <2>4
        <5> QED BY <4>3, <4>5, <4>6, <5>1, <5>2
      <4> QED BY <4>7, <4>8
    <3> QED BY <3>1, <3>2
  <2>9. p.sent <= p.announced /\ (p.sent = p.announced => c = n)
    BY <2>3, <2>4, <2>7, <2>8
  <2>10. ASSUME p.sent = p.announced PROVE Whole(k)
    <3>1. c = n /\ p.sent = Due(p.entries, c)
      BY <2>3, <2>9, <2>10
    <3>2. DOMAIN p.entries = 1 .. n
      BY <2>1, <2>4
    <3>3. ASSUME NEW i \in 1 .. n
          PROVE  p.frames[i] = [digest |-> p.entries[i], bytes |-> Size[p.entries[i]]]
      <4>1. i \in 1 .. c /\ (i < c \/ i = c) /\ c # 0
        BY <2>4, <3>1
      <4>2. p.frames[i] \in Frames /\ p.frames[i].digest = p.entries[i]
        BY <2>1, <2>3, <2>4, <4>1 DEF FramesOK
      <4>3. p.frames[i].bytes = Size[p.entries[i]]
        <5>1. CASE i = c
          BY <2>8, <3>1, <4>1, <5>1
        <5>2. CASE i < c
          BY <2>1, <2>3, <4>1, <5>2 DEF FramesOK
        <5> QED BY <4>1, <5>1, <5>2
      <4> QED BY <4>2, <4>3 DEF Frames
    <3> QED BY <2>1, <3>1, <3>2, <3>3 DEF Whole
  <2> QED BY <2>1, <2>3, <2>9, <2>10
<1> QED BY <1>1, DownloadsInductive, PTL DEF DownloadInv
=============================================================================
