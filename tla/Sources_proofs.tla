----------------------------- MODULE Sources_proofs -----------------------------
(***************************************************************************)
(* Which sources the resolver finds, and in which order, for every cluster.*)
(* Its loops are concatenations of what their turns append (FlattenSeq, a  *)
(* recursive function of the number of turns), so the first part says what *)
(* such a concatenation holds; what it computes is proved by looking at the*)
(* least number of turns for which the statement fails. The second part    *)
(* takes the steps of ResolvePod one by one.                               *)
(***************************************************************************)
EXTENDS Sources, LeastElements

-----------------------------------------------------------------------------
(* A listing is a sequence of its own elements; a function on 1..n is one. *)
LEMMA ListingBasics ==
  ASSUME NEW n \in Nat, NEW s, s = [i \in 1..n |-> s[i]]
  PROVE  /\ Listing(s) /\ Len(s) = n /\ DOMAIN s = 1..n
<1>1. \A i \in 1..n : s[i] \in ToSet(s) BY DEF ToSet
<1>2. s \in Seq(ToSet(s)) BY <1>1
<1> QED BY <1>2 DEF Listing

LEMMA ListingDomain ==
  ASSUME NEW s, Listing(s)
  PROVE  /\ Len(s) \in Nat /\ DOMAIN s = 1..Len(s) /\ s = [i \in 1..Len(s) |-> s[i]]
         /\ \A T : ToSet(s) \subseteq T => s \in Seq(T)
<1>1. s \in Seq(ToSet(s)) BY DEF Listing
<1>2. Len(s) \in Nat /\ DOMAIN s = 1..Len(s) /\ s = [i \in 1..Len(s) |-> s[i]] BY <1>1
<1>3. \A i \in 1..Len(s) : s[i] \in ToSet(s) BY <1>2 DEF ToSet
<1> QED BY <1>2, <1>3

(* The listings the resolver starts from, and what putting two behind each *)
(* other makes of them.                                                    *)
LEMMA ListingEmpty == Listing(<<>>) /\ ToSet(<<>>) = {} /\ Len(<<>>) = 0
  BY DEF Listing, ToSet

LEMMA ListingOptional ==
  ASSUME NEW c \in BOOLEAN, NEW s
  PROVE  Listing(Optional(c, s)) /\ ToSet(Optional(c, s)) = IF c THEN {s} ELSE {}
<1>1. Listing(<<s>>) /\ ToSet(<<s>>) = {s} BY DEF Listing, ToSet
<1> QED BY <1>1, ListingEmpty DEF Optional

LEMMA ListingConcat ==
  ASSUME NEW s, NEW t, Listing(s), Listing(t)
  PROVE  /\ Listing(s \o t) /\ ToSet(s \o t) = ToSet(s) \cup ToSet(t)
         /\ Len(s \o t) = Len(s) + Len(t)
         /\ \A i \in 1..Len(s) : (s \o t)[i] = s[i]
         /\ \A i \in 1..Len(t) : (s \o t)[Len(s) + i] = t[i]
<1> DEFINE T == ToSet(s) \cup ToSet(t)
<1>1. s \in Seq(T) /\ t \in Seq(T) BY ListingDomain
<1>2. s \o t \in Seq(T) /\ Len(s \o t) = Len(s) + Len(t) BY <1>1
<1>3. \A i \in 1..Len(s) : (s \o t)[i] = s[i] BY <1>1
<1>4. \A i \in 1..Len(t) : (s \o t)[Len(s) + i] = t[i] BY <1>1
<1>5. ToSet(s) \subseteq ToSet(s \o t) BY <1>1, <1>2, <1>3 DEF ToSet
<1>6. ToSet(t) \subseteq ToSet(s \o t)
  <2> SUFFICES ASSUME NEW i \in 1..Len(t) PROVE t[i] \in ToSet(s \o t)
    BY ListingDomain DEF ToSet
  <2>1. Len(s) + i \in DOMAIN (s \o t) BY <1>1, <1>2
  <2> QED BY <1>4, <2>1 DEF ToSet
<1>7. ToSet(s \o t) \subseteq T BY <1>2 DEF ToSet
<1>8. ToSet(s \o t) = T BY <1>5, <1>6, <1>7
<1> QED BY <1>2, <1>3, <1>4, <1>8 DEF Listing

-----------------------------------------------------------------------------
(* What FlattenSeq does, in the words of its recursion: what the turns up  *)
(* to the i-th have appended.                                              *)
FlatStep(ss, f, i) == IF i = 1 THEN ss[i] ELSE f[i - 1] \o ss[i]
FlatFcn(ss) == CHOOSE f : f = [i \in 1..Len(ss) |-> FlatStep(ss, f, i)]
Flattens(ss, f) == f = [i \in 1..Len(ss) |-> FlatStep(ss, f, i)]

LEMMA FlattenIsFcn ==
  ASSUME NEW ss, Len(ss) # 0 PROVE FlattenSeq(ss) = FlatFcn(ss)[Len(ss)]
BY DEF FlattenSeq, FlatFcn, FlatStep

(* There is such a function, for any number of turns.                      *)
LEMMA FlatExists ==
  ASSUME NEW n \in Nat, NEW ss, Len(ss) = n
  PROVE  \E f : Flattens(ss, f)
<1> DEFINE Upto(m) == \E f : /\ f = [i \in 1..n |-> f[i]]
                             /\ \A i \in 1..n : i <= m => f[i] = FlatStep(ss, f, i)
           Bad == {m \in Nat : ~Upto(m)}
<1>1. Upto(0)
  <2> DEFINE f == [i \in 1..n |-> 0]
  <2>1. f = [i \in 1..n |-> f[i]] /\ \A i \in 1..n : ~(i <= 0) OBVIOUS
  <2> HIDE DEF f
  <2> QED BY <2>1
<1>2. ASSUME NEW m \in Nat, Upto(m) PROVE Upto(m + 1)
  <2>1. PICK f : /\ f = [i \in 1..n |-> f[i]]
                 /\ \A i \in 1..n : i <= m => f[i] = FlatStep(ss, f, i)
    BY <1>2
  <2> DEFINE h == [i \in 1..n |-> FlatStep(ss, f, i)]
  <2>2. ASSUME NEW i \in 1..n, i <= m + 1 PROVE h[i] = FlatStep(ss, h, i)
    <3>1. CASE i = 1 BY <3>1 DEF FlatStep
    <3>2. CASE i # 1
      <4>1. i - 1 \in 1..n /\ i - 1 <= m BY <2>2, <3>2
      <4>2. h[i - 1] = f[i - 1] BY <2>1, <4>1
      <4> QED BY <3>2, <4>2 DEF FlatStep
    <3> QED BY <3>1, <3>2
  <2>3. h = [i \in 1..n |-> h[i]] OBVIOUS
  <2> HIDE DEF h
  <2> QED BY <2>2, <2>3
<1> HIDE DEF Upto
<1>3. Upto(n)
  <2> SUFFICES ASSUME ~Upto(n) PROVE FALSE OBVIOUS
  <2>0. Bad \subseteq Nat /\ Bad # {} OBVIOUS
  <2>1. PICK m \in Bad : \A k \in Bad : m <= k
    <3> HIDE DEF Bad
    <3> QED BY <2>0, Smallest
  <2>2. m # 0 BY <1>1, <2>1
  <2>3. m - 1 \in Nat /\ m - 1 \notin Bad BY <2>1, <2>2
  <2> QED BY <1>2, <2>1, <2>3
<1>4. PICK f : /\ f = [i \in 1..n |-> f[i]]
               /\ \A i \in 1..n : i <= n => f[i] = FlatStep(ss, f, i)
  BY <1>3 DEF Upto
<1>5. \A i \in 1..n : f[i] = FlatStep(ss, f, i) BY <1>4
<1>6. f = [i \in 1..n |-> FlatStep(ss, f, i)] BY <1>4, <1>5
<1> QED BY <1>6 DEF Flattens

(* After each turn the elements are those of the turns so far.             *)
LEMMA FlatElements ==
  ASSUME NEW ss, Listing(ss), \A i \in DOMAIN ss : Listing(ss[i]), NEW f, Flattens(ss, f)
  PROVE  \A n \in 1..Len(ss) : Listing(f[n]) /\ ToSet(f[n]) = UNION {ToSet(ss[i]) : i \in 1..n}
<1> DEFINE Good(n) == Listing(f[n]) /\ ToSet(f[n]) = UNION {ToSet(ss[i]) : i \in 1..n}
           Bad == {n \in 1..Len(ss) : ~Good(n)}
<1>0. Len(ss) \in Nat /\ DOMAIN ss = 1..Len(ss) BY ListingDomain
<1>1. \A n \in 1..Len(ss) : f[n] = FlatStep(ss, f, n) BY DEF Flattens
<1>2. 1 \in 1..Len(ss) => Good(1)
  <2> SUFFICES ASSUME 1 \in 1..Len(ss) PROVE Good(1) OBVIOUS
  <2>1. f[1] = ss[1] BY <1>1 DEF FlatStep
  <2>2. UNION {ToSet(ss[i]) : i \in 1..1} = ToSet(ss[1]) OBVIOUS
  <2> QED BY <1>0, <2>1, <2>2
<1>3. ASSUME NEW n \in 1..Len(ss), n # 1, Good(n - 1) PROVE Good(n)
  <2>1. f[n] = f[n - 1] \o ss[n] BY <1>1, <1>3 DEF FlatStep
  <2>2. Listing(f[n]) /\ ToSet(f[n]) = ToSet(f[n - 1]) \cup ToSet(ss[n])
    BY <1>0, <1>3, <2>1, ListingConcat
  <2>3. 1..n = (1..n - 1) \cup {n} BY <1>0
  <2>4. UNION {ToSet(ss[i]) : i \in 1..n}
          = (UNION {ToSet(ss[i]) : i \in 1..n - 1}) \cup ToSet(ss[n])
    BY <2>3
  <2> QED BY <1>3, <2>2, <2>4
<1> HIDE DEF Good
<1>4. Bad = {}
  <2> SUFFICES ASSUME Bad # {} PROVE FALSE OBVIOUS
  <2>0. Bad \subseteq Nat BY <1>0
  <2>1. PICK n \in Bad : \A k \in Bad : n <= k
    <3> HIDE DEF Bad
    <3> QED BY <2>0, Smallest
  <2>2. n # 1 BY <1>2, <2>1
  <2>3. n - 1 \in 1..Len(ss) /\ n - 1 \notin Bad BY <1>0, <2>1, <2>2
  <2> QED BY <1>3, <2>1, <2>2, <2>3
<1> QED BY <1>4 DEF Good

(* So a concatenation holds the elements of its parts and no others.       *)
LEMMA Flattened ==
  ASSUME NEW n \in Nat, NEW ss, ss = [i \in 1..n |-> ss[i]], \A i \in 1..n : Listing(ss[i])
  PROVE  /\ Listing(FlattenSeq(ss))
         /\ ToSet(FlattenSeq(ss)) = UNION {ToSet(ss[i]) : i \in 1..n}
<1>1. Listing(ss) /\ Len(ss) = n /\ DOMAIN ss = 1..n BY ListingBasics
<1>2. CASE n = 0
  <2>1. FlattenSeq(ss) = ss BY <1>1, <1>2 DEF FlattenSeq
  <2>2. ss = <<>> BY <1>1, <1>2
  <2> QED BY <1>2, <2>1, <2>2, ListingEmpty
<1>3. CASE n # 0
  <2>1. \E f : Flattens(ss, f) BY <1>1, FlatExists
  <2>2. Flattens(ss, FlatFcn(ss)) BY <2>1 DEF Flattens, FlatFcn
  <2>3. FlattenSeq(ss) = FlatFcn(ss)[n] BY <1>1, <1>3, FlattenIsFcn
  <2>4. n \in 1..Len(ss) BY <1>1, <1>3
  <2> QED BY <1>1, <2>2, <2>3, <2>4, FlatElements
<1> QED BY <1>2, <1>3

(* If every element of a part has the number of the part as its key, the   *)
(* concatenation is in the order of the keys.                              *)
Ascending(key, s) == \A p, q \in 1..Len(s) : p < q => key[s[p]] <= key[s[q]]

LEMMA FlatAscending ==
  ASSUME NEW ss, Listing(ss), \A i \in DOMAIN ss : Listing(ss[i]), NEW f, Flattens(ss, f),
         NEW key, \A i \in DOMAIN ss : \A x \in ToSet(ss[i]) : key[x] = i
  PROVE  \A n \in 1..Len(ss) : Ascending(key, f[n])
<1> DEFINE Bad == {n \in 1..Len(ss) : ~Ascending(key, f[n])}
<1>0. Len(ss) \in Nat /\ DOMAIN ss = 1..Len(ss) BY ListingDomain
<1>1. \A n \in 1..Len(ss) : f[n] = FlatStep(ss, f, n) BY DEF Flattens
<1>2. \A n \in 1..Len(ss) : Listing(f[n]) /\ ToSet(f[n]) = UNION {ToSet(ss[i]) : i \in 1..n}
  BY FlatElements
<1>3. \A n \in 1..Len(ss) : \A p \in 1..Len(f[n]) : key[f[n][p]] \in 1..n
  <2> SUFFICES ASSUME NEW n \in 1..Len(ss), NEW p \in 1..Len(f[n]) PROVE key[f[n][p]] \in 1..n
    OBVIOUS
  <2>1. f[n][p] \in ToSet(f[n]) BY <1>2, ListingDomain DEF ToSet
  <2>2. PICK i \in 1..n : f[n][p] \in ToSet(ss[i]) BY <1>2, <2>1
  <2> QED BY <1>0, <2>2
<1>4. \A n \in 1..Len(ss) : \A p \in 1..Len(ss[n]) : key[ss[n][p]] = n
  BY <1>0, ListingDomain DEF ToSet
<1>5. 1 \in 1..Len(ss) => Ascending(key, f[1])
  <2> SUFFICES ASSUME 1 \in 1..Len(ss), NEW p \in 1..Len(f[1]), NEW q \in 1..Len(f[1])
               PROVE  key[f[1][p]] <= key[f[1][q]]
    BY DEF Ascending
  <2>1. key[f[1][p]] \in 1..1 /\ key[f[1][q]] \in 1..1 BY <1>3
  <2> QED BY <2>1
<1>6. ASSUME NEW n \in 1..Len(ss), n # 1, Ascending(key, f[n - 1]) PROVE Ascending(key, f[n])
  <2> DEFINE s == f[n - 1]
             t == ss[n]
  <2>0. f[n] = f[n - 1] \o ss[n] BY <1>1, <1>6 DEF FlatStep
  <2>1. f[n] = s \o t /\ n - 1 \in 1..Len(ss)
    <3>1. n - 1 \in 1..Len(ss)
      <4> HIDE DEF s, t
      <4> QED BY <1>0, <1>6
    <3> QED BY <2>0, <3>1
  <2>2. Listing(s) /\ Listing(t) BY <1>0, <1>2, <2>1
  <2> SUFFICES ASSUME NEW p \in 1..Len(f[n]), NEW q \in 1..Len(f[n]), p < q
               PROVE  key[f[n][p]] <= key[f[n][q]]
    BY DEF Ascending
  <2>3. Len(s) \in Nat /\ Len(t) \in Nat /\ Len(f[n]) = Len(s) + Len(t)
    BY <2>1, <2>2, ListingConcat, ListingDomain
  <2>4. CASE q <= Len(s)
    <3>1. p \in 1..Len(s) /\ q \in 1..Len(s) BY <2>3, <2>4
    <3>2. f[n][p] = s[p] /\ f[n][q] = s[q] BY <2>1, <2>2, <3>1, ListingConcat
    <3> QED BY <1>6, <3>1, <3>2 DEF Ascending
  <2>5. CASE ~(q <= Len(s))
    <3>1. q - Len(s) \in 1..Len(t) /\ Len(s) + (q - Len(s)) = q
      <4> HIDE DEF s, t
      <4> QED BY <2>3, <2>5
    <3>2. f[n][Len(s) + (q - Len(s))] = t[q - Len(s)] BY <2>1, <2>2, <3>1, ListingConcat
    <3>3. key[f[n][q]] = n BY <1>4, <3>1, <3>2
    <3>4. key[f[n][p]] \in 1..n BY <1>3
    <3> QED BY <1>0, <3>3, <3>4
  <2> QED BY <2>3, <2>4, <2>5
<1>7. Bad = {}
  <2> SUFFICES ASSUME Bad # {} PROVE FALSE OBVIOUS
  <2>0. Bad \subseteq Nat BY <1>0
  <2>1. PICK n \in Bad : \A k \in Bad : n <= k
    <3> HIDE DEF Bad
    <3> QED BY <2>0, Smallest
  <2>2. n # 1 BY <1>5, <2>1
  <2>3. n - 1 \in 1..Len(ss) /\ n - 1 \notin Bad BY <1>0, <2>1, <2>2
  <2> QED BY <1>6, <2>1, <2>2, <2>3
<1> QED BY <1>7

LEMMA FlattenedAscending ==
  ASSUME NEW n \in Nat, NEW ss, ss = [i \in 1..n |-> ss[i]], \A i \in 1..n : Listing(ss[i]),
         NEW key, \A i \in 1..n : \A x \in ToSet(ss[i]) : key[x] = i
  PROVE  Ascending(key, FlattenSeq(ss))
<1>1. Listing(ss) /\ Len(ss) = n /\ DOMAIN ss = 1..n BY ListingBasics
<1>2. CASE n = 0
  <2>1. FlattenSeq(ss) = ss BY <1>1, <1>2 DEF FlattenSeq
  <2> QED BY <1>1, <1>2, <2>1 DEF Ascending
<1>3. CASE n # 0
  <2>1. \E f : Flattens(ss, f) BY <1>1, FlatExists
  <2>2. Flattens(ss, FlatFcn(ss)) BY <2>1 DEF Flattens, FlatFcn
  <2>3. FlattenSeq(ss) = FlatFcn(ss)[n] BY <1>1, <1>3, FlattenIsFcn
  <2>4. n \in 1..Len(ss) BY <1>1, <1>3
  <2>5. \A m \in 1..Len(ss) : Ascending(key, FlatFcn(ss)[m])
    BY <1>1, <2>2, FlatAscending
  <2> QED BY <2>3, <2>4, <2>5
<1> QED BY <1>2, <1>3

-----------------------------------------------------------------------------
(* Of equal sources the first is kept, and of each source there is one.    *)
Selected(s, i) == \A j \in 1..i - 1 : ~SameSource(s[j], s[i])

LEMMA DedupeElements ==
  ASSUME NEW s, Listing(s)
  PROVE  /\ Listing(dedupeSources(s)) /\ ToSet(dedupeSources(s)) \subseteq ToSet(s)
         /\ \A x \in ToSet(s) : \E y \in ToSet(dedupeSources(s)) : SameSource(y, x)
<1> DEFINE n == Len(s)
           ss == [i \in 1..n |-> Optional(Selected(s, i), s[i])]
<1>0. n \in Nat /\ DOMAIN s = 1..n BY ListingDomain
<1>1. dedupeSources(s) = FlattenSeq(ss) BY <1>0 DEF dedupeSources, Selected
<1>2. ASSUME NEW i \in 1..n
      PROVE  Listing(ss[i]) /\ ToSet(ss[i]) = IF Selected(s, i) THEN {s[i]} ELSE {}
  <2>1. Selected(s, i) \in BOOLEAN BY DEF Selected
  <2>2. ss[i] = Optional(Selected(s, i), s[i]) OBVIOUS
  <2> QED BY <2>1, <2>2, ListingOptional
<1>3. ss = [i \in 1..n |-> ss[i]] OBVIOUS
<1> HIDE DEF ss, n
<1>4. Listing(FlattenSeq(ss)) /\ ToSet(FlattenSeq(ss)) = UNION {ToSet(ss[i]) : i \in 1..n}
  BY <1>0, <1>2, <1>3, Flattened
<1>5. ToSet(FlattenSeq(ss)) \subseteq ToSet(s)
  BY <1>0, <1>2, <1>4 DEF ToSet
<1>6. ASSUME NEW x \in ToSet(s) PROVE \E y \in ToSet(FlattenSeq(ss)) : SameSource(y, x)
  <2> DEFINE I == {i \in 1..n : SameSource(s[i], x)}
  <2>1. PICK k \in 1..n : x = s[k] BY <1>0 DEF ToSet
  <2>2. k \in I BY <2>1 DEF SameSource
  <2>3. I \subseteq Nat /\ I # {} BY <1>0, <2>2
  <2>4. PICK i \in I : \A j \in I : i <= j
    <3> HIDE DEF I
    <3> QED BY <2>3, Smallest
  <2>5. Selected(s, i)
    <3> SUFFICES ASSUME NEW j \in 1..i - 1, SameSource(s[j], s[i]) PROVE FALSE BY DEF Selected
    <3>1. j \in 1..n BY <1>0, <2>4
    <3>2. SameSource(s[j], x) BY <2>4 DEF SameSource
    <3>3. i <= j BY <2>4, <3>1, <3>2
    <3> QED BY <1>0, <2>4, <3>3
  <2>6. s[i] \in ToSet(FlattenSeq(ss)) BY <1>2, <1>4, <2>4, <2>5
  <2> QED BY <2>4, <2>6
<1> QED BY <1>1, <1>4, <1>5, <1>6

(* A rank is between 1 and 100, so ranking loses no source.                *)
Rank(s) == [x \in ToSet(s) |-> sourceRank(x)]

LEMMA RankedElements ==
  ASSUME NEW s, Listing(s)
  PROVE  /\ Listing(Ranked(s)) /\ ToSet(Ranked(s)) = ToSet(s)
         /\ Ascending(Rank(s), Ranked(s))
<1> DEFINE n == Len(s)
           With(rank) == [i \in 1..n |-> Optional(sourceRank(s[i]) = rank, s[i])]
           ss == [rank \in 1..100 |-> FlattenSeq(With(rank))]
<1>0. n \in Nat /\ DOMAIN s = 1..n BY ListingDomain
<1>1. Ranked(s) = FlattenSeq(ss) BY <1>0 DEF Ranked
<1>2. ASSUME NEW rank \in 1..100
      PROVE  Listing(ss[rank]) /\ ToSet(ss[rank]) = {x \in ToSet(s) : sourceRank(x) = rank}
  <2> DEFINE t == With(rank)
  <2>1. ASSUME NEW i \in 1..n
        PROVE  Listing(t[i]) /\ ToSet(t[i]) = IF sourceRank(s[i]) = rank THEN {s[i]} ELSE {}
    <3>1. t[i] = Optional(sourceRank(s[i]) = rank, s[i]) OBVIOUS
    <3> QED BY <3>1, ListingOptional
  <2>2. t = [i \in 1..n |-> t[i]] /\ ss[rank] = FlattenSeq(t) OBVIOUS
  <2> HIDE DEF t, ss, n
  <2>3. Listing(ss[rank]) /\ ToSet(ss[rank]) = UNION {ToSet(t[i]) : i \in 1..n}
    BY <1>0, <2>1, <2>2, Flattened
  <2>4. ToSet(s) = {s[i] : i \in 1..n} BY <1>0 DEF ToSet
  <2>5. ASSUME NEW x
        PROVE  x \in ToSet(ss[rank]) <=> x \in {y \in ToSet(s) : sourceRank(y) = rank}
    <3>1. x \in ToSet(ss[rank]) <=> \E i \in 1..n : x \in ToSet(t[i]) BY <2>3
    <3>2. @ <=> \E i \in 1..n : sourceRank(s[i]) = rank /\ x = s[i] BY <2>1
    <3> QED BY <2>4, <3>1, <3>2
  <2> QED BY <2>3, <2>5
<1>3. ss = [rank \in 1..100 |-> ss[rank]] OBVIOUS
<1>4. \A x : sourceRank(x) \in 1..100 BY DEF sourceRank
<1> HIDE DEF ss
<1>5. Listing(FlattenSeq(ss)) /\ ToSet(FlattenSeq(ss)) = UNION {ToSet(ss[i]) : i \in 1..100}
  BY <1>2, <1>3, Flattened
<1>6. UNION {ToSet(ss[i]) : i \in 1..100} = ToSet(s) BY <1>2, <1>4
<1>7. \A rank \in 1..100 : \A x \in ToSet(ss[rank]) : Rank(s)[x] = rank BY <1>2 DEF Rank
<1>8. Ascending(Rank(s), FlattenSeq(ss)) BY <1>2, <1>3, <1>7, FlattenedAscending
<1> QED BY <1>1, <1>5, <1>6, <1>8

-----------------------------------------------------------------------------
(* What the sources say of where the workload is kept: repository and path.*)
IsSource(x) == x = Source(x.controller, x.app, x.repo, x.revision, x.path, x.manifest)
Proper(s) == Listing(s) /\ \A x \in ToSet(s) : IsSource(x)
PlacesOf(s) == {<<x.repo, x.path>> : x \in ToSet(s)}

LEMMA OptionalPlace ==
  ASSUME NEW c \in BOOLEAN, NEW x, IsSource(x)
  PROVE  /\ Proper(Optional(c, x))
         /\ PlacesOf(Optional(c, x)) = IF c THEN {<<x.repo, x.path>>} ELSE {}
BY ListingOptional DEF PlacesOf, Proper

LEMMA FlattenedPlaces ==
  ASSUME NEW n \in Nat, NEW ss, ss = [i \in 1..n |-> ss[i]], \A i \in 1..n : Proper(ss[i])
  PROVE  Proper(FlattenSeq(ss)) /\ PlacesOf(FlattenSeq(ss)) = UNION {PlacesOf(ss[i]) : i \in 1..n}
<1>1. Listing(FlattenSeq(ss)) /\ ToSet(FlattenSeq(ss)) = UNION {ToSet(ss[i]) : i \in 1..n}
  BY Flattened DEF Proper
<1>0. Proper(FlattenSeq(ss)) BY <1>1 DEF Proper
<1> SUFFICES ASSUME NEW p
             PROVE  p \in PlacesOf(FlattenSeq(ss)) <=> p \in UNION {PlacesOf(ss[i]) : i \in 1..n}
  BY <1>0
<1>2. p \in PlacesOf(FlattenSeq(ss))
        <=> \E i \in 1..n : \E x \in ToSet(ss[i]) : p = <<x.repo, x.path>>
  BY <1>1 DEF PlacesOf
<1>3. @ <=> \E i \in 1..n : p \in PlacesOf(ss[i]) BY DEF PlacesOf
<1> QED BY <1>2, <1>3

(* An application names one source for each entry that has a repository.   *)
LEMMA ArgoSourcesPlaces ==
  ASSUME NEW app, Listing(app.sources)
  PROVE  /\ Proper(argoSources(app))
         /\ PlacesOf(argoSources(app))
              = {<<s.repo, s.path>> : s \in {t \in ToSet(app.sources) : t.repo # ""}}
<1> DEFINE n == Len(app.sources)
           at(i) == app.sources[i]
           made(i) == Source("argocd", app.name, at(i).repo, at(i).revision, at(i).path,
                             inferManifestType(DeclaredType(at(i).keys), at(i).path, at(i).repo))
           ss == [i \in 1..n |-> Optional(at(i).repo # "", made(i))]
<1>0. n \in Nat /\ DOMAIN app.sources = 1..n BY ListingDomain
<1>1. argoSources(app) = FlattenSeq(ss) BY <1>0 DEF argoSources
<1>2. ASSUME NEW i \in 1..n
      PROVE  /\ Proper(ss[i])
             /\ PlacesOf(ss[i]) = IF at(i).repo # "" THEN {<<at(i).repo, at(i).path>>} ELSE {}
  <2>1. ss[i] = Optional(at(i).repo # "", made(i)) OBVIOUS
  <2>2. made(i).repo = at(i).repo /\ made(i).path = at(i).path /\ IsSource(made(i))
    BY DEF Source, IsSource
  <2> HIDE DEF ss, made
  <2> QED BY <2>1, <2>2, OptionalPlace
<1>3. ss = [i \in 1..n |-> ss[i]] OBVIOUS
<1> HIDE DEF ss, n
<1>4. Proper(FlattenSeq(ss)) /\ PlacesOf(FlattenSeq(ss)) = UNION {PlacesOf(ss[i]) : i \in 1..n}
  BY <1>0, <1>2, <1>3, FlattenedPlaces
<1>5. ToSet(app.sources) = {at(i) : i \in 1..n} BY <1>0 DEF ToSet
<1>6. UNION {PlacesOf(ss[i]) : i \in 1..n}
        = {<<s.repo, s.path>> : s \in {t \in ToSet(app.sources) : t.repo # ""}}
  <2> SUFFICES ASSUME NEW p
               PROVE  p \in UNION {PlacesOf(ss[i]) : i \in 1..n}
                        <=> \E s \in ToSet(app.sources) : s.repo # "" /\ p = <<s.repo, s.path>>
    OBVIOUS
  <2>1. p \in UNION {PlacesOf(ss[i]) : i \in 1..n} <=> \E i \in 1..n : p \in PlacesOf(ss[i])
    OBVIOUS
  <2>2. @ <=> \E i \in 1..n : at(i).repo # "" /\ p = <<at(i).repo, at(i).path>>
    BY <1>2
  <2>3. @ <=> \E s \in ToSet(app.sources) : s.repo # "" /\ p = <<s.repo, s.path>>
    BY <1>5
  <2> QED BY <2>1, <2>2, <2>3
<1> QED BY <1>1, <1>4, <1>6

(* What each step of the resolver reaches of the directories of GitOps,    *)
(* when these reads fail.                                                  *)
OfApp(app) == {<<s.repo, s.path>> : s \in {t \in ToSet(app.sources) : t.repo # ""}}
Refs(world, lost, name) == workloadRefsForPod(world, <<"replicaset", name>> \notin lost)
ArgoReached(world, lost) ==
    IF <<"list", "applications">> \in lost THEN {}
    ELSE UNION {OfApp(a) : a \in {b \in ToSet(world.argo) : b.manages \cap Refs(world, lost, "") # {}}}
KustomizationReached(world, lost) ==
    IF <<"list", "kustomizations">> \in lost THEN {}
    ELSE {<<k.repo, k.path>> : k \in {l \in ToSet(world.kustomizations) :
            /\ l.repo # "" /\ <<"kustomization", l.name>> \notin lost
            /\ Refs(world, lost, l.name) \cap UNION l.inventory # {}}}
ReleaseReached(world, lost) ==
    IF <<"list", "helmreleases">> \in lost THEN {}
    ELSE {<<IF <<"helmrelease", r.name>> \notin lost THEN r.repo ELSE "", r.path>> :
            r \in {q \in ToSet(world.releases) :
                     world.release # "" /\ world.release \in {q.name, q.releaseName}}}

LEMMA EmptyPlaces == Proper(<<>>) /\ PlacesOf(<<>>) = {}
BY ListingEmpty DEF PlacesOf, Proper

(* Each step reaches its part: the applications, the two kinds of Flux     *)
(* objects, and the annotations.                                           *)
LEMMA ArgoResolved ==
  ASSUME NEW world, WorldOK(world), NEW lost
  PROVE  /\ Proper(resolveArgoCD(world, lost))
         /\ PlacesOf(resolveArgoCD(world, lost)) = ArgoReached(world, lost)
<1> DEFINE n == Len(world.argo)
           app(i) == world.argo[i]
           refs == Refs(world, lost, "")
           ss == [i \in 1..n |->
                    IF argoAppManagesWorkload(app(i), refs) THEN argoSources(app(i)) ELSE <<>>]
<1>a. CASE <<"list", "applications">> \in lost
  BY <1>a, EmptyPlaces DEF resolveArgoCD, ArgoReached
<1>b. CASE <<"list", "applications">> \notin lost
  <2>0. /\ n \in Nat /\ DOMAIN world.argo = 1..n
        /\ \A i \in 1..n : Listing(app(i).sources)
    BY ListingDomain DEF WorldOK, Located
  <2>1. resolveArgoCD(world, lost) = FlattenSeq(ss) BY <1>b, <2>0 DEF resolveArgoCD, Refs
  <2> HIDE DEF refs
  <2>2. ASSUME NEW i \in 1..n
        PROVE  /\ Proper(ss[i])
               /\ PlacesOf(ss[i]) = IF app(i).manages \cap refs # {} THEN OfApp(app(i)) ELSE {}
    <3>1. CASE app(i).manages \cap refs # {}
      <4>1. ss[i] = argoSources(app(i)) BY <3>1 DEF argoAppManagesWorkload
      <4> HIDE DEF ss
      <4> QED BY <2>0, <3>1, <4>1, ArgoSourcesPlaces DEF OfApp
    <3>2. CASE ~(app(i).manages \cap refs # {})
      <4>1. ss[i] = <<>> BY <3>2 DEF argoAppManagesWorkload
      <4> HIDE DEF ss
      <4> QED BY <3>2, <4>1, EmptyPlaces
    <3> QED BY <3>1, <3>2
  <2>3. ss = [i \in 1..n |-> ss[i]] OBVIOUS
  <2> HIDE DEF ss, n
  <2>4. Proper(FlattenSeq(ss)) /\ PlacesOf(FlattenSeq(ss)) = UNION {PlacesOf(ss[i]) : i \in 1..n}
    BY <2>0, <2>2, <2>3, FlattenedPlaces
  <2>5. ToSet(world.argo) = {app(i) : i \in 1..n} BY <2>0 DEF ToSet
  <2>6. UNION {PlacesOf(ss[i]) : i \in 1..n} = ArgoReached(world, lost)
    BY <1>b, <2>2, <2>5 DEF ArgoReached, refs
  <2> QED BY <2>1, <2>4, <2>6
<1> QED BY <1>a, <1>b

LEMMA KustomizationsResolved ==
  ASSUME NEW world, WorldOK(world), NEW lost
  PROVE  /\ Proper(resolveFluxKustomizations(world, lost))
         /\ PlacesOf(resolveFluxKustomizations(world, lost)) = KustomizationReached(world, lost)
<1> DEFINE n == Len(world.kustomizations)
           k(i) == world.kustomizations[i]
           refs(i) == Refs(world, lost, k(i).name)
           read(i) == <<"kustomization", k(i).name>> \notin lost
           source(i) == sourceFromFlux(k(i), "kustomize", read(i))
           picked(i) == source(i).repo # "" /\ fluxInventoryContainsAny(k(i).inventory, refs(i))
           meant(i) == k(i).repo # "" /\ read(i) /\ refs(i) \cap UNION k(i).inventory # {}
           ss == [i \in 1..n |-> Optional(picked(i), source(i))]
<1>a. CASE <<"list", "kustomizations">> \in lost
  BY <1>a, EmptyPlaces DEF resolveFluxKustomizations, KustomizationReached
<1>b. CASE <<"list", "kustomizations">> \notin lost
  <2>0. n \in Nat /\ DOMAIN world.kustomizations = 1..n BY ListingDomain DEF WorldOK, Located
  <2>1. resolveFluxKustomizations(world, lost) = FlattenSeq(ss)
    BY <1>b, <2>0 DEF resolveFluxKustomizations, Refs
  <2>2. ASSUME NEW i \in 1..n
        PROVE  /\ Proper(ss[i])
               /\ PlacesOf(ss[i]) = IF meant(i) THEN {<<k(i).repo, k(i).path>>} ELSE {}
    <3>1. ss[i] = Optional(picked(i), source(i)) OBVIOUS
    <3>2. /\ source(i).repo = IF read(i) THEN k(i).repo ELSE ""
          /\ source(i).path = k(i).path /\ IsSource(source(i))
      BY DEF sourceFromFlux, Source, IsSource
    <3> HIDE DEF source, read, refs
    <3>3. picked(i) <=> meant(i) BY <3>2 DEF fluxInventoryContainsAny
    <3>4. meant(i) => source(i).repo = k(i).repo BY <3>2
    <3>5. picked(i) \in BOOLEAN OBVIOUS
    <3> HIDE DEF ss, picked, meant
    <3> QED BY <3>1, <3>2, <3>3, <3>4, <3>5, OptionalPlace
  <2>3. ss = [i \in 1..n |-> ss[i]] OBVIOUS
  <2> HIDE DEF ss, n
  <2>4. Proper(FlattenSeq(ss)) /\ PlacesOf(FlattenSeq(ss)) = UNION {PlacesOf(ss[i]) : i \in 1..n}
    BY <2>0, <2>2, <2>3, FlattenedPlaces
  <2>5. ToSet(world.kustomizations) = {k(i) : i \in 1..n} BY <2>0 DEF ToSet
  <2>6. UNION {PlacesOf(ss[i]) : i \in 1..n} = KustomizationReached(world, lost)
    <3> SUFFICES ASSUME NEW p
                 PROVE  p \in UNION {PlacesOf(ss[i]) : i \in 1..n}
                          <=> p \in KustomizationReached(world, lost)
      OBVIOUS
    <3>1. p \in UNION {PlacesOf(ss[i]) : i \in 1..n} <=> \E i \in 1..n : p \in PlacesOf(ss[i])
      OBVIOUS
    <3>2. @ <=> \E i \in 1..n : meant(i) /\ p = <<k(i).repo, k(i).path>>
      BY <2>2
    <3>3. @ <=> p \in KustomizationReached(world, lost)
      BY <1>b, <2>5 DEF KustomizationReached
    <3> QED BY <3>1, <3>2, <3>3
  <2> QED BY <2>1, <2>4, <2>6
<1> QED BY <1>a, <1>b

LEMMA ReleasesResolved ==
  ASSUME NEW world, WorldOK(world), NEW lost
  PROVE  /\ Proper(resolveFluxHelmReleases(world, lost))
         /\ PlacesOf(resolveFluxHelmReleases(world, lost)) = ReleaseReached(world, lost)
<1> DEFINE n == Len(world.releases)
           r(i) == world.releases[i]
           picked(i) == world.release # "" /\ world.release \in {r(i).name, r(i).releaseName}
           read(i) == <<"helmrelease", r(i).name>> \notin lost
           source(i) == sourceFromFlux(r(i), "flux-helmrelease", read(i))
           place(i) == <<IF read(i) THEN r(i).repo ELSE "", r(i).path>>
           ss == [i \in 1..n |-> Optional(picked(i), source(i))]
<1>a. CASE <<"list", "helmreleases">> \in lost
  BY <1>a, EmptyPlaces DEF resolveFluxHelmReleases, ReleaseReached
<1>b. CASE <<"list", "helmreleases">> \notin lost
  <2>0. n \in Nat /\ DOMAIN world.releases = 1..n BY ListingDomain DEF WorldOK, Located
  <2>1. resolveFluxHelmReleases(world, lost) = FlattenSeq(ss)
    BY <1>b, <2>0 DEF resolveFluxHelmReleases
  <2>2. ASSUME NEW i \in 1..n
        PROVE  Proper(ss[i]) /\ PlacesOf(ss[i]) = IF picked(i) THEN {place(i)} ELSE {}
    <3>1. ss[i] = Optional(picked(i), source(i)) OBVIOUS
    <3>2. place(i) = <<source(i).repo, source(i).path>> /\ IsSource(source(i))
      BY DEF sourceFromFlux, Source, IsSource
    <3>3. picked(i) \in BOOLEAN OBVIOUS
    <3> HIDE DEF ss, picked, source, place
    <3> QED BY <3>1, <3>2, <3>3, OptionalPlace
  <2>3. ss = [i \in 1..n |-> ss[i]] OBVIOUS
  <2> HIDE DEF ss, n
  <2>4. Proper(FlattenSeq(ss)) /\ PlacesOf(FlattenSeq(ss)) = UNION {PlacesOf(ss[i]) : i \in 1..n}
    BY <2>0, <2>2, <2>3, FlattenedPlaces
  <2>5. ToSet(world.releases) = {r(i) : i \in 1..n} BY <2>0 DEF ToSet
  <2>6. UNION {PlacesOf(ss[i]) : i \in 1..n} = ReleaseReached(world, lost)
    <3> SUFFICES ASSUME NEW p
                 PROVE  p \in UNION {PlacesOf(ss[i]) : i \in 1..n}
                          <=> p \in ReleaseReached(world, lost)
      OBVIOUS
    <3>1. p \in UNION {PlacesOf(ss[i]) : i \in 1..n} <=> \E i \in 1..n : p \in PlacesOf(ss[i])
      OBVIOUS
    <3>2. @ <=> \E i \in 1..n : picked(i) /\ p = place(i)
      BY <2>2
    <3>3. @ <=> p \in ReleaseReached(world, lost)
      BY <1>b, <2>5 DEF ReleaseReached
    <3> QED BY <3>1, <3>2, <3>3
  <2> QED BY <2>1, <2>4, <2>6
<1> QED BY <1>a, <1>b

LEMMA AnnotationsResolved ==
  ASSUME NEW world, WorldOK(world)
  PROVE  /\ Proper(resolveAnnotations(world))
         /\ PlacesOf(resolveAnnotations(world)) = Noted(world)
<1>0. /\ Len(world.note) \in Nat /\ Len(world.note) <= 1
      /\ DOMAIN world.note = 1..Len(world.note)
      /\ world.note = [i \in 1..Len(world.note) |-> world.note[i]]
  BY ListingDomain DEF WorldOK, Located
<1>1. CASE world.note = <<>>
  <2>1. resolveAnnotations(world) = <<>> BY <1>1 DEF resolveAnnotations
  <2> QED BY <1>1, <2>1, ListingEmpty DEF PlacesOf, Proper, Noted
<1>2. CASE world.note # <<>>
  <2> DEFINE n == world.note[1]
             x == Source("annotation", "", n.repo, n.revision, n.path,
                         inferManifestType("unknown", n.path, n.repo))
  <2>1. DOMAIN world.note = {1} BY <1>0, <1>2
  <2>2. ToSet(world.note) = {n} BY <2>1 DEF ToSet
  <2>3. resolveAnnotations(world) = <<x>> BY <1>2 DEF resolveAnnotations
  <2>4. x.repo = n.repo /\ x.path = n.path /\ IsSource(x) BY DEF Source, IsSource
  <2> HIDE DEF x, n
  <2>5. Listing(<<x>>) /\ ToSet(<<x>>) = {x} BY DEF Listing, ToSet
  <2> QED BY <2>2, <2>3, <2>4, <2>5 DEF PlacesOf, Proper, Noted
<1> QED BY <1>1, <1>2

(* What the resolver reaches is kept by GitOps: all of it, if it can read  *)
(* what it asks for.                                                       *)
Reached(world, lost) ==
    (IF ArgoCDEnabled THEN ArgoReached(world, lost) ELSE {})
      \cup KustomizationReached(world, lost) \cup ReleaseReached(world, lost)
Unplaced(place) == place[1] = ""

LEMMA ReachedIsManaged ==
  ASSUME NEW world, NEW lost
  PROVE  /\ \A place \in Reached(world, lost) : Unplaced(place) \/ place \in Managed(world)
         /\ lost = {} => Reached(world, lost) = Managed(world)
<1> DEFINE names == {"pod"} \cup (IF world.owned THEN {"owner", "controller"} ELSE {})
           argo == UNION {OfApp(a) : a \in {b \in ToSet(world.argo) :
                                              ArgoCDEnabled /\ b.manages \cap names # {}}}
           kustomizations == {<<k.repo, k.path>> : k \in {l \in ToSet(world.kustomizations) :
                                l.repo # "" /\ names \cap UNION l.inventory # {}}}
           picked == {q \in ToSet(world.releases) :
                        world.release # "" /\ world.release \in {q.name, q.releaseName}}
           releases == {<<r.repo, r.path>> : r \in picked}
<1>1. Managed(world) = argo \cup kustomizations \cup releases BY DEF Managed, OfApp
<1>2. \A name : Refs(world, lost, name) \subseteq names /\ (lost = {} => Refs(world, lost, name) = names)
  BY DEF Refs, workloadRefsForPod
<1> HIDE DEF names
<1> DEFINE reached == IF ArgoCDEnabled THEN ArgoReached(world, lost) ELSE {}
<1>3. reached \subseteq argo /\ (lost = {} => reached = argo)
  <2>0. Refs(world, lost, "") \subseteq names /\ (lost = {} => Refs(world, lost, "") = names) BY <1>2
  <2>1. \A p : p \in reached <=>
          /\ ArgoCDEnabled /\ <<"list", "applications">> \notin lost
          /\ \E a \in ToSet(world.argo) : a.manages \cap Refs(world, lost, "") # {} /\ p \in OfApp(a)
    BY DEF ArgoReached
  <2>2. \A p : p \in argo <=>
          \E a \in ToSet(world.argo) : ArgoCDEnabled /\ a.manages \cap names # {} /\ p \in OfApp(a)
    OBVIOUS
  <2> HIDE DEF reached, argo
  <2> QED BY <2>0, <2>1, <2>2
<1>4. /\ KustomizationReached(world, lost) \subseteq kustomizations
      /\ lost = {} => KustomizationReached(world, lost) = kustomizations
  <2>1. \A p : p \in KustomizationReached(world, lost) <=>
          /\ <<"list", "kustomizations">> \notin lost
          /\ \E k \in ToSet(world.kustomizations) :
               /\ k.repo # "" /\ <<"kustomization", k.name>> \notin lost
               /\ Refs(world, lost, k.name) \cap UNION k.inventory # {}
               /\ p = <<k.repo, k.path>>
    BY DEF KustomizationReached
  <2>2. \A p : p \in kustomizations <=>
          \E k \in ToSet(world.kustomizations) :
            k.repo # "" /\ names \cap UNION k.inventory # {} /\ p = <<k.repo, k.path>>
    OBVIOUS
  <2> HIDE DEF kustomizations
  <2>3. ASSUME NEW p, p \in KustomizationReached(world, lost) PROVE p \in kustomizations
    <3>1. PICK k \in ToSet(world.kustomizations) :
                 /\ k.repo # "" /\ Refs(world, lost, k.name) \cap UNION k.inventory # {}
                 /\ p = <<k.repo, k.path>>
      BY <2>1, <2>3
    <3>2. names \cap UNION k.inventory # {} BY <1>2, <3>1
    <3> QED BY <2>2, <3>1, <3>2
  <2>4. ASSUME lost = {}, NEW p, p \in kustomizations
        PROVE  p \in KustomizationReached(world, lost)
    <3>1. PICK k \in ToSet(world.kustomizations) :
                 k.repo # "" /\ names \cap UNION k.inventory # {} /\ p = <<k.repo, k.path>>
      BY <2>2, <2>4
    <3>2. Refs(world, lost, k.name) \cap UNION k.inventory # {} BY <1>2, <2>4, <3>1
    <3> QED BY <2>1, <2>4, <3>1, <3>2
  <2> QED BY <2>3, <2>4
<1>5. /\ \A p \in ReleaseReached(world, lost) : Unplaced(p) \/ p \in releases
      /\ lost = {} => ReleaseReached(world, lost) = releases
  <2>1. \A p : p \in ReleaseReached(world, lost) <=>
          /\ <<"list", "helmreleases">> \notin lost
          /\ \E r \in picked : p = <<IF <<"helmrelease", r.name>> \notin lost THEN r.repo ELSE "", r.path>>
    BY DEF ReleaseReached
  <2> HIDE DEF picked
  <2>2. \A p : p \in releases <=> \E r \in picked : p = <<r.repo, r.path>> OBVIOUS
  <2> HIDE DEF releases
  <2>3. ASSUME NEW p, p \in ReleaseReached(world, lost) PROVE Unplaced(p) \/ p \in releases
    <3>1. PICK r \in picked : p = <<IF <<"helmrelease", r.name>> \notin lost THEN r.repo ELSE "", r.path>>
      BY <2>1, <2>3
    <3>2. CASE <<"helmrelease", r.name>> \notin lost
      <4>1. p = <<r.repo, r.path>> BY <3>1, <3>2
      <4> QED BY <2>2, <4>1
    <3>3. CASE <<"helmrelease", r.name>> \in lost
      <4>1. p = <<"", r.path>> BY <3>1, <3>3
      <4> QED BY <4>1 DEF Unplaced
    <3> QED BY <3>2, <3>3
  <2>4. ASSUME lost = {} PROVE ReleaseReached(world, lost) = releases
    <3>1. ASSUME NEW p
          PROVE  p \in ReleaseReached(world, lost) <=> \E r \in picked : p = <<r.repo, r.path>>
      <4>1. \A r : <<IF <<"helmrelease", r.name>> \notin lost THEN r.repo ELSE "", r.path>>
                     = <<r.repo, r.path>>
        BY <2>4
      <4>2. <<"list", "helmreleases">> \notin lost BY <2>4
      <4> HIDE <2>4
      <4> DEFINE made(r) == <<IF <<"helmrelease", r.name>> \notin lost THEN r.repo ELSE "", r.path>>
      <4>3. p \in ReleaseReached(world, lost) <=> \E r \in picked : p = made(r) BY <2>1, <4>2
      <4>4. \A r : made(r) = <<r.repo, r.path>> BY <4>1
      <4> HIDE DEF made
      <4> QED BY <4>3, <4>4
    <3>4. \A p : p \in ReleaseReached(world, lost) <=> p \in releases BY <2>2, <3>1
    <3>5. ReleaseReached(world, lost) \subseteq releases /\ releases \subseteq ReleaseReached(world, lost)
      BY <3>4
    <3> QED BY <3>5
  <2> QED BY <2>3, <2>4
<1> HIDE DEF argo, kustomizations, releases, reached
<1>6. Reached(world, lost) = reached \cup KustomizationReached(world, lost) \cup ReleaseReached(world, lost)
  BY DEF Reached, reached
<1> QED BY <1>1, <1>3, <1>4, <1>5, <1>6

(* The sources of a pod lie where GitOps keeps the workload, or all of     *)
(* them where its annotations say: that only where GitOps does not manage  *)
(* it or a read failed.  If none fails no directory is forgotten.  They    *)
(* are listed by rank.  (A release whose repository cannot be read is a    *)
(* source without one.)  The code is ResolvePod.                           *)
THEOREM ResolvedPlaces ==
  ASSUME NEW world, WorldOK(world), NEW lost
  PROVE  LET sources == ResolvePod(world, lost) IN
         /\ Proper(sources) /\ Ascending(Rank(sources), sources)
         /\ \/ \A place \in PlacesOf(sources) : Unplaced(place) \/ place \in Managed(world)
            \/ PlacesOf(sources) = Noted(world) /\ (Managed(world) = {} \/ lost # {})
         /\ lost = {} => PlacesOf(sources) = IF Managed(world) # {} THEN Managed(world) ELSE Noted(world)
<1> DEFINE argo == IF ArgoCDEnabled THEN resolveArgoCD(world, lost) ELSE <<>>
           managed == argo \o resolveFluxKustomizations(world, lost)
                        \o resolveFluxHelmReleases(world, lost)
           found == IF managed = <<>> THEN resolveAnnotations(world) ELSE managed
           kept == Reached(world, lost)
<1>1. ResolvePod(world, lost) = Ranked(dedupeSources(found)) BY DEF ResolvePod
<1>3. Proper(argo) /\ PlacesOf(argo) = IF ArgoCDEnabled THEN ArgoReached(world, lost) ELSE {}
  BY ArgoResolved, EmptyPlaces
<1> HIDE DEF argo
<1>4. Proper(managed) /\ PlacesOf(managed) = kept
  <2>1. \A a, b : Proper(a) /\ Proper(b)
                    => Proper(a \o b) /\ PlacesOf(a \o b) = PlacesOf(a) \cup PlacesOf(b)
    BY ListingConcat DEF PlacesOf, Proper
  <2> QED BY <1>3, <2>1, KustomizationsResolved, ReleasesResolved DEF Reached
<1>5. managed = <<>> <=> kept = {}
  <2>1. managed = <<>> => kept = {} BY <1>4, EmptyPlaces
  <2>2. managed # <<>> => kept # {}
    <3> SUFFICES ASSUME managed # <<>> PROVE PlacesOf(managed) # {} BY <1>4
    <3> HIDE DEF managed
    <3>0. Listing(managed) BY <1>4 DEF Proper
    <3>1. PICK i \in 1..Len(managed) : TRUE BY <3>0, ListingDomain
    <3>2. managed[i] \in ToSet(managed) BY <3>0, ListingDomain DEF ToSet
    <3> QED BY <3>2 DEF PlacesOf
  <2> QED BY <2>1, <2>2
<1> HIDE DEF managed, kept
<1>6. Proper(found) /\ PlacesOf(found) = IF kept # {} THEN kept ELSE Noted(world)
  BY <1>4, <1>5, AnnotationsResolved
<1> HIDE DEF found
<1> DEFINE distinct == dedupeSources(found)
<1>7. Proper(distinct) /\ PlacesOf(distinct) = PlacesOf(found)
  <2>1. \A x, y : SameSource(y, x) => y.repo = x.repo /\ y.path = x.path
    <3> SUFFICES ASSUME NEW x, NEW y, SameSource(y, x) PROVE y.repo = x.repo /\ y.path = x.path
      OBVIOUS
    <3> QED BY DEF SameSource
  <2> QED BY <1>6, <2>1, DedupeElements DEF PlacesOf, Proper
<1> HIDE DEF distinct
<1>8. /\ Proper(Ranked(distinct)) /\ ToSet(Ranked(distinct)) = ToSet(distinct)
      /\ Ascending(Rank(distinct), Ranked(distinct))
  BY <1>7, RankedElements DEF Proper
<1>9. Rank(Ranked(distinct)) = Rank(distinct) /\ PlacesOf(Ranked(distinct)) = PlacesOf(distinct)
  BY <1>8 DEF Rank, PlacesOf
<1>10. /\ Proper(ResolvePod(world, lost))
       /\ Ascending(Rank(ResolvePod(world, lost)), ResolvePod(world, lost))
       /\ PlacesOf(ResolvePod(world, lost)) = IF kept # {} THEN kept ELSE Noted(world)
  BY <1>1, <1>6, <1>7, <1>8, <1>9 DEF distinct
<1>11. /\ \A place \in kept : Unplaced(place) \/ place \in Managed(world)
       /\ lost = {} => kept = Managed(world)
  BY ReachedIsManaged DEF kept
<1> QED BY <1>10, <1>11
=============================================================================
