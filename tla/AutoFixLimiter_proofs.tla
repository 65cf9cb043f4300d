----------------------- MODULE AutoFixLimiter_proofs -----------------------
(***************************************************************************)
(* The limit on automatic pull requests, for any number of callers, any    *)
(* limit and any length of the hour.                                       *)
(*                                                                         *)
(* The first part is about Number, the sum of a function over a finite     *)
(* set: it is a fold, a recursive function of the subsets of the set, so   *)
(* what it computes is proved by looking at a smallest set for which the   *)
(* statement fails.  The second part is the invariant of the limiter.      *)
(***************************************************************************)
EXTENDS AutoFixLimiter, LeastElements

-----------------------------------------------------------------------------
(* What Number does, in the words of the fold: from a set it takes an      *)
(* element, and adds its value to the number of the rest.                  *)
Pick(s) == CHOOSE x \in s : TRUE
NumberStep(f, g, s) == IF s = {} THEN 0 ELSE f[Pick(s)] + g[s \ {Pick(s)}]
NumberFcn(f, S) == CHOOSE g : g = [s \in SUBSET S |-> NumberStep(f, g, s)]
Counts(f, S, g) == g = [s \in SUBSET S |-> NumberStep(f, g, s)]

LEMMA NumberIsFcn == ASSUME NEW f, NEW S PROVE Number(f, S) = NumberFcn(f, S)[S]
  BY DEF Number, MapThenSumSet, MapThenFoldSet, NumberFcn, NumberStep, Pick

(* There is such a function of the subsets, it is the only one, and so     *)
(* Number obeys the equation it is defined by.                             *)
LEMMA NumberExists ==
  ASSUME NEW f, NEW S, IsFiniteSet(S), \A x \in S : f[x] \in Nat
  PROVE  \E g \in [SUBSET S -> Nat] : Counts(f, S, g)
<1> DEFINE Upto(n) == \E g \in [SUBSET S -> Nat] :
             \A s \in SUBSET S : Cardinality(s) <= n => g[s] = NumberStep(f, g, s)
           Bad == {n \in Nat : ~Upto(n)}
<1>0. ASSUME NEW s \in SUBSET S, s # {}
      PROVE  /\ Cardinality(s) \in Nat /\ Pick(s) \in s /\ s \ {Pick(s)} \in SUBSET S
             /\ Cardinality(s \ {Pick(s)}) = Cardinality(s) - 1
             /\ Cardinality(s) > 0
  <2>1. IsFiniteSet(s) BY <1>0, FS_Subset
  <2>2. Pick(s) \in s BY <1>0 DEF Pick
  <2>3. Cardinality(s) \in Nat BY <2>1, FS_CardinalityType
  <2>4. Cardinality(s) # 0 BY <1>0, <2>1, FS_EmptySet
  <2>5. Cardinality(s \ {Pick(s)}) = Cardinality(s) - 1
    BY <2>1, <2>2, FS_RemoveElement
  <2> QED BY <2>2, <2>3, <2>4, <2>5
<1>1. Upto(0)
  <2> DEFINE g == [s \in SUBSET S |-> 0]
  <2>1. \A s \in SUBSET S : Cardinality(s) <= 0 => g[s] = NumberStep(f, g, s)
    <3> SUFFICES ASSUME NEW s \in SUBSET S, Cardinality(s) <= 0
                 PROVE  g[s] = NumberStep(f, g, s)
      OBVIOUS
    <3>0. Cardinality(s) <= 0 OBVIOUS
    <3>1. s = {}
      <4> SUFFICES ASSUME s # {} PROVE FALSE OBVIOUS
      <4>1. Cardinality(s) \in Nat /\ Cardinality(s) > 0 BY <1>0
      <4> QED BY <3>0, <4>1
    <3> QED BY <3>1 DEF NumberStep
  <2> QED BY <2>1
<1>2. ASSUME NEW n \in Nat, Upto(n) PROVE Upto(n + 1)
  <2>1. PICK g \in [SUBSET S -> Nat] :
             \A s \in SUBSET S : Cardinality(s) <= n => g[s] = NumberStep(f, g, s)
    BY <1>2
  <2> DEFINE h == [s \in SUBSET S |-> NumberStep(f, g, s)]
  <2>2. ASSUME NEW s \in SUBSET S PROVE NumberStep(f, g, s) \in Nat
    <3>1. CASE s = {} BY <3>1 DEF NumberStep
    <3>2. CASE s # {}
      <4>1. f[Pick(s)] \in Nat /\ s \ {Pick(s)} \in SUBSET S BY <1>0, <3>2
      <4>2. g[s \ {Pick(s)}] \in Nat BY <2>1, <4>1
      <4> HIDE DEF h
      <4>3. f[Pick(s)] + g[s \ {Pick(s)}] \in Nat BY <4>1, <4>2
      <4> QED BY <3>2, <4>3 DEF NumberStep
    <3> QED BY <3>1, <3>2
  <2>3. ASSUME NEW s \in SUBSET S, Cardinality(s) <= n + 1
        PROVE  h[s] = NumberStep(f, h, s)
    <3>1. CASE s = {} BY <3>1 DEF NumberStep
    <3>2. CASE s # {}
      <4>1. Cardinality(s \ {Pick(s)}) <= n /\ s \ {Pick(s)} \in SUBSET S
        BY <1>0, <2>3, <3>2
      <4>2. h[s \ {Pick(s)}] = g[s \ {Pick(s)}]
        BY <2>1, <4>1
      <4> QED BY <3>2, <4>2 DEF NumberStep
    <3> QED BY <3>1, <3>2
  <2> HIDE DEF h
  <2>4. h \in [SUBSET S -> Nat] BY <2>2 DEF h
  <2> QED BY <2>3, <2>4
<1> HIDE DEF Upto
<1>3. \A n \in Nat : Upto(n)
  <2> SUFFICES ASSUME Bad # {} PROVE FALSE OBVIOUS
  <2>1. PICK n \in Bad : \A m \in Bad : n <= m BY Smallest
  <2>2. n # 0 BY <1>1, <2>1
  <2>3. n - 1 \in Nat /\ n - 1 \notin Bad BY <2>1, <2>2
  <2> QED BY <1>2, <2>1, <2>3
<1>4. Upto(Cardinality(S)) BY <1>3, FS_CardinalityType
<1>5. PICK g \in [SUBSET S -> Nat] :
             \A s \in SUBSET S : Cardinality(s) <= Cardinality(S) => g[s] = NumberStep(f, g, s)
  BY <1>4 DEF Upto
<1>6. \A s \in SUBSET S : g[s] = NumberStep(f, g, s)
  BY <1>5, FS_Subset
<1> QED BY <1>6 DEF Counts

LEMMA NumberUnique ==
  ASSUME NEW f, NEW S, NEW T, IsFiniteSet(S), NEW g, NEW h, Counts(f, S, g), Counts(f, T, h),
         NEW s, s \subseteq S, s \subseteq T
  PROVE  g[s] = h[s]
<1> DEFINE Bad == {r \in SUBSET s : g[r] # h[r]}
<1> SUFFICES ASSUME Bad # {} PROVE FALSE OBVIOUS
<1>1. PICK r \in Bad : \A q \in Bad : q \subseteq r => q = r
  BY SmallestSet, FS_Subset
<1>2. g[r] = NumberStep(f, g, r) /\ h[r] = NumberStep(f, h, r)
  BY <1>1 DEF Counts
<1>3. r # {} BY <1>1, <1>2 DEF NumberStep
<1>4. Pick(r) \in r BY <1>3 DEF Pick
<1>5. g[r \ {Pick(r)}] = h[r \ {Pick(r)}] BY <1>1, <1>4
<1> QED BY <1>1, <1>2, <1>5 DEF NumberStep

LEMMA NumberDef ==
  ASSUME NEW f, NEW S, IsFiniteSet(S), \A x \in S : f[x] \in Nat
  PROVE  /\ Number(f, S) \in Nat
         /\ Number(f, S) = IF S = {} THEN 0 ELSE f[Pick(S)] + Number(f, S \ {Pick(S)})
<1>1. PICK g \in [SUBSET S -> Nat] : Counts(f, S, g) BY NumberExists
<1>2. Counts(f, S, NumberFcn(f, S)) BY <1>1 DEF NumberFcn, Counts
<1>3. Number(f, S) = g[S] BY <1>1, <1>2, NumberUnique, NumberIsFcn
<1>4. ASSUME S # {} PROVE Number(f, S \ {Pick(S)}) = g[S \ {Pick(S)}]
  <2> DEFINE R == S \ {Pick(S)}
  <2>0. IsFiniteSet(R) /\ \A x \in R : f[x] \in Nat BY FS_Subset
  <2> HIDE DEF R
  <2>1. PICK h \in [SUBSET R -> Nat] : Counts(f, R, h) BY <2>0, NumberExists
  <2>2. Counts(f, R, NumberFcn(f, R)) BY <2>1 DEF NumberFcn, Counts
  <2>3. Number(f, R) = NumberFcn(f, R)[R] BY NumberIsFcn
  <2>4. R \subseteq S BY DEF R
  <2>5. NumberFcn(f, R)[R] = g[R] BY <1>1, <2>0, <2>2, <2>4, NumberUnique
  <2> QED BY <2>3, <2>5 DEF R
<1>5. g[S] = NumberStep(f, g, S) BY <1>1 DEF Counts
<1> QED BY <1>1, <1>3, <1>4, <1>5 DEF NumberStep

(* Whichever element is taken first, the sum is the same.                  *)
LEMMA NumberRemove ==
  ASSUME NEW f, NEW S, IsFiniteSet(S), \A x \in S : f[x] \in Nat, NEW x \in S
  PROVE  Number(f, S) = f[x] + Number(f, S \ {x})
<1> DEFINE Bad == {s \in SUBSET S : \E y \in s : Number(f, s) # f[y] + Number(f, s \ {y})}
<1> SUFFICES ASSUME Bad # {} PROVE FALSE OBVIOUS
<1>0. Bad \subseteq SUBSET S OBVIOUS
<1>1. PICK s \in Bad : \A r \in Bad : r \subseteq s => r = s
  <2> HIDE DEF Bad
  <2> QED BY <1>0, SmallestSet
<1>2. PICK y \in s : Number(f, s) # f[y] + Number(f, s \ {y}) BY <1>1
<1> DEFINE c == Pick(s)
           d == s \ {c}
           e == s \ {y}
           r == s \ {c, y}
<1>3. c \in s /\ d \in SUBSET S /\ e \in SUBSET S /\ r \in SUBSET S BY <1>1, <1>2 DEF Pick
<1>4. IsFiniteSet(s) /\ IsFiniteSet(d) /\ IsFiniteSet(e) /\ IsFiniteSet(r)
  BY <1>1, <1>3, FS_Subset
<1>5. Number(f, s) = f[c] + Number(f, d)
  BY <1>1, <1>2, <1>4, NumberDef
<1>6. c # y BY <1>2, <1>5
<1>7. Number(f, d) = f[y] + Number(f, r)
  <2>1. d \notin Bad BY <1>1, <1>3
  <2>2. y \in d /\ d \ {y} = r BY <1>6
  <2> QED BY <1>3, <2>1, <2>2
<1>8. Number(f, e) = f[c] + Number(f, r)
  <2>1. e \notin Bad BY <1>1, <1>2, <1>3
  <2>2. c \in e /\ e \ {c} = r BY <1>3, <1>6
  <2> QED BY <1>3, <2>1, <2>2
<1>9. Number(f, r) \in Nat /\ f[c] \in Nat /\ f[y] \in Nat
  BY <1>1, <1>3, <1>4, NumberDef
<1> HIDE DEF c, d, r
<1> QED BY <1>2, <1>5, <1>7, <1>8, <1>9

LEMMA NumberType ==
  ASSUME NEW f, NEW S, IsFiniteSet(S), \A x \in S : f[x] \in Nat
  PROVE  Number(f, S) \in Nat
BY NumberDef

(* A greater function has a greater sum, an equal one the same.            *)
LEMMA NumberLess ==
  ASSUME NEW f, NEW g, NEW S, IsFiniteSet(S),
         \A x \in S : f[x] \in Nat /\ g[x] \in Nat /\ f[x] <= g[x]
  PROVE  Number(f, S) <= Number(g, S)
<1> DEFINE Bad == {s \in SUBSET S : ~(Number(f, s) <= Number(g, s))}
<1> SUFFICES ASSUME Bad # {} PROVE FALSE OBVIOUS
<1>0. Bad \subseteq SUBSET S OBVIOUS
<1>1. PICK s \in Bad : \A r \in Bad : r \subseteq s => r = s
  <2> HIDE DEF Bad
  <2> QED BY <1>0, SmallestSet
<1>2. IsFiniteSet(s) BY <1>1, FS_Subset
<1>3. s # {}
  <2> SUFFICES ASSUME s = {} PROVE FALSE OBVIOUS
  <2>1. Number(f, s) = 0 /\ Number(g, s) = 0 BY <1>2, NumberDef
  <2> QED BY <1>1, <2>1
<1>4. PICK x \in s : TRUE BY <1>3
<1> DEFINE r == s \ {x}
<1>5. IsFiniteSet(r) /\ r \in SUBSET S /\ r \notin Bad BY <1>1, <1>2, <1>4, FS_Subset
<1>6. Number(f, s) = f[x] + Number(f, r) /\ Number(g, s) = g[x] + Number(g, r)
  BY <1>1, <1>2, <1>4, NumberRemove
<1>7. Number(f, r) \in Nat /\ Number(g, r) \in Nat BY <1>5, NumberType
<1>8. Number(f, r) <= Number(g, r) BY <1>5
<1>9. f[x] \in Nat /\ g[x] \in Nat /\ f[x] <= g[x] BY <1>1, <1>4
<1>10. ~(Number(f, s) <= Number(g, s)) BY <1>1
<1> HIDE DEF r
<1> QED BY <1>6, <1>7, <1>8, <1>9, <1>10

LEMMA NumberSame ==
  ASSUME NEW f, NEW g, NEW S, IsFiniteSet(S), \A x \in S : f[x] \in Nat /\ f[x] = g[x]
  PROVE  Number(f, S) = Number(g, S)
<1>1. Number(f, S) <= Number(g, S) /\ Number(g, S) <= Number(f, S) BY NumberLess
<1> QED BY <1>1, NumberType

(* Fewer elements have a smaller sum.                                      *)
LEMMA NumberSubset ==
  ASSUME NEW f, NEW S, IsFiniteSet(S), \A x \in S : f[x] \in Nat, NEW T \in SUBSET S
  PROVE  Number(f, T) <= Number(f, S)
<1> DEFINE Bad == {s \in SUBSET S : T \subseteq s /\ ~(Number(f, T) <= Number(f, s))}
<1> SUFFICES ASSUME Bad # {} PROVE FALSE OBVIOUS
<1>0. Bad \subseteq SUBSET S OBVIOUS
<1>1. PICK s \in Bad : \A r \in Bad : r \subseteq s => r = s
  <2> HIDE DEF Bad
  <2> QED BY <1>0, SmallestSet
<1>2. IsFiniteSet(s) /\ IsFiniteSet(T) BY <1>1, FS_Subset
<1>3. Number(f, T) \in Nat BY <1>2, NumberType
<1>4. s # T BY <1>1, <1>3
<1>5. PICK x \in s : x \notin T BY <1>1, <1>4
<1> DEFINE r == s \ {x}
<1>6. IsFiniteSet(r) /\ r \in SUBSET S /\ T \subseteq r /\ r \notin Bad
  BY <1>1, <1>2, <1>5, FS_Subset
<1>7. Number(f, s) = f[x] + Number(f, r) BY <1>1, <1>2, <1>5, NumberRemove
<1>8. Number(f, r) \in Nat BY <1>6, NumberType
<1>9. Number(f, T) <= Number(f, r) BY <1>6
<1>10. f[x] \in Nat /\ ~(Number(f, T) <= Number(f, s)) BY <1>1, <1>5
<1> HIDE DEF r
<1> QED BY <1>3, <1>7, <1>8, <1>9, <1>10

(* One more event at a time t.                                             *)
LEMMA NumberAdd ==
  ASSUME NEW D, NEW f \in [D -> Nat], NEW S \in SUBSET D, IsFiniteSet(S), NEW t \in D
  PROVE  Number(AddEvent(f, t), S) = Number(f, S) + (IF t \in S THEN 1 ELSE 0)
<1> DEFINE g == AddEvent(f, t)
           R == S \ {t}
<1>1. g \in [D -> Nat] /\ g[t] = f[t] + 1 /\ \A u \in R : g[u] = f[u]
  BY DEF AddEvent
<1>2. IsFiniteSet(R) /\ (t \notin S => R = S) BY FS_Subset
<1>3. \A x \in S : f[x] \in Nat /\ g[x] \in Nat BY <1>1
<1>4. \A x \in R : f[x] \in Nat /\ f[x] = g[x] BY <1>1
<1> HIDE DEF g
<1>5. Number(f, R) = Number(g, R)
  <2> HIDE DEF R
  <2> QED BY <1>2, <1>4, NumberSame
<1>6. CASE t \notin S BY <1>2, <1>5, <1>6, <1>3, NumberType DEF g
<1>7. CASE t \in S
  <2>1. Number(f, S) = f[t] + Number(f, R) BY <1>3, <1>7, NumberRemove
  <2>2. Number(g, S) = g[t] + Number(g, R) BY <1>3, <1>7, NumberRemove
  <2>3. Number(f, R) \in Nat /\ f[t] \in Nat
    <3> HIDE DEF R
    <3> QED BY <1>2, <1>4, NumberType
  <2> QED BY <1>1, <1>5, <1>7, <2>1, <2>2, <2>3 DEF g
<1> QED BY <1>6, <1>7

-----------------------------------------------------------------------------
HourTo(t) == {u \in OpenTime : t - Hour < u /\ u <= t}

(* A caller goes through the steps of the storage there is, and looks back *)
(* an hour at least.                                                       *)
PcMatchesStorage ==
    \A c \in Opener : openPc[c] = "locked" => ~hasDB
CutoffPast ==
    \A c \in Opener : openPc[c] # "idle" => cutoff[c] <= openNow - Hour

(* Whoever was allowed in the last hour has an event.                      *)
AllowedRecorded ==
    \A u \in OpenTime : u > openNow - Hour => allowed[u] <= events[u]

(* Who was counted in and may still be allowed in the hour that ends at t. *)
Pending(t) ==
    {c \in Opener : \/ openPc[c] = "insert" /\ openNow <= t
                    \/ openPc[c] = "commit" /\ eventAt[c] \in HourTo(t)}

(* In memory the limit holds.  With a database those who have counted and  *)
(* not returned come on top of what was allowed; whoever counts himself    *)
(* in has seen fewer than the limit, however many are pending then.        *)
MemoryBound == ~hasDB => \A t \in OpenTime : AllowedInHourTo(t) <= MaxPerHour
DBBound ==
    hasDB => \A t \in OpenTime :
        AllowedInHourTo(t) + Cardinality(Pending(t)) <= MaxPerHour + Cardinality(Opener) - 1
NoMemoryPending ==
    ~hasDB => \A c \in Opener : openPc[c] \in {"idle", "locked"}

LimiterInv ==
    /\ LimiterTypeOK /\ PcMatchesStorage /\ NoMemoryPending /\ CutoffPast
    /\ AllowedRecorded /\ MemoryBound /\ DBBound

(* The sets that are summed over and counted are finite.                   *)
LEMMA OpenTimeFinite == IsFiniteSet(OpenTime)
  BY LimiterAssumption, FS_Interval DEF OpenTime

LEMMA HourFinite == ASSUME NEW t PROVE HourTo(t) \in SUBSET OpenTime /\ IsFiniteSet(HourTo(t))
  BY OpenTimeFinite, FS_Subset DEF HourTo

LEMMA AllowedInHour == ASSUME NEW t PROVE AllowedInHourTo(t) = Number(allowed, HourTo(t))
  BY DEF AllowedInHourTo, HourTo

LEMMA PendingFinite ==
  ASSUME NEW t
  PROVE  /\ IsFiniteSet(Pending(t)) /\ Cardinality(Pending(t)) \in Nat
         /\ Cardinality(Pending(t)) <= Cardinality(Opener)
         /\ Cardinality(Opener) \in Nat
<1>1. Pending(t) \subseteq Opener BY DEF Pending
<1>2. IsFiniteSet(Opener) BY LimiterAssumption
<1> QED BY <1>1, <1>2, FS_Subset, FS_CardinalityType

LEMMA HourAllowedType ==
  ASSUME LimiterTypeOK, NEW t PROVE AllowedInHourTo(t) \in Nat
<1>1. \A u \in HourTo(t) : allowed[u] \in Nat BY HourFinite DEF LimiterTypeOK
<1>2. IsFiniteSet(HourTo(t)) BY HourFinite
<1> QED BY <1>1, <1>2, AllowedInHour, NumberType

(* What a caller counted bounds what was allowed in an hour that has not   *)
(* ended.                                                                  *)
LEMMA CountedIn ==
  ASSUME LimiterTypeOK, AllowedRecorded, NEW t \in OpenTime, openNow <= t,
         NEW S \in SUBSET OpenTime, \A u \in OpenTime : u > openNow - Hour => u \in S
  PROVE  AllowedInHourTo(t) <= Number(events, S)
<1> USE LimiterAssumption DEF LimiterTypeOK, OpenTime
<1>1. \A u \in HourTo(t) : u \in S /\ u \in OpenTime /\ u > openNow - Hour
  BY DEF HourTo
<1>2. HourTo(t) \in SUBSET S BY <1>1
<1>3. \A u \in HourTo(t) : allowed[u] \in Nat /\ events[u] \in Nat /\ allowed[u] <= events[u]
  BY <1>1 DEF AllowedRecorded
<1>4. IsFiniteSet(HourTo(t)) /\ IsFiniteSet(S)
  BY HourFinite, OpenTimeFinite, FS_Subset
<1>5. Number(allowed, HourTo(t)) <= Number(events, HourTo(t))
  BY <1>3, <1>4, NumberLess
<1>6. \A u \in S : events[u] \in Nat OBVIOUS
<1>7. Number(events, HourTo(t)) <= Number(events, S)
  BY <1>2, <1>4, <1>6, NumberSubset
<1>8. Number(allowed, HourTo(t)) \in Nat /\ Number(events, HourTo(t)) \in Nat
      /\ Number(events, S) \in Nat
  BY <1>3, <1>4, <1>6, NumberType
<1> QED BY <1>5, <1>7, <1>8, AllowedInHour

(* One more allowed at a time adds one to the hours around that time.      *)
LEMMA HourAdd ==
  ASSUME LimiterTypeOK, NEW at \in OpenTime, allowed' = AddEvent(allowed, at), NEW t
  PROVE  AllowedInHourTo(t)' = AllowedInHourTo(t) + (IF at \in HourTo(t) THEN 1 ELSE 0)
<1>1. AllowedInHourTo(t)' = Number(allowed', HourTo(t))
  BY DEF AllowedInHourTo, HourTo
<1>2. allowed \in [OpenTime -> Nat] BY DEF LimiterTypeOK
<1>3. HourTo(t) \in SUBSET OpenTime /\ IsFiniteSet(HourTo(t)) BY HourFinite
<1>4. Number(AddEvent(allowed, at), HourTo(t))
        = Number(allowed, HourTo(t)) + (IF at \in HourTo(t) THEN 1 ELSE 0)
  BY <1>2, <1>3, NumberAdd
<1> QED BY <1>1, <1>4, AllowedInHour

LEMMA HourSame ==
  ASSUME allowed' = allowed, NEW t PROVE AllowedInHourTo(t)' = AllowedInHourTo(t)
<1>1. AllowedInHourTo(t)' = Number(allowed', HourTo(t))
  BY DEF AllowedInHourTo, HourTo
<1> QED BY <1>1, AllowedInHour

(* A step by which fewer are pending and nobody is allowed keeps the bound.*)
LEMMA FewerPending ==
  ASSUME LimiterTypeOK, DBBound, hasDB' = hasDB, allowed' = allowed,
         \A t \in OpenTime : Pending(t)' \subseteq Pending(t)
  PROVE  DBBound'
<1> SUFFICES ASSUME hasDB, NEW t \in OpenTime
             PROVE  AllowedInHourTo(t)' + Cardinality(Pending(t)')
                      <= MaxPerHour + Cardinality(Opener) - 1
  BY DEF DBBound, OpenTime
<1>1. AllowedInHourTo(t)' = AllowedInHourTo(t) /\ AllowedInHourTo(t) \in Nat
  BY HourSame, HourAllowedType
<1>2. Pending(t)' \subseteq Pending(t) OBVIOUS
<1>3. Cardinality(Pending(t)') \in Nat /\ Cardinality(Pending(t)') <= Cardinality(Pending(t))
  BY <1>2, PendingFinite, FS_Subset, FS_CardinalityType
<1>4. AllowedInHourTo(t) + Cardinality(Pending(t)) <= MaxPerHour + Cardinality(Opener) - 1
  BY DEF DBBound
<1>5. MaxPerHour \in Nat BY LimiterAssumption
<1> QED BY <1>1, <1>3, <1>4, <1>5, PendingFinite

(* Nobody has asked.                                                       *)
LEMMA LimiterInit_Inv == LimiterInit => LimiterInv
<1> SUFFICES ASSUME LimiterInit PROVE LimiterInv OBVIOUS
<1> USE LimiterAssumption DEF LimiterInit
<1>1. LimiterTypeOK BY DEF LimiterTypeOK, OpenTime
<1>2. PcMatchesStorage /\ NoMemoryPending /\ CutoffPast /\ AllowedRecorded
  BY DEF PcMatchesStorage, NoMemoryPending, CutoffPast, AllowedRecorded
<1>3. ASSUME NEW t \in OpenTime PROVE AllowedInHourTo(t) = 0
  <2> SUFFICES ASSUME AllowedInHourTo(t) # 0 PROVE FALSE OBVIOUS
  <2> DEFINE Bad == {s \in SUBSET HourTo(t) : Number(allowed, s) # 0}
  <2>1. Bad \subseteq SUBSET HourTo(t) /\ Bad # {} BY AllowedInHour
  <2>2. PICK s \in Bad : \A r \in Bad : r \subseteq s => r = s
    <3> HIDE DEF Bad
    <3> QED BY <2>1, HourFinite, SmallestSet
  <2>3. IsFiniteSet(s) /\ \A x \in s : allowed[x] = 0
    BY <2>2, HourFinite, FS_Subset
  <2>4. Number(allowed, s) = IF s = {} THEN 0 ELSE allowed[Pick(s)] + Number(allowed, s \ {Pick(s)})
    <3>1. \A x \in s : allowed[x] \in Nat BY <2>3
    <3> QED BY <2>3, <3>1, NumberDef
  <2>5. s # {} BY <2>2, <2>4
  <2>6. Pick(s) \in s BY <2>5 DEF Pick
  <2>7. Number(allowed, s \ {Pick(s)}) = 0 BY <2>2, <2>6
  <2> QED BY <2>2, <2>3, <2>4, <2>5, <2>6, <2>7
<1>4. MemoryBound BY <1>3 DEF MemoryBound
<1>5. DBBound
  <2> SUFFICES ASSUME NEW t \in OpenTime
               PROVE  AllowedInHourTo(t) + Cardinality(Pending(t))
                        <= MaxPerHour + Cardinality(Opener) - 1
    BY DEF DBBound
  <2>1. Pending(t) = {} BY DEF Pending
  <2>2. Cardinality(Pending(t)) = 0 BY <2>1, FS_EmptySet
  <2> QED BY <1>3, <2>2, PendingFinite
<1> QED BY <1>1, <1>2, <1>4, <1>5 DEF LimiterInv

-----------------------------------------------------------------------------
(* One lemma for each action: of a caller ...                              *)
LEMMA BeginOpenInv ==
  ASSUME LimiterInv, NEW c \in Opener, BeginOpen(c) PROVE LimiterInv'
<1> USE LimiterAssumption DEF LimiterInv, BeginOpen, OpenGoto
<1>1. LimiterTypeOK' BY DEF LimiterTypeOK, OpenTime
<1>2. PcMatchesStorage' /\ NoMemoryPending'
  BY DEF PcMatchesStorage, NoMemoryPending, LimiterTypeOK
<1>3. CutoffPast' BY DEF CutoffPast, LimiterTypeOK, OpenTime
<1>4. AllowedRecorded' BY DEF AllowedRecorded, OpenTime
<1>5. MemoryBound' BY HourSame DEF MemoryBound, OpenTime
<1>6. \A t \in OpenTime : Pending(t)' \subseteq Pending(t)
  BY DEF Pending, LimiterTypeOK, HourTo, OpenTime
<1>7. DBBound' BY <1>6, FewerPending
<1> QED BY <1>1, <1>2, <1>3, <1>4, <1>5, <1>7

(* What a caller leaves behind when it returns.                            *)
LEMMA ReturnPcs ==
  ASSUME LimiterInv, NEW c \in Opener, ReturnAllowed(c), hasDB' = hasDB, openNow' = openNow
  PROVE  /\ openPc' \in [Opener -> {"idle", "locked", "count", "insert", "commit"}]
         /\ cutoff' \in [Opener -> -Hour..MaxOpenTime]
         /\ eventAt' \in [Opener -> OpenTime]
         /\ PcMatchesStorage' /\ NoMemoryPending' /\ CutoffPast'
         /\ \A t \in OpenTime : Pending(t)' = Pending(t) \ {c}
<1> USE LimiterAssumption DEF LimiterInv, ReturnAllowed, OpenGoto, LimiterTypeOK, OpenTime
<1>1. openPc' \in [Opener -> {"idle", "locked", "count", "insert", "commit"}] OBVIOUS
<1>2. cutoff' \in [Opener -> -Hour..MaxOpenTime] OBVIOUS
<1>3. eventAt' \in [Opener -> OpenTime] OBVIOUS
<1>4. PcMatchesStorage' /\ NoMemoryPending' BY DEF PcMatchesStorage, NoMemoryPending
<1>5. CutoffPast' BY DEF CutoffPast
<1>6. \A t \in OpenTime : Pending(t)' = Pending(t) \ {c} BY DEF Pending, HourTo
<1> QED BY <1>1, <1>2, <1>3, <1>4, <1>5, <1>6

LEMMA DecideInMemoryInv ==
  ASSUME LimiterInv, NEW c \in Opener, DecideInMemory(c) PROVE LimiterInv'
<1> USE LimiterAssumption DEF LimiterInv
<1>0. /\ openPc[c] = "locked" /\ ReturnAllowed(c) /\ hasDB' = hasDB /\ openNow' = openNow
      /\ ~hasDB /\ cutoff[c] <= openNow - Hour
  BY DEF DecideInMemory, PcMatchesStorage, CutoffPast
<1>1. DBBound' BY <1>0 DEF DBBound
<1>2. /\ After(c) \in SUBSET OpenTime
      /\ \A u \in OpenTime : u > openNow - Hour => u \in After(c)
  BY <1>0 DEF After, LimiterTypeOK, OpenTime
<1>3. CASE Number(events, After(c)) >= MaxPerHour
  <2>1. events' = Kept(After(c)) /\ allowed' = allowed BY <1>3 DEF DecideInMemory
  <2>2. LimiterTypeOK' BY <1>0, <2>1, ReturnPcs DEF LimiterTypeOK, Kept
  <2>3. AllowedRecorded' BY <1>0, <1>2, <2>1 DEF AllowedRecorded, Kept, OpenTime
  <2>4. MemoryBound' BY <1>0, <2>1, HourSame DEF MemoryBound, OpenTime
  <2> QED BY <1>0, <1>1, <2>2, <2>3, <2>4, ReturnPcs
<1>4. CASE ~(Number(events, After(c)) >= MaxPerHour)
  <2>1. events' = AddEvent(Kept(After(c)), openNow) /\ allowed' = AddEvent(allowed, openNow)
    BY <1>4 DEF DecideInMemory
  <2>2. LimiterTypeOK' BY <1>0, <2>1, ReturnPcs DEF LimiterTypeOK, Kept, AddEvent
  <2>3. AllowedRecorded'
    BY <1>0, <1>2, <2>1 DEF AllowedRecorded, Kept, AddEvent, LimiterTypeOK, OpenTime
  <2>4. MemoryBound'
    <3> SUFFICES ASSUME NEW t \in OpenTime PROVE AllowedInHourTo(t)' <= MaxPerHour
      BY DEF MemoryBound, OpenTime
    <3>1. AllowedInHourTo(t) <= MaxPerHour /\ AllowedInHourTo(t) \in Nat
      BY <1>0, HourAllowedType DEF MemoryBound
    <3>2. openNow \in OpenTime BY DEF LimiterTypeOK
    <3>3. AllowedInHourTo(t)' = AllowedInHourTo(t) + (IF openNow \in HourTo(t) THEN 1 ELSE 0)
      BY <2>1, <3>2, HourAdd
    <3>4. CASE openNow \in HourTo(t)
      <4>1. openNow <= t BY <3>4 DEF HourTo
      <4>2. AllowedInHourTo(t) <= Number(events, After(c)) BY <1>2, <4>1, CountedIn
      <4>3. Number(events, After(c)) \in Nat
        <5>1. IsFiniteSet(After(c)) BY <1>2, OpenTimeFinite, FS_Subset
        <5>2. \A u \in After(c) : events[u] \in Nat BY <1>2 DEF LimiterTypeOK
        <5> QED BY <5>1, <5>2, NumberType
      <4> QED BY <1>4, <3>1, <3>3, <4>2, <4>3
    <3> QED BY <3>1, <3>3, <3>4
  <2> QED BY <1>0, <1>1, <2>2, <2>3, <2>4, ReturnPcs
<1> QED BY <1>3, <1>4

(* The times that are counted reach back over the whole hour.              *)
LEMMA SinceType ==
  ASSUME LimiterTypeOK, CutoffPast, NEW c \in Opener, openPc[c] # "idle"
  PROVE  /\ Since(c) \in SUBSET OpenTime
         /\ \A u \in OpenTime : u > openNow - Hour => u \in Since(c)
         /\ Number(events, Since(c)) \in Nat
<1>1. Since(c) \in SUBSET OpenTime BY DEF Since
<1>2. IsFiniteSet(Since(c)) BY <1>1, OpenTimeFinite, FS_Subset
<1>3. \A u \in Since(c) : events[u] \in Nat BY <1>1 DEF LimiterTypeOK
<1>4. \A u \in OpenTime : u > openNow - Hour => u \in Since(c)
  BY LimiterAssumption DEF Since, CutoffPast, LimiterTypeOK, OpenTime
<1> QED BY <1>1, <1>2, <1>3, <1>4, NumberType

LEMMA CountEventsInv ==
  ASSUME LimiterInv, NEW c \in Opener, CountEvents(c) PROVE LimiterInv'
<1> USE LimiterAssumption DEF LimiterInv
<1>0. openPc[c] = "count" /\ hasDB' = hasDB /\ openNow' = openNow /\ allowed' = allowed /\ hasDB
  BY DEF CountEvents, NoMemoryPending
<1>1. MemoryBound' BY <1>0 DEF MemoryBound
<1>2. CASE Number(events, Since(c)) >= MaxPerHour
  <2>1. events' = Kept(Since(c)) /\ ReturnAllowed(c) BY <1>2 DEF CountEvents
  <2>2. LimiterTypeOK' BY <1>0, <2>1, ReturnPcs DEF LimiterTypeOK, Kept
  <2>3. AllowedRecorded'
    BY <1>0, <2>1, SinceType DEF AllowedRecorded, Kept, OpenTime
  <2>4. \A t \in OpenTime : Pending(t)' \subseteq Pending(t) BY <1>0, <2>1, ReturnPcs
  <2>5. DBBound' BY <1>0, <2>4, FewerPending
  <2> QED BY <1>0, <1>1, <2>1, <2>2, <2>3, <2>5, ReturnPcs
<1>3. CASE ~(Number(events, Since(c)) >= MaxPerHour)
  <2>1. openPc' = [openPc EXCEPT ![c] = "insert"]
        /\ events' = events /\ cutoff' = cutoff /\ eventAt' = eventAt
    BY <1>3 DEF CountEvents, OpenGoto
  <2>2. LimiterTypeOK' BY <1>0, <2>1 DEF LimiterTypeOK, OpenTime
  <2>3. PcMatchesStorage' /\ NoMemoryPending'
    BY <1>0, <2>1 DEF PcMatchesStorage, NoMemoryPending, LimiterTypeOK
  <2>4. CutoffPast' BY <1>0, <2>1 DEF CutoffPast, LimiterTypeOK
  <2>5. AllowedRecorded' BY <1>0, <2>1 DEF AllowedRecorded, OpenTime
  <2>6. DBBound'
    <3> SUFFICES ASSUME NEW t \in OpenTime
                 PROVE  AllowedInHourTo(t)' + Cardinality(Pending(t)')
                          <= MaxPerHour + Cardinality(Opener) - 1
      BY DEF DBBound, OpenTime
    <3>1. AllowedInHourTo(t)' = AllowedInHourTo(t) /\ AllowedInHourTo(t) \in Nat
      BY <1>0, HourSame, HourAllowedType
    <3>2. AllowedInHourTo(t) + Cardinality(Pending(t)) <= MaxPerHour + Cardinality(Opener) - 1
      BY <1>0 DEF DBBound
    <3>3. CASE openNow <= t
      <4>1. AllowedInHourTo(t) <= Number(events, Since(c)) /\ Number(events, Since(c)) \in Nat
        BY <1>0, <3>3, SinceType, CountedIn
      <4>2. Pending(t)' \subseteq Opener BY DEF Pending
      <4>3. Cardinality(Pending(t)') \in Nat /\ Cardinality(Pending(t)') <= Cardinality(Opener)
        BY <4>2, FS_Subset, FS_CardinalityType
      <4> QED BY <1>3, <3>1, <4>1, <4>3, PendingFinite
    <3>4. CASE ~(openNow <= t)
      <4>1. Pending(t)' = Pending(t)
        BY <1>0, <2>1, <3>4 DEF Pending, HourTo, OpenTime, LimiterTypeOK
      <4> QED BY <3>1, <3>2, <4>1
    <3> QED BY <3>3, <3>4
  <2> QED BY <1>1, <2>2, <2>3, <2>4, <2>5, <2>6
<1> QED BY <1>2, <1>3

LEMMA InsertEventInv ==
  ASSUME LimiterInv, NEW c \in Opener, InsertEvent(c) PROVE LimiterInv'
<1> USE LimiterAssumption DEF LimiterInv, InsertEvent, OpenGoto
<1>1. LimiterTypeOK' BY DEF LimiterTypeOK, OpenTime
<1>2. PcMatchesStorage' /\ NoMemoryPending'
  BY DEF PcMatchesStorage, NoMemoryPending, LimiterTypeOK
<1>3. CutoffPast' BY DEF CutoffPast, LimiterTypeOK
<1>4. AllowedRecorded' BY DEF AllowedRecorded, OpenTime
<1>5. MemoryBound' BY HourSame DEF MemoryBound, OpenTime
<1>6. \A t \in OpenTime : Pending(t)' \subseteq Pending(t)
  BY DEF Pending, LimiterTypeOK, HourTo, OpenTime
<1>7. DBBound' BY <1>6, FewerPending
<1> QED BY <1>1, <1>2, <1>3, <1>4, <1>5, <1>7

LEMMA CommitEventInv ==
  ASSUME LimiterInv, NEW c \in Opener, CommitEvent(c) PROVE LimiterInv'
<1> USE LimiterAssumption DEF LimiterInv
<1>0. /\ openPc[c] = "commit" /\ ReturnAllowed(c) /\ hasDB' = hasDB /\ openNow' = openNow
      /\ hasDB /\ cutoff[c] <= openNow - Hour
      /\ events' = AddEvent(Kept(Since(c)), eventAt[c])
      /\ \/ allowed' = AddEvent(allowed, eventAt[c])
         \/ allowed' = allowed
  BY DEF CommitEvent, NoMemoryPending, CutoffPast
<1>1. MemoryBound' BY <1>0 DEF MemoryBound
<1>2. LimiterTypeOK' BY <1>0, ReturnPcs DEF LimiterTypeOK, Kept, AddEvent
<1>3. AllowedRecorded'
  <2> SUFFICES ASSUME NEW u \in OpenTime, u > openNow - Hour PROVE allowed'[u] <= events'[u]
    BY <1>0 DEF AllowedRecorded, OpenTime
  <2>1. u \in Since(c) BY <1>0, SinceType
  <2>2. events'[u] = events[u] + (IF u = eventAt[c] THEN 1 ELSE 0)
    BY <1>0, <2>1 DEF Kept, AddEvent, LimiterTypeOK
  <2>3. allowed'[u] = allowed[u] + (IF u = eventAt[c] THEN 1 ELSE 0) \/ allowed'[u] = allowed[u]
    BY <1>0 DEF AddEvent, LimiterTypeOK
  <2>4. allowed[u] <= events[u] /\ allowed[u] \in Nat /\ events[u] \in Nat
    BY DEF AllowedRecorded, LimiterTypeOK
  <2> QED BY <2>2, <2>3, <2>4
<1>4. DBBound'
  <2>1. CASE allowed' = allowed
    <3>1. \A t \in OpenTime : Pending(t)' \subseteq Pending(t) BY <1>0, ReturnPcs
    <3> QED BY <1>0, <2>1, <3>1, FewerPending
  <2>2. CASE allowed' = AddEvent(allowed, eventAt[c])
    <3> SUFFICES ASSUME NEW t \in OpenTime
                 PROVE  AllowedInHourTo(t)' + Cardinality(Pending(t)')
                          <= MaxPerHour + Cardinality(Opener) - 1
      BY DEF DBBound, OpenTime
    <3>1. AllowedInHourTo(t)'
            = AllowedInHourTo(t) + (IF eventAt[c] \in HourTo(t) THEN 1 ELSE 0)
      <4>1. eventAt[c] \in OpenTime BY DEF LimiterTypeOK
      <4> QED BY <2>2, <4>1, HourAdd
    <3>2. Pending(t)' = Pending(t) \ {c} BY <1>0, ReturnPcs
    <3>3. c \in Pending(t) <=> eventAt[c] \in HourTo(t) BY <1>0 DEF Pending
    <3>4. Cardinality(Pending(t)')
            = Cardinality(Pending(t)) - (IF eventAt[c] \in HourTo(t) THEN 1 ELSE 0)
      <4>1. CASE c \in Pending(t)
        <5>1. Cardinality(Pending(t) \ {c}) = Cardinality(Pending(t)) - 1
          BY <4>1, PendingFinite, FS_RemoveElement
        <5> QED BY <3>2, <3>3, <4>1, <5>1
      <4>2. CASE c \notin Pending(t)
        <5>1. Pending(t)' = Pending(t) BY <3>2, <4>2
        <5> QED BY <3>3, <4>2, <5>1, PendingFinite
      <4> QED BY <4>1, <4>2
    <3>5. AllowedInHourTo(t) + Cardinality(Pending(t)) <= MaxPerHour + Cardinality(Opener) - 1
      BY <1>0 DEF DBBound
    <3> QED BY <3>1, <3>4, <3>5, HourAllowedType, PendingFinite
  <2> QED BY <1>0, <2>1, <2>2
<1> QED BY <1>0, <1>1, <1>2, <1>3, <1>4, ReturnPcs

LEMMA FailOpenInv ==
  ASSUME LimiterInv, NEW c \in Opener, FailOpen(c) PROVE LimiterInv'
<1> USE LimiterAssumption DEF LimiterInv
<1>0. /\ ReturnAllowed(c) /\ hasDB' = hasDB /\ openNow' = openNow
      /\ events' = events /\ allowed' = allowed
  BY DEF FailOpen
<1>1. LimiterTypeOK' BY <1>0, ReturnPcs DEF LimiterTypeOK
<1>2. AllowedRecorded' BY <1>0 DEF AllowedRecorded, OpenTime
<1>3. MemoryBound' BY <1>0, HourSame DEF MemoryBound, OpenTime
<1>4. \A t \in OpenTime : Pending(t)' \subseteq Pending(t) BY <1>0, ReturnPcs
<1>5. DBBound' BY <1>0, <1>4, FewerPending
<1> QED BY <1>0, <1>1, <1>2, <1>3, <1>5, ReturnPcs

(* ... and of the clock.                                                   *)
LEMMA LimiterTickInv == ASSUME LimiterInv, LimiterTick PROVE LimiterInv'
<1> USE LimiterAssumption DEF LimiterInv, LimiterTick
<1>1. LimiterTypeOK' BY DEF LimiterTypeOK, OpenTime
<1>2. PcMatchesStorage' /\ NoMemoryPending' BY DEF PcMatchesStorage, NoMemoryPending
<1>3. CutoffPast' BY DEF CutoffPast, LimiterTypeOK, OpenTime
<1>4. AllowedRecorded' BY DEF AllowedRecorded, LimiterTypeOK, OpenTime
<1>5. MemoryBound' BY HourSame DEF MemoryBound, OpenTime
<1>6. \A t \in OpenTime : Pending(t)' \subseteq Pending(t)
  BY DEF Pending, LimiterTypeOK, HourTo, OpenTime
<1>7. DBBound' BY <1>6, FewerPending
<1> QED BY <1>1, <1>2, <1>3, <1>4, <1>5, <1>7

LEMMA LimiterStutter == ASSUME LimiterInv, UNCHANGED limiterVars PROVE LimiterInv'
<1> USE DEF LimiterInv, limiterVars
<1>1. LimiterTypeOK' /\ PcMatchesStorage' /\ NoMemoryPending' /\ CutoffPast' /\ AllowedRecorded'
  BY DEF LimiterTypeOK, PcMatchesStorage, NoMemoryPending, CutoffPast, AllowedRecorded, OpenTime
<1>2. MemoryBound' BY HourSame DEF MemoryBound, OpenTime
<1>3. \A t \in OpenTime : Pending(t)' \subseteq Pending(t) BY DEF Pending, HourTo, OpenTime
<1>4. DBBound' BY <1>3, FewerPending
<1> QED BY <1>1, <1>2, <1>4

LEMMA LimiterNext_Inv == LimiterInv /\ [LimiterNext]_limiterVars => LimiterInv'
  BY BeginOpenInv, DecideInMemoryInv, CountEventsInv, InsertEventInv, CommitEventInv,
     FailOpenInv, LimiterTickInv, LimiterStutter DEF LimiterNext

-----------------------------------------------------------------------------
(* Pending is empty at best.                                               *)
LEMMA LimiterInv_Bounded == LimiterInv => OverrunBounded
<1> SUFFICES ASSUME LimiterInv, NEW t \in OpenTime
             PROVE  AllowedInHourTo(t)
                      <= MaxPerHour + (IF hasDB THEN Cardinality(Opener) - 1 ELSE 0)
  BY DEF OverrunBounded
<1>1. AllowedInHourTo(t) \in Nat /\ MaxPerHour \in Nat
  BY HourAllowedType, LimiterAssumption DEF LimiterInv
<1> QED BY <1>1, PendingFinite DEF LimiterInv, MemoryBound, DBBound

(* The invariant of the limiter: allowAutoFixPR by its callers, clock and  *)
(* storage.                                                                *)
THEOREM LimiterInvariant == LimiterSpec => []LimiterInv
  BY LimiterInit_Inv, LimiterNext_Inv, PTL DEF LimiterSpec

(* The limiter's variables keep their types (allowAutoFixPR).              *)
THEOREM LimiterTypes == LimiterSpec => []LimiterTypeOK
<1>1. LimiterInv => LimiterTypeOK BY DEF LimiterInv
<1> QED BY <1>1, LimiterInvariant, PTL

(* No hour sees more allowed than the limit, in memory, and no more than   *)
(* the limit and all callers but one with the database, whatever statement *)
(* fails and however the callers interleave (allowAutoFixPR,               *)
(* AllowAutoFixPR).                                                        *)
THEOREM AllowedBounded == LimiterSpec => []OverrunBounded
  BY LimiterInvariant, LimiterInv_Bounded, PTL
=============================================================================
