-------------------------- MODULE ClubServerProofs --------------------------
(***************************************************************************)
(* Proofs about the games that are made up, and that all the tables of the *)
(* server keep their types and bounds.                                     *)
(*                                                                         *)
(* A sample of players keeps its size and repeats nobody while it is       *)
(* drawn, swapped and cut (SamplesOK), so a game has two full teams.       *)
(* even_teams goes through the masks of its line-up one by one: the best   *)
(* split so far is at most as uneven as any split it has met               *)
(* (MostEvenUpTo), by induction over the masks, and every team stands at   *)
(* the places of some mask (EveryMask).                                    *)
(*                                                                         *)
(* A supply of ids lasts because a request begins only where there is      *)
(* room, and what is left of the supply covers the requests that may still *)
(* draw on it (SupplyOK, RoomInv, EloRoom).  A request that is refreshed   *)
(* draws once: it is not refreshed again (Retrying).  For the rating rows  *)
(* the sum of what the requests still have to fetch is a fold over them,   *)
(* which counts their debts by induction over its sets (RoomCounts).       *)
(***************************************************************************)
EXTENDS MemberRowsProofs, RatingsProofs, WellFoundedInduction

\* The naturals, one after the other.
LEMMA Induction ==
    ASSUME NEW S, 0 \in S, \A n \in Nat : n \in S => n + 1 \in S
    PROVE  Nat \subseteq S
<1>. DEFINE R == {ss \in Nat \X Nat : ss[1] < ss[2]}
<1>1. IsWellFoundedOn(R, Nat)
  BY NatLessThanWellFounded, Zenon DEF OpToRel
<1>2. SUFFICES ASSUME Nat \ S # {} PROVE FALSE
  OBVIOUS
<1>3. PICK x \in Nat \ S : \A y \in Nat \ S : ~(<<y, x>> \in R)
  BY <1>1, <1>2, WFMin
<1>4. x - 1 \in Nat /\ <<x - 1, x>> \in R
  OBVIOUS
<1>5. x - 1 \notin S
  BY <1>4
<1>. QED BY <1>3, <1>4, <1>5

First(ps) == [split |-> SplitAt(ps, 1..(Len(ps) \div 2)), gap |-> None]

UpTo(ps, n, f) ==
    f = [mask \in 0..n |-> IF mask = 0 THEN First(ps) ELSE Weigh(ps, f[mask - 1], mask)]

LEMMA WeighedUpTo ==
    ASSUME NEW ps, NEW n \in Nat
    PROVE  \E f : UpTo(ps, n, f)
<1>. DEFINE S == {k \in Nat : \E f : UpTo(ps, k, f)}
<1>1. 0 \in S
  <2>. DEFINE f == [mask \in 0..0 |-> First(ps)]
  <2>1. f = [mask \in 0..0 |-> IF mask = 0 THEN First(ps) ELSE Weigh(ps, f[mask - 1], mask)]
    OBVIOUS
  <2>. QED BY <2>1 DEF UpTo
<1>2. ASSUME NEW k \in Nat, k \in S PROVE k + 1 \in S
  <2>1. PICK f : f = [mask \in 0..k |-> IF mask = 0 THEN First(ps)
                                        ELSE Weigh(ps, f[mask - 1], mask)]
    BY <1>2 DEF UpTo
  <2>. DEFINE g == [mask \in 0..(k + 1) |-> IF mask = k + 1 THEN Weigh(ps, f[k], mask) ELSE f[mask]]
  <2>2. ASSUME NEW mask \in 0..(k + 1), mask # 0 PROVE g[mask] = Weigh(ps, g[mask - 1], mask)
    <3>1. mask - 1 \in 0..k /\ g[mask - 1] = f[mask - 1]
      BY <2>2
    <3>2. CASE mask = k + 1
      BY <3>1, <3>2
    <3>3. CASE mask # k + 1
      BY <2>1, <2>2, <3>1, <3>3
    <3>. QED BY <3>2, <3>3
  <2>3. g[0] = First(ps)
    BY <2>1
  <2>4. g = [mask \in 0..(k + 1) |-> IF mask = 0 THEN First(ps) ELSE Weigh(ps, g[mask - 1], mask)]
    BY <2>2, <2>3
  <2>5. k + 1 \in Nat
    OBVIOUS
  <2>. QED BY <2>4, <2>5 DEF UpTo
<1>3. Nat \subseteq S
  <2>. HIDE DEF S
  <2>. QED BY <1>1, <1>2, Induction
<1>. QED BY <1>3

LEMMA BestSplitsRun ==
    ASSUME NEW ps, 2 ^ Len(ps) \in Nat \ {0}
    PROVE  UpTo(ps, 2 ^ Len(ps) - 1, BestSplits(ps))
<1>. DEFINE n == 2 ^ Len(ps) - 1
<1>1. n \in Nat
  OBVIOUS
<1>2. \E f : UpTo(ps, n, f)
  <2>. HIDE DEF n
  <2>. QED BY <1>1, WeighedUpTo
<1>3. BestSplits(ps) = CHOOSE f : UpTo(ps, n, f)
  BY DEF BestSplits, UpTo, First
<1>. QED BY <1>2, <1>3

\* The sum of the ratings of the players of a set, one at a time.
AnyOf(s) == CHOOSE p \in s : TRUE

Sums(ps, f) ==
    f = [s \in SUBSET ps |-> IF s = {} THEN 0 ELSE PlayerElo(AnyOf(s)) + f[s \ {AnyOf(s)}]]

LEMMA FewerIsSmaller ==
    ASSUME NEW s, IsFiniteSet(s), s # {}
    PROVE  /\ AnyOf(s) \in s /\ IsFiniteSet(s \ {AnyOf(s)})
           /\ Cardinality(s) \in Nat /\ Cardinality(s \ {AnyOf(s)}) = Cardinality(s) - 1
<1>1. AnyOf(s) \in s
  BY DEF AnyOf
<1>. QED BY <1>1, FS_RemoveElement, FS_CardinalityType

\* Sums over the sets of fewer than n players.
PartlySums(ps, n, f) ==
    f = [s \in {t \in SUBSET ps : Cardinality(t) <= n} |->
            IF s = {} THEN 0 ELSE PlayerElo(AnyOf(s)) + f[s \ {AnyOf(s)}]]

LEMMA SumsUpTo ==
    ASSUME NEW ps, IsFiniteSet(ps), NEW n \in Nat
    PROVE  \E f : PartlySums(ps, n, f)
<1>. DEFINE Sets(k) == {t \in SUBSET ps : Cardinality(t) <= k}
            S == {k \in Nat : \E f : PartlySums(ps, k, f)}
<1>0. ASSUME NEW s \in SUBSET ps PROVE IsFiniteSet(s) /\ Cardinality(s) \in Nat
  BY FS_Subset, FS_CardinalityType
<1>1. 0 \in S
  <2>. DEFINE f == [s \in Sets(0) |-> 0]
  <2>1. ASSUME NEW s \in Sets(0) PROVE s = {}
    BY <1>0, FS_EmptySet
  <2>2. f = [s \in Sets(0) |-> IF s = {} THEN 0 ELSE PlayerElo(AnyOf(s)) + f[s \ {AnyOf(s)}]]
    BY <2>1
  <2>. QED BY <2>2 DEF PartlySums
<1>2. ASSUME NEW k \in Nat, k \in S PROVE k + 1 \in S
  <2>1. PICK f : PartlySums(ps, k, f)
    BY <1>2
  <2>. DEFINE g == [s \in Sets(k + 1) |-> IF s = {} THEN 0
                                          ELSE PlayerElo(AnyOf(s)) + f[s \ {AnyOf(s)}]]
  <2>2. ASSUME NEW s \in Sets(k + 1), s # {}
        PROVE  /\ s \ {AnyOf(s)} \in Sets(k) /\ s \ {AnyOf(s)} \in Sets(k + 1)
    BY <1>0, <2>2, FewerIsSmaller
  <2>3. ASSUME NEW s \in Sets(k) PROVE f[s] = g[s]
    <3>1. s \in Sets(k + 1)
      BY <1>0
    <3>. QED BY <2>1, <3>1 DEF PartlySums
  <2>4. g = [s \in Sets(k + 1) |-> IF s = {} THEN 0
                                   ELSE PlayerElo(AnyOf(s)) + g[s \ {AnyOf(s)}]]
    <3>. HIDE DEF Sets
    <3>. QED BY <2>2, <2>3
  <2>5. PartlySums(ps, k + 1, g)
    BY <2>4 DEF PartlySums
  <2>. QED BY <2>5
<1>3. Nat \subseteq S
  <2>. HIDE DEF S
  <2>. QED BY <1>1, <1>2, Induction
<1>. QED BY <1>3

LEMMA EloSumIsInt ==
    ASSUME NEW ps, IsFiniteSet(ps), \A p \in ps : PlayerElo(p) \in Int
    PROVE  EloSum(ps) \in Int
<1>. DEFINE S(f) == {n \in Nat : \A s \in SUBSET ps : Cardinality(s) = n => f[s] \in Int}
<1>0. ASSUME NEW s \in SUBSET ps PROVE IsFiniteSet(s) /\ Cardinality(s) \in 0..Cardinality(ps)
  BY FS_Subset, FS_CardinalityType
<1>1. \E f : Sums(ps, f)
  <2>1. PICK f : PartlySums(ps, Cardinality(ps), f)
    BY FS_CardinalityType, SumsUpTo
  <2>2. {t \in SUBSET ps : Cardinality(t) <= Cardinality(ps)} = SUBSET ps
    BY <1>0
  <2>3. Sums(ps, f)
    BY <2>1, <2>2 DEF PartlySums, Sums
  <2>. QED BY <2>3
<1>2. PICK f : Sums(ps, f) /\ EloSum(ps) = f[ps]
  BY <1>1 DEF EloSum, MapThenSumSet, MapThenFoldSet, Sums, AnyOf
<1>3. 0 \in S(f)
  BY <1>0, <1>2, FS_EmptySet DEF Sums
<1>4. ASSUME NEW n \in Nat, n \in S(f) PROVE n + 1 \in S(f)
  <2>1. ASSUME NEW s \in SUBSET ps, Cardinality(s) = n + 1 PROVE f[s] \in Int
    <3>1. s # {}
      BY <2>1, FS_EmptySet
    <3>2. AnyOf(s) \in s /\ Cardinality(s \ {AnyOf(s)}) = n
      BY <1>0, <2>1, <3>1, FewerIsSmaller
    <3>3. f[s \ {AnyOf(s)}] \in Int
      BY <1>4, <3>2
    <3>4. f[s] = PlayerElo(AnyOf(s)) + f[s \ {AnyOf(s)}]
      BY <1>2, <3>1 DEF Sums
    <3>5. PlayerElo(AnyOf(s)) \in Int
      BY <3>2
    <3>. QED BY <3>3, <3>4, <3>5
  <2>. QED BY <2>1
<1>5. Nat \subseteq S(f)
  <2>. HIDE DEF S
  <2>. QED BY <1>3, <1>4, Induction
<1>. QED BY <1>2, <1>5, FS_CardinalityType

LEMMA OneToOne ==
    ASSUME NEW S, NEW T, NEW f \in [S -> T], IsFiniteSet(S),
           \A a, b \in S : f[a] = f[b] => a = b, \A t \in T : \E s \in S : f[s] = t
    PROVE  IsFiniteSet(T) /\ Cardinality(T) = Cardinality(S)
<1>1. f \in Injection(S, T)
  BY DEF Injection, IsInjective
<1>2. f \in Surjection(S, T)
  BY DEF Surjection
<1>. QED BY <1>1, <1>2, FS_Surjection

LEMMA PowerIsNat ==
    ASSUME NEW n \in Nat
    PROVE  2 ^ n \in Nat \ {0}
<1>1. IsFiniteSet(1..n) /\ Cardinality(1..n) = n
  BY FS_Interval
<1>2. IsFiniteSet(SUBSET (1..n)) /\ Cardinality(SUBSET (1..n)) = 2 ^ n
  BY <1>1, FS_SUBSET
<1>3. SUBSET (1..n) # {}
  OBVIOUS
<1>. QED BY <1>2, <1>3, FS_CardinalityType, FS_EmptySet

LEMMA PowerDoubles ==
    ASSUME NEW n \in Nat
    PROVE  2 ^ (n + 1) = 2 * 2 ^ n
<1>. DEFINE Old == SUBSET (1..n)
            New == {s \in SUBSET (1..(n + 1)) : n + 1 \in s}
            h == [s \in Old |-> s \cup {n + 1}]
<1>1. /\ IsFiniteSet(1..n) /\ Cardinality(1..n) = n
      /\ IsFiniteSet(1..(n + 1)) /\ Cardinality(1..(n + 1)) = n + 1
  BY FS_Interval
<1>2. IsFiniteSet(Old) /\ Cardinality(Old) = 2 ^ n
  BY <1>1, FS_SUBSET
<1>3. Cardinality(SUBSET (1..(n + 1))) = 2 ^ (n + 1)
  BY <1>1, FS_SUBSET
<1>4. \A t \in New : t \ {n + 1} \in Old /\ h[t \ {n + 1}] = t
  OBVIOUS
<1>5. IsFiniteSet(New) /\ Cardinality(New) = 2 ^ n
  <2>1. ASSUME NEW s \in Old PROVE h[s] \in New /\ h[s] \ {n + 1} = s
    OBVIOUS
  <2>2. h \in [Old -> New] /\ \A a, b \in Old : h[a] = h[b] => a = b
    BY <2>1
  <2>3. \A t \in New : \E s \in Old : h[s] = t
    BY <1>4
  <2>. HIDE DEF Old, New, h
  <2>. QED BY <1>2, <2>2, <2>3, OneToOne
<1>6. Old \cap New = {} /\ SUBSET (1..(n + 1)) = Old \cup New
  OBVIOUS
<1>7. Cardinality(Old \cup New) = Cardinality(Old) + Cardinality(New) - Cardinality(Old \cap New)
  <2>. HIDE DEF Old, New
  <2>. QED BY <1>2, <1>5, FS_Union
<1>8. 2 ^ (n + 1) = 2 ^ n + 2 ^ n - 0
  <2>. HIDE DEF Old, New
  <2>. QED BY <1>2, <1>3, <1>5, <1>6, <1>7, FS_EmptySet
<1>9. ASSUME NEW x \in Nat PROVE x + x - 0 = 2 * x
  OBVIOUS
<1>. QED BY <1>8, <1>9, PowerIsNat

LEMMA QuotientIs ==
    ASSUME NEW a \in Nat, NEW d \in Nat \ {0}, NEW q \in Nat, NEW s \in 0..(d - 1), a = d * q + s
    PROVE  a \div d = q
OBVIOUS

LEMMA HalvesDivide ==
    ASSUME NEW a \in Nat, NEW b \in 0..1, NEW c \in Nat \ {0}
    PROVE  (2 * a + b) \div (2 * c) = a \div c
<1>1. PICK q \in Nat, s \in 0..(c - 1) : a = c * q + s
  <2>1. a = c * (a \div c) + (a % c) /\ a \div c \in Nat /\ a % c \in 0..(c - 1)
    OBVIOUS
  <2>. QED BY <2>1
<1>2. a \div c = q
  BY <1>1, QuotientIs
<1>3. 2 * a + b \in Nat /\ 2 * c \in Nat \ {0} /\ 2 * s + b \in 0..(2 * c - 1)
  OBVIOUS
<1>4. 2 * a + b = (2 * c) * q + (2 * s + b)
  <2>1. 2 * (c * q) = (2 * c) * q
    OBVIOUS
  <2>2. c * q \in Nat
    OBVIOUS
  <2>. QED BY <1>1, <2>1, <2>2
<1>5. (2 * a + b) \div (2 * c) = q
  <2>. DEFINE m == 2 * a + b
              d == 2 * c
              t == 2 * s + b
  <2>. HIDE DEF m, d, t
  <2>1. m \in Nat /\ d \in Nat \ {0} /\ t \in 0..(d - 1) /\ m = d * q + t
    BY <1>3, <1>4 DEF m, d, t
  <2>2. m \div d = q
    BY <2>1, QuotientIs
  <2>. QED BY <2>2 DEF m, d
<1>. QED BY <1>2, <1>5

LEMMA EveryMask ==
    ASSUME NEW n \in Nat, NEW places \in SUBSET (1..n)
    PROVE  \E mask \in 0..(2 ^ n - 1) : Bits(mask, n) = places
<1>. DEFINE S == {k \in Nat : \A T \in SUBSET (1..k) :
                                  \E mask \in 0..(2 ^ k - 1) : Bits(mask, k) = T}
<1>1. 0 \in S
  <2>1. ASSUME NEW T \in SUBSET (1..0) PROVE Bits(0, 0) = T
    BY DEF Bits
  <2>2. 0 \in 0..(2 ^ 0 - 1)
    OBVIOUS
  <2>. QED BY <2>1, <2>2
<1>2. ASSUME NEW k \in Nat, k \in S PROVE k + 1 \in S
  <2>1. ASSUME NEW T \in SUBSET (1..(k + 1))
        PROVE  \E mask \in 0..(2 ^ (k + 1) - 1) : Bits(mask, k + 1) = T
    <3>. DEFINE U == {i \in 1..k : i + 1 \in T}
                b == IF 1 \in T THEN 1 ELSE 0
    <3>1. PICK high \in 0..(2 ^ k - 1) : Bits(high, k) = U
      BY <1>2
    <3>. DEFINE mask == 2 * high + b
    <3>2. 2 ^ k \in Nat \ {0} /\ 2 ^ (k + 1) = 2 * 2 ^ k
      BY PowerIsNat, PowerDoubles
    <3>3. high \in Nat /\ b \in 0..1 /\ mask \in 0..(2 ^ (k + 1) - 1)
      BY <3>1, <3>2
    <3>4. (mask \div (2 ^ (1 - 1))) % 2 = 1 <=> 1 \in T
      <4>1. 2 ^ (1 - 1) = 1
        OBVIOUS
      <4>2. mask \div 1 = mask /\ mask % 2 = b
        BY <3>3
      <4>. QED BY <4>1, <4>2
    <3>5. ASSUME NEW i \in 2..(k + 1)
          PROVE  (mask \div (2 ^ (i - 1))) % 2 = 1 <=> i \in T
      <4>. DEFINE j == i - 2
      <4>1. j \in Nat /\ j + 1 = i - 1 /\ i - 1 \in 1..k /\ (i - 1) - 1 = j
        OBVIOUS
      <4>2. 2 ^ j \in Nat \ {0} /\ 2 ^ (i - 1) = 2 * 2 ^ j
        BY <4>1, PowerIsNat, PowerDoubles
      <4>3. mask \div (2 ^ (i - 1)) = high \div (2 ^ j)
        <5>. DEFINE c == 2 ^ j
                    p == 2 ^ (i - 1)
        <5>. HIDE DEF b, c, p
        <5>1. c \in Nat \ {0} /\ p = 2 * c
          BY <4>2 DEF c, p
        <5>2. (2 * high + b) \div (2 * c) = high \div c
          BY <3>3, <5>1, HalvesDivide
        <5>3. mask \div p = high \div c
          BY <5>1, <5>2
        <5>. QED BY <5>3 DEF c, p
      <4>4. (high \div (2 ^ j)) % 2 = 1 <=> i - 1 \in U
        BY <3>1, <4>1 DEF Bits
      <4>5. i - 1 \in U <=> i \in T
        BY <4>1
      <4>. HIDE DEF mask, j, U
      <4>. QED BY <4>3, <4>4, <4>5
    <3>6. Bits(mask, k + 1) = T
      <4>. HIDE DEF mask
      <4>1. ASSUME NEW i \in 1..(k + 1) PROVE (mask \div (2 ^ (i - 1))) % 2 = 1 <=> i \in T
        <5>1. CASE i = 1
          BY <3>4, <5>1
        <5>2. CASE i # 1
          <6>1. i \in 2..(k + 1)
            BY <5>2
          <6>. QED BY <3>5, <6>1
        <5>. QED BY <5>1, <5>2
      <4>2. T \subseteq 1..(k + 1)
        OBVIOUS
      <4>. QED BY <4>1, <4>2 DEF Bits
    <3>. QED BY <3>3, <3>6
  <2>. QED BY <2>1
<1>3. Nat \subseteq S
  <2>. HIDE DEF S
  <2>. QED BY <1>1, <1>2, Induction
<1>. QED BY <1>3

\* A line-up of two teams of the given size.
Lineup(ps, size) ==
    /\ size \in Nat \ {0} /\ Len(ps) = 2 * size
    /\ \A i, j \in 1..(2 * size) : ps[i] = ps[j] => i = j

RatedLineup(ps) == \A i \in 1..Len(ps) : PlayerElo(ps[i]) \in Int

GapAt(ps, places) == Gap(At(ps, places), At(ps, (1..Len(ps)) \ places))

LEMMA SizeOfTeam ==
    ASSUME NEW ps, NEW size, Lineup(ps, size), NEW places \in SUBSET (1..(2 * size))
    PROVE  /\ IsFiniteSet(places) /\ IsFiniteSet(At(ps, places))
           /\ Cardinality(places) \in Nat /\ Cardinality(At(ps, places)) = Cardinality(places)
<1>1. IsFiniteSet(1..(2 * size))
  BY FS_Interval DEF Lineup
<1>2. IsFiniteSet(places) /\ Cardinality(places) \in Nat
  BY <1>1, FS_Subset, FS_CardinalityType
<1>. DEFINE f == [i \in places |-> ps[i]]
<1>3. /\ f \in [places -> At(ps, places)]
      /\ \A a, b \in places : f[a] = f[b] => a = b
      /\ \A t \in At(ps, places) : \E i \in places : f[i] = t
  BY DEF At, Lineup
<1>4. IsFiniteSet(At(ps, places)) /\ Cardinality(At(ps, places)) = Cardinality(places)
  <2>. HIDE DEF f
  <2>. QED BY <1>2, <1>3, OneToOne
<1>. QED BY <1>2, <1>4

LEMMA GapIsNat ==
    ASSUME NEW t1, NEW t2, IsFiniteSet(t1), IsFiniteSet(t2),
           \A p \in t1 \cup t2 : PlayerElo(p) \in Int
    PROVE  Gap(t1, t2) \in Nat /\ Gap(t2, t1) = Gap(t1, t2)
<1>. DEFINE a == EloSum(t1) * Cardinality(t2)
            b == EloSum(t2) * Cardinality(t1)
<1>1. EloSum(t1) \in Int /\ EloSum(t2) \in Int
  BY EloSumIsInt
<1>2. Cardinality(t1) \in Nat /\ Cardinality(t2) \in Nat
  BY FS_CardinalityType
<1>3. a \in Int /\ b \in Int
  BY <1>1, <1>2
<1>4. Distance(a, b) \in Nat /\ Distance(b, a) = Distance(a, b)
  <2>. HIDE DEF a, b
  <2>. QED BY <1>3 DEF Distance
<1>. QED BY <1>4 DEF Gap

LEMMA GapAtIsNat ==
    ASSUME NEW ps, NEW size, Lineup(ps, size), RatedLineup(ps),
           NEW places \in SUBSET (1..(2 * size))
    PROVE  /\ GapAt(ps, places) \in Nat
           /\ GapAt(ps, (1..(2 * size)) \ places) = GapAt(ps, places)
<1>. DEFINE others == (1..(2 * size)) \ places
<1>1. IsFiniteSet(At(ps, places)) /\ IsFiniteSet(At(ps, others))
  BY SizeOfTeam
<1>2. \A p \in At(ps, places) \cup At(ps, others) : PlayerElo(p) \in Int
  BY DEF At, RatedLineup, Lineup
<1>3. (1..(2 * size)) \ others = places /\ Len(ps) = 2 * size
  BY DEF Lineup
<1>. QED BY <1>1, <1>2, <1>3, GapIsNat DEF GapAt

\* The masks that are splits of a line-up, and what is known of the best of them.
SplitMask(ps, mask) ==
    Cardinality(Bits(mask, Len(ps))) = Len(ps) \div 2 /\ 1 \in Bits(mask, Len(ps))

HalvesOf(ps, split) ==
    \E places \in SUBSET (1..Len(ps)) :
        Cardinality(places) = Len(ps) \div 2 /\ split = SplitAt(ps, places)

MostEvenUpTo(ps, m, best) ==
    /\ best.gap = None => \A mask \in 0..m : ~SplitMask(ps, mask)
    /\ best.gap # None =>
          /\ best.gap \in Nat /\ best.gap = Gap(best.split.team1, best.split.team2)
          /\ \A mask \in 0..m :
                 SplitMask(ps, mask) => best.gap <= GapAt(ps, Bits(mask, Len(ps)))

LEMMA HalvesKept ==
    ASSUME NEW ps, NEW size, Lineup(ps, size), NEW m \in 0..(2 ^ Len(ps) - 1)
    PROVE  HalvesOf(ps, BestSplits(ps)[m].split)
<1>. DEFINE M == 2 ^ Len(ps) - 1
            B == BestSplits(ps)
            S == {k \in Nat : k <= M => HalvesOf(ps, B[k].split)}
<1>0. Len(ps) \in Nat /\ M \in Nat /\ Len(ps) \div 2 = size
  BY PowerIsNat DEF Lineup
<1>1. B = [mask \in 0..M |-> IF mask = 0 THEN First(ps) ELSE Weigh(ps, B[mask - 1], mask)]
  BY <1>0, PowerIsNat, BestSplitsRun DEF UpTo
<1>. HIDE DEF M, B
<1>2. 0 \in S
  <2>1. 1..size \in SUBSET (1..Len(ps)) /\ Cardinality(1..size) = size
    BY FS_Interval DEF Lineup
  <2>2. B[0].split = SplitAt(ps, 1..size)
    BY <1>0, <1>1 DEF First
  <2>. QED BY <1>0, <2>1, <2>2 DEF HalvesOf
<1>3. ASSUME NEW k \in Nat, k \in S PROVE k + 1 \in S
  <2>1. SUFFICES ASSUME k + 1 <= M PROVE HalvesOf(ps, B[k + 1].split)
    OBVIOUS
  <2>2. B[k + 1] = Weigh(ps, B[k], k + 1) /\ HalvesOf(ps, B[k].split)
    BY <1>0, <1>1, <1>3, <2>1
  <2>3. Bits(k + 1, Len(ps)) \in SUBSET (1..Len(ps))
    BY DEF Bits
  <2>4. \/ B[k + 1] = B[k]
        \/ /\ B[k + 1].split = SplitAt(ps, Bits(k + 1, Len(ps)))
           /\ Cardinality(Bits(k + 1, Len(ps))) = Len(ps) \div 2
    BY <2>2 DEF Weigh
  <2>. QED BY <2>2, <2>3, <2>4 DEF HalvesOf
<1>4. Nat \subseteq S
  <2>. HIDE DEF S
  <2>. QED BY <1>2, <1>3, Induction
<1>5. m \in Nat /\ m <= M
  BY <1>0 DEF M
<1>. QED BY <1>4, <1>5 DEF B

LEMMA MostEvenKept ==
    ASSUME NEW ps, NEW size, Lineup(ps, size), RatedLineup(ps), NEW m \in 0..(2 ^ Len(ps) - 1)
    PROVE  MostEvenUpTo(ps, m, BestSplits(ps)[m])
<1>. DEFINE M == 2 ^ Len(ps) - 1
            B == BestSplits(ps)
            S == {k \in Nat : k <= M => MostEvenUpTo(ps, k, B[k])}
<1>0. Len(ps) \in Nat /\ M \in Nat /\ Len(ps) = 2 * size
  BY PowerIsNat DEF Lineup
<1>1. B = [mask \in 0..M |-> IF mask = 0 THEN First(ps) ELSE Weigh(ps, B[mask - 1], mask)]
  BY <1>0, PowerIsNat, BestSplitsRun DEF UpTo
<1>. HIDE DEF M, B
<1>2. 0 \in S
  <2>1. ~SplitMask(ps, 0)
    <3>1. (0 \div (2 ^ (1 - 1))) % 2 = 0
      <4>1. 2 ^ (1 - 1) = 1
        OBVIOUS
      <4>. QED BY <4>1
    <3>. QED BY <3>1 DEF SplitMask, Bits
  <2>2. B[0].gap = None
    BY <1>0, <1>1 DEF First
  <2>. QED BY <2>1, <2>2 DEF MostEvenUpTo
<1>3. ASSUME NEW k \in Nat, k \in S PROVE k + 1 \in S
  <2>. DEFINE places == Bits(k + 1, Len(ps))
              split == SplitAt(ps, places)
              old == B[k]
              new == B[k + 1]
  <2>1. SUFFICES ASSUME k + 1 <= M PROVE MostEvenUpTo(ps, k + 1, new)
    OBVIOUS
  <2>2. new = Weigh(ps, old, k + 1) /\ MostEvenUpTo(ps, k, old)
    BY <1>0, <1>1, <1>3, <2>1
  <2>3. places \in SUBSET (1..(2 * size)) /\ GapAt(ps, places) \in Nat
    <3>1. places \in SUBSET (1..(2 * size))
      BY <1>0 DEF Bits
    <3>. HIDE DEF places
    <3>. QED BY <3>1, GapAtIsNat
  <2>4. Gap(split.team1, split.team2) = GapAt(ps, places)
    BY DEF SplitAt, Teams, GapAt
  <2>5. GapAt(ps, places) # None
    BY <2>3, MatchmakingAssumption
  <2>6. new = IF SplitMask(ps, k + 1) /\ (old.gap = None \/ GapAt(ps, places) < old.gap)
              THEN [split |-> split, gap |-> GapAt(ps, places)] ELSE old
    BY <2>2, <2>4 DEF Weigh, SplitMask
  <2>. HIDE DEF places, split, old, new
  <2>7. \A mask \in 0..(k + 1) : mask \in 0..k \/ (mask = k + 1 /\ Bits(mask, Len(ps)) = places)
    BY DEF places
  <2>8. CASE SplitMask(ps, k + 1) /\ (old.gap = None \/ GapAt(ps, places) < old.gap)
    <3>1. new.gap = GapAt(ps, places) /\ new.split = split
      BY <2>6, <2>8
    <3>2. ASSUME NEW mask \in 0..(k + 1), SplitMask(ps, mask)
          PROVE  new.gap <= GapAt(ps, Bits(mask, Len(ps)))
      <4>1. CASE mask \in 0..k
        <5>1. old.gap \in Nat /\ old.gap <= GapAt(ps, Bits(mask, Len(ps))) /\ new.gap < old.gap
          BY <2>2, <2>8, <3>1, <3>2, <4>1 DEF MostEvenUpTo
        <5>2. GapAt(ps, Bits(mask, Len(ps))) \in Nat
          <6>1. Bits(mask, Len(ps)) \in SUBSET (1..(2 * size))
            BY <1>0 DEF Bits
          <6>. QED BY <6>1, GapAtIsNat
        <5>. QED BY <2>3, <3>1, <5>1, <5>2
      <4>2. CASE mask = k + 1 /\ Bits(mask, Len(ps)) = places
        BY <2>3, <3>1, <4>2
      <4>. QED BY <2>7, <4>1, <4>2
    <3>. QED BY <2>3, <2>4, <2>5, <3>1, <3>2 DEF MostEvenUpTo
  <2>9. CASE ~SplitMask(ps, k + 1)
    BY <2>2, <2>6, <2>7, <2>9 DEF MostEvenUpTo
  <2>10. CASE SplitMask(ps, k + 1) /\ old.gap # None /\ ~(GapAt(ps, places) < old.gap)
    <3>1. new = old
      BY <2>6, <2>10
    <3>2. old.gap \in Nat /\ old.gap <= GapAt(ps, places)
      BY <2>2, <2>3, <2>10 DEF MostEvenUpTo
    <3>. QED BY <2>2, <2>7, <2>10, <3>1, <3>2 DEF MostEvenUpTo
  <2>. QED BY <2>8, <2>9, <2>10
<1>4. Nat \subseteq S
  <2>. HIDE DEF S
  <2>. QED BY <1>2, <1>3, Induction
<1>5. m \in Nat /\ m <= M
  BY <1>0 DEF M
<1>. QED BY <1>4, <1>5 DEF B

-----------------------------------------------------------------------------
\* The teams even_teams makes of a line-up, and that no split is more even.

Full(teams, size) ==
    /\ teams.team1 \cap teams.team2 = {}
    /\ IsFiniteSet(teams.team1) /\ Cardinality(teams.team1) = size
    /\ IsFiniteSet(teams.team2) /\ Cardinality(teams.team2) = size

MostEven(teams, size) ==
    LET all == teams.team1 \cup teams.team2
    IN  \A t \in kSubset(size, all) : Gap(teams.team1, teams.team2) <= Gap(t, all \ t)

LEMMA OthersOfHalf ==
    ASSUME NEW size \in Nat, NEW places \in SUBSET (1..(2 * size)), Cardinality(places) = size
    PROVE  Cardinality((1..(2 * size)) \ places) = size
<1>. DEFINE all == 1..(2 * size)
            others == all \ places
<1>1. IsFiniteSet(all) /\ Cardinality(all) = 2 * size
  BY FS_Interval
<1>2. IsFiniteSet(places) /\ IsFiniteSet(others)
  BY <1>1, FS_Subset
<1>3. places \cup others = all /\ places \cap others = {}
  OBVIOUS
<1>. HIDE DEF all, others
<1>4. Cardinality(all) = Cardinality(places) + Cardinality(others) - 0
  BY <1>2, <1>3, FS_Union, FS_EmptySet
<1>5. Cardinality(others) \in Nat
  BY <1>2, FS_CardinalityType
<1>6. Cardinality(others) = size
  BY <1>1, <1>4, <1>5
<1>. QED BY <1>6 DEF others, all

LEMMA EvenTeamsSplit ==
    ASSUME NEW ps, NEW size, Lineup(ps, size)
    PROVE  /\ EvenTeams(ps) = BestSplits(ps)[2 ^ Len(ps) - 1].split
           /\ \E places \in SUBSET (1..(2 * size)) :
                  Cardinality(places) = size /\ EvenTeams(ps) = SplitAt(ps, places)
<1>1. Len(ps) = 2 * size /\ Len(ps) \in Nat /\ Len(ps) \div 2 = size /\ ~(Len(ps) < 2)
  BY DEF Lineup
<1>2. 2 ^ Len(ps) - 1 \in 0..(2 ^ Len(ps) - 1)
  BY <1>1, PowerIsNat
<1>3. EvenTeams(ps) = BestSplits(ps)[2 ^ Len(ps) - 1].split
  BY <1>1 DEF EvenTeams
<1>. QED BY <1>1, <1>2, <1>3, HalvesKept DEF HalvesOf

LEMMA EvenTeamsFull ==
    ASSUME NEW ps, NEW size, Lineup(ps, size)
    PROVE  /\ Full(EvenTeams(ps), size)
           /\ EvenTeams(ps).team1 \cup EvenTeams(ps).team2 = At(ps, 1..(2 * size))
<1>1. PICK places \in SUBSET (1..(2 * size)) :
          Cardinality(places) = size /\ EvenTeams(ps) = SplitAt(ps, places)
  BY EvenTeamsSplit
<1>. DEFINE others == (1..(2 * size)) \ places
<1>2. Cardinality(others) = size
  BY <1>1, OthersOfHalf DEF Lineup
<1>3. /\ IsFiniteSet(At(ps, places)) /\ Cardinality(At(ps, places)) = size
      /\ IsFiniteSet(At(ps, others)) /\ Cardinality(At(ps, others)) = size
  BY <1>1, <1>2, SizeOfTeam
<1>4. EvenTeams(ps).team1 = At(ps, places) /\ EvenTeams(ps).team2 = At(ps, others)
  BY <1>1 DEF SplitAt, Teams, Lineup
<1>5. /\ At(ps, places) \cap At(ps, others) = {}
      /\ At(ps, places) \cup At(ps, others) = At(ps, 1..(2 * size))
  BY DEF At, Lineup
<1>. QED BY <1>3, <1>4, <1>5 DEF Full

\* Any team of the players of a line-up stands at some places of it, and the other
\* team at the others.
LEMMA PlacesOfTeam ==
    ASSUME NEW ps, NEW size, Lineup(ps, size),
           NEW t \in SUBSET At(ps, 1..(2 * size)), Cardinality(t) = size
    PROVE  \E places \in SUBSET (1..(2 * size)) :
               /\ Cardinality(places) = size /\ At(ps, places) = t
               /\ At(ps, (1..(2 * size)) \ places) = At(ps, 1..(2 * size)) \ t
<1>. DEFINE places == {i \in 1..(2 * size) : ps[i] \in t}
<1>1. At(ps, places) = t /\ At(ps, (1..(2 * size)) \ places) = At(ps, 1..(2 * size)) \ t
  BY DEF At
<1>2. Cardinality(places) = size
  BY <1>1, SizeOfTeam
<1>. QED BY <1>1, <1>2

LEMMA EvenTeamsMostEven ==
    ASSUME NEW ps, NEW size, Lineup(ps, size), RatedLineup(ps)
    PROVE  MostEven(EvenTeams(ps), size)
<1>. DEFINE n == Len(ps)
            top == 2 ^ n - 1
            best == BestSplits(ps)[top]
<1>1. n = 2 * size /\ n \in Nat /\ size \in Nat \ {0} /\ n \div 2 = size
  BY DEF Lineup
<1>2. top \in 0..top
  BY <1>1, PowerIsNat
<1>3. MostEvenUpTo(ps, top, best) /\ EvenTeams(ps) = best.split
  BY <1>2, MostEvenKept, EvenTeamsSplit
<1>4. EvenTeams(ps).team1 \cup EvenTeams(ps).team2 = At(ps, 1..(2 * size))
  BY EvenTeamsFull
<1>. DEFINE all == At(ps, 1..(2 * size))
<1>. HIDE DEF n, top, best, all
<1>5. ASSUME NEW places \in SUBSET (1..(2 * size)), Cardinality(places) = size, 1 \in places
      PROVE  Gap(EvenTeams(ps).team1, EvenTeams(ps).team2) <= GapAt(ps, places)
  <2>1. PICK mask \in 0..top : Bits(mask, n) = places
    BY <1>1, EveryMask DEF top
  <2>2. SplitMask(ps, mask)
    BY <1>1, <1>5, <2>1 DEF SplitMask, n
  <2>. QED BY <1>3, <2>1, <2>2 DEF MostEvenUpTo, n
<1>6. ASSUME NEW t \in kSubset(size, all)
      PROVE  Gap(EvenTeams(ps).team1, EvenTeams(ps).team2) <= Gap(t, all \ t)
  <2>0. t \in SUBSET At(ps, 1..(2 * size)) /\ Cardinality(t) = size
    BY <1>6 DEF all, kSubset
  <2>1. PICK places \in SUBSET (1..(2 * size)) :
            /\ Cardinality(places) = size /\ At(ps, places) = t
            /\ At(ps, (1..(2 * size)) \ places) = all \ t
    BY <2>0, PlacesOfTeam DEF all
  <2>. DEFINE others == (1..(2 * size)) \ places
  <2>2. Cardinality(others) = size /\ others \in SUBSET (1..(2 * size))
    BY <1>1, <2>1, OthersOfHalf
  <2>3. Gap(t, all \ t) = GapAt(ps, places)
    BY <1>1, <2>1 DEF GapAt, n
  <2>5. GapAt(ps, others) = GapAt(ps, places)
    BY <2>1, GapAtIsNat
  <2>4. 1 \in places \/ 1 \in others
    BY <1>1
  <2>. HIDE DEF others
  <2>. QED BY <1>5, <2>1, <2>2, <2>3, <2>5, <2>4
<1>. QED BY <1>4, <1>6 DEF MostEven, all

-----------------------------------------------------------------------------
\* Draws, samples and cuts.

LEMMA DrawnFirst ==
    ASSUME NEW S, NEW first, first \notin S, NEW size \in Nat \ {0},
           NEW s \in Draws(S, 2 * size - 1)
    PROVE  /\ Lineup(<<first>> \o s, size) /\ Lineup(Append(s, first), size)
           /\ \A ps \in {<<first>> \o s, Append(s, first)} :
                 /\ first \in At(ps, 1..(2 * size))
                 /\ At(ps, 1..(2 * size)) \subseteq S \cup {first}
<1>. DEFINE k == 2 * size - 1
            T == S \cup {first}
<1>1. k \in Nat /\ s \in [1..k -> S] /\ \A i, j \in 1..k : s[i] = s[j] => i = j
  BY DEF Draws, IsInjective
<1>2. s \in Seq(T) /\ Len(s) = k
  BY <1>1
<1>3. <<first>> \in Seq(T) /\ Len(<<first>>) = 1 /\ <<first>>[1] = first
  OBVIOUS
<1>. HIDE DEF T
<1>4. /\ Len(<<first>> \o s) = k + 1
      /\ \A i \in 1..(k + 1) : (<<first>> \o s)[i] = IF i <= 1 THEN <<first>>[i] ELSE s[i - 1]
  BY <1>1, <1>2, <1>3, ConcatProperties
<1>5. first \in T
  BY DEF T
<1>6. /\ Len(Append(s, first)) = k + 1
      /\ \A i \in 1..k : Append(s, first)[i] = s[i]
      /\ Append(s, first)[k + 1] = first
  BY <1>2, <1>5, AppendProperties
<1>7. k + 1 = 2 * size
  OBVIOUS
<1>8. ASSUME NEW i \in 1..(k + 1), i # 1 PROVE i - 1 \in 1..k
  BY <1>1, <1>8
<1>9. ASSUME NEW i \in 1..(k + 1), i # k + 1 PROVE i \in 1..k
  BY <1>1, <1>9
<1>. HIDE DEF k
<1>10. \A i \in 1..(k + 1) : (<<first>> \o s)[i] = IF i = 1 THEN first ELSE s[i - 1]
  BY <1>1, <1>3, <1>4
<1>11. \A i \in 1..k : s[i] \in S
  BY <1>1
<1>12. Lineup(<<first>> \o s, size)
  <2>1. ASSUME NEW i \in 1..(k + 1), NEW j \in 1..(k + 1),
               (<<first>> \o s)[i] = (<<first>> \o s)[j]
        PROVE  i = j
    BY <1>1, <1>8, <1>10, <1>11, <2>1
  <2>. QED BY <1>4, <1>7, <2>1 DEF Lineup
<1>13. Lineup(Append(s, first), size)
  <2>1. ASSUME NEW i \in 1..(k + 1), NEW j \in 1..(k + 1),
               Append(s, first)[i] = Append(s, first)[j]
        PROVE  i = j
    BY <1>1, <1>6, <1>9, <1>11, <2>1
  <2>. QED BY <1>6, <1>7, <2>1 DEF Lineup
<1>14. /\ first \in At(<<first>> \o s, 1..(k + 1))
       /\ At(<<first>> \o s, 1..(k + 1)) \subseteq S \cup {first}
  BY <1>1, <1>8, <1>10, <1>11 DEF At
<1>15. /\ first \in At(Append(s, first), 1..(k + 1))
       /\ At(Append(s, first), 1..(k + 1)) \subseteq S \cup {first}
  BY <1>1, <1>6, <1>9, <1>11 DEF At
<1>. QED BY <1>7, <1>12, <1>13, <1>14, <1>15

LEMMA PairOfTwo ==
    ASSUME NEW a, NEW b, a # b
    PROVE  IsFiniteSet({a, b}) /\ Cardinality({a, b}) = 2
<1>1. IsFiniteSet({a}) /\ Cardinality({a}) = 1
  BY FS_Singleton
<1>2. {a} \cup {b} = {a, b} /\ b \notin {a}
  OBVIOUS
<1>. QED BY <1>1, <1>2, FS_AddElement

LEMMA SampleKeepsItsSize ==
    ASSUME NEW chosen, IsFiniteSet(chosen), NEW out \in SUBSET chosen, NEW in, IsFiniteSet(in),
           in \cap chosen = {}, Cardinality(in) = Cardinality(out)
    PROVE  Cardinality((chosen \ out) \cup in) = Cardinality(chosen)
<1>. DEFINE rest == chosen \ out
<1>1. IsFiniteSet(out) /\ IsFiniteSet(rest)
  BY FS_Subset
<1>2. /\ rest \cap out = {} /\ rest \cup out = chosen
      /\ rest \cap in = {}
  OBVIOUS
<1>. HIDE DEF rest
<1>3. /\ Cardinality(chosen) = Cardinality(rest) + Cardinality(out) - 0
      /\ Cardinality(rest \cup in) = Cardinality(rest) + Cardinality(in) - 0
  BY <1>1, <1>2, FS_Union, FS_EmptySet
<1>. QED BY <1>3 DEF rest

-----------------------------------------------------------------------------
\* The invariant.

\* The roster: finitely many members, each with a rating and a gender.
RosterOK ==
    /\ IsFiniteSet(Members) /\ Members \subseteq Nat
    /\ \A p \in Members : PlayerElo(p) \in Int /\ roster[p].gender \in {"male", "female"}

\* The sample of a social game, however often it was swapped.
SampleOK(l) ==
    /\ {"size", "first", "chosen", "round"} \subseteq DOMAIN l
    /\ l.size \in Sizes \ {0} /\ l.first \in LeastPlayed
    /\ l.chosen \subseteq Members \ {l.first} /\ Cardinality(l.chosen) = 2 * l.size - 1

SamplesOK == \A r \in Requests : pc[r] = "swap" => SampleOK(loc[r])

MatchInv == RosterOK /\ SamplesOK /\ MatchTypeOK /\ TeamsAreFair /\ EvenTeamsAreMostEven

LEMMA SwapsAre ==
    ASSUME FlightOK, OthersOK, [Next]_vars, NEW q \in Requests, pc'[q] = "swap"
    PROVE  Stays(q) \/ Swap(q) \/ \E size \in Sizes : CreateSocial(q, size)
<1>1. ASSUME UNCHANGED flight PROVE Stays(q)
  BY <1>1 DEF flight, Stays
<1>2. CASE UNCHANGED vars
  BY <1>1, <1>2 DEF vars
<1>3. CASE AtOnce
  <2>1. UNCHANGED flight
    BY <1>3 DEF AtOnce, TimePasses, AccessExpires, RefreshExpires, LetterExpires, DropAccess,
       DropRefresh, MembershipAtOnce, DeleteClub, CancelRequest, RatingAtOnce, DeleteGame,
       MatchAtOnce, CreateSbmm
  <2>. QED BY <1>1, <2>1
<1>4. ASSUME NEW r \in Requests, r # q, Begin(r) \/ Step(r) \/ Stop(r) PROVE Stays(q)
  <2>1. (\E to, x : Moves(r, to, x)) \/ ForeignMove(r)
    BY <1>4, AccountMoves, MembershipBegins, MembershipMoves, MembershipStops, LogoMoves,
       RatingMoves, MatchMoves DEF Begin, Step, Stop, Erase
  <2>2. PICK to, x : Moves(r, to, x)
    BY <2>1 DEF ForeignMove
  <2>. QED BY <1>4, <2>2 DEF FlightOK, LocOK, PcOK, Moves, Stays
<1>5. ASSUME Begin(q) \/ Step(q) \/ Stop(q)
      PROVE  MatchStep(q) \/ BeginMatchCall(q)
  <2>1. CASE AccountStep(q) \/ Erase(q) \/ BeginAccountCall(q)
    BY <2>1, AccountTargets DEF Erase, AccountLabels
  <2>2. CASE MembershipStep(q) \/ BeginMembershipCall(q)
    BY <2>2, MembershipUsers, MembershipBegun DEF MembershipLabels
  <2>3. CASE LogoStep(q) \/ BeginLogoCall(q)
    BY <2>3, LogoUsers, LogoBegun DEF LogoLabels, Uploading, Removing
  <2>4. CASE RatingStep(q) \/ BeginRatingCall(q)
    BY <2>4, RatingUsers DEF RatingLabels
  <2>5. CASE Stop(q)
    BY <2>5 DEF Stop, StopAccountCall, StopMembershipCall, StopLogo, StopRating, StopSocial,
       Drop, FlightOK, PcOK
  <2>. QED BY <1>5, <2>1, <2>2, <2>3, <2>4, <2>5 DEF Begin, Step
<1>6. CASE MatchStep(q) \/ BeginMatchCall(q)
  <2>1. Split(q) => pc'[q] = "idle"
    BY GoesTo DEF Split, Done
  <2>. QED BY <1>6, <2>1 DEF MatchStep, BeginMatchCall
<1>. QED BY <1>2, <1>3, <1>4, <1>5, <1>6 DEF Next

LEMMA MatchNext ==
    ASSUME [Next]_vars
    PROVE  /\ roster' = roster
           /\ \/ court' = court
              \/ \E r \in Requests : Split(r)
              \/ \E size \in Sizes : CreateSbmm(size)
<1>1. CASE UNCHANGED matchVars
  BY <1>1 DEF matchVars
<1>2. CASE MatchAtOnce
  BY <1>2 DEF MatchAtOnce, CreateSbmm
<1>3. ASSUME NEW r \in Requests, BeginMatchCall(r) PROVE UNCHANGED matchVars
  BY <1>3 DEF BeginMatchCall, CreateSocial
<1>4. ASSUME NEW r \in Requests, MatchStep(r)
      PROVE  UNCHANGED matchVars \/ (Split(r) /\ roster' = roster)
  BY <1>4 DEF MatchStep, Swap, Split
<1>5. ASSUME NEW r \in Requests, StopSocial(r) PROVE UNCHANGED matchVars
  BY <1>5 DEF StopSocial
<1>6. \/ UNCHANGED matchVars \/ MatchAtOnce
      \/ \E r \in Requests : BeginMatchCall(r) \/ MatchStep(r) \/ StopSocial(r)
  BY DEF Next, AtOnce, Begin, Step, Stop, Erase, vars
<1>. QED BY <1>1, <1>2, <1>3, <1>4, <1>5, <1>6 DEF matchVars

LEMMA RosterInit == Init => RosterOK
<1>. SUFFICES ASSUME Init PROVE RosterOK
  OBVIOUS
<1>1. roster \in Rosters \/ roster = <<>>
  BY DEF Init, MatchInit
<1>2. CASE roster \in Rosters
  <2>1. ASSUME NEW p \in Members PROVE roster[p].elo \in Int /\ roster[p].streak \in Int
    BY <1>2, MatchmakingAssumption DEF Members
  <2>2. ASSUME NEW p \in Members PROVE PlayerElo(p) \in Int
    BY <2>1 DEF PlayerElo
  <2>. QED BY <1>2, <2>2, MatchmakingAssumption DEF RosterOK, Members
<1>3. CASE roster = <<>>
  <2>1. Members = {}
    BY <1>3 DEF Members
  <2>. QED BY <2>1, FS_EmptySet DEF RosterOK
<1>. QED BY <1>1, <1>2, <1>3

LEMMA SamplesStep ==
    ASSUME FlightOK, OthersOK, RosterOK, SamplesOK, [Next]_vars
    PROVE  SamplesOK'
<1>1. roster' = roster
  BY MatchNext
<1>2. SUFFICES ASSUME NEW q \in Requests, pc'[q] = "swap"
               PROVE  SampleOK(loc'[q])
  BY <1>1 DEF SamplesOK, SampleOK, LeastPlayed, Members, Played
<1>3. CASE Stays(q)
  BY <1>2, <1>3 DEF Stays, SamplesOK
<1>4. ASSUME NEW size \in Sizes, CreateSocial(q, size) PROVE SampleOK(loc'[q])
  <2>1. PICK first \in LeastPlayed, chosen \in SUBSET Members :
           /\ chosen \in kSubset(2 * size - 1, Members \ {first})
           /\ Goto(q, "swap", [user |-> None, size |-> size, first |-> first, chosen |-> chosen,
                               round |-> 1])
    BY <1>4 DEF CreateSocial, Start, kSubset
  <2>2. size \in Nat /\ size > 0
    BY <1>4, MatchmakingAssumption DEF CreateSocial
  <2>3. loc'[q] = [user |-> None, size |-> size, first |-> first, chosen |-> chosen, round |-> 1]
    BY <2>1, GoesTo
  <2>4. chosen \subseteq Members \ {first} /\ Cardinality(chosen) = 2 * size - 1
    BY <2>1 DEF kSubset
  <2>. QED BY <2>2, <2>3, <2>4 DEF SampleOK
<1>5. CASE Swap(q)
  <2>. DEFINE l == loc[q]
              pool == Members \ (l.chosen \cup {l.first})
  <2>1. SampleOK(l)
    BY <1>5 DEF Swap, SamplesOK
  <2>2. PICK out \in SUBSET l.chosen, in \in SUBSET pool, next \in SUBSET (l.chosen \cup pool) :
            /\ out \in kSubset(SwapCount(l.size), l.chosen)
            /\ in \in kSubset(SwapCount(l.size), pool)
            /\ next \in {l.chosen, (l.chosen \ out) \cup in}
            /\ Goto(q, "swap", [l EXCEPT !.round = @ + 1, !.chosen = next])
    BY <1>5 DEF Swap, kSubset
  <2>3. IsFiniteSet(l.chosen) /\ IsFiniteSet(pool)
    BY <2>1, FS_Subset DEF RosterOK, SampleOK
  <2>4. /\ out \in SUBSET l.chosen /\ in \in SUBSET pool
        /\ Cardinality(in) = Cardinality(out)
    BY <2>2 DEF kSubset
  <2>5. Cardinality((l.chosen \ out) \cup in) = Cardinality(l.chosen)
    <3>1. IsFiniteSet(in) /\ in \cap l.chosen = {}
      BY <2>3, <2>4, FS_Subset
    <3>. QED BY <2>3, <2>4, <3>1, SampleKeepsItsSize
  <2>6. next \subseteq Members \ {l.first} /\ Cardinality(next) = Cardinality(l.chosen)
    BY <2>1, <2>2, <2>4, <2>5 DEF SampleOK
  <2>7. loc'[q] = [l EXCEPT !.round = @ + 1, !.chosen = next]
    BY <2>2, GoesTo
  <2>. HIDE DEF l
  <2>. QED BY <2>1, <2>6, <2>7 DEF SampleOK
<1>. QED BY <1>2, <1>3, <1>4, <1>5, SwapsAre

-----------------------------------------------------------------------------
\* The games that are made up.

FairGame(size, first, teams) ==
    /\ first \in teams.team1 \cup teams.team2 /\ teams.team1 \cup teams.team2 \subseteq Members
    /\ IF size = 0 THEN teams = Teams({first}, {}) ELSE Full(teams, size)

MixedTeams(teams) ==
    \A t \in {teams.team1, teams.team2} : {roster[p].gender : p \in t} = {"male", "female"}

LEMMA LineupIsFair ==
    ASSUME RosterOK, NEW first \in Members, NEW size \in Nat \ {0}, NEW S \in SUBSET Members,
           first \notin S, NEW s \in Draws(S, 2 * size - 1),
           NEW ps \in {<<first>> \o s, Append(s, first)}
    PROVE  FairGame(size, first, EvenTeams(ps)) /\ MostEven(EvenTeams(ps), size)
<1>1. /\ Lineup(ps, size) /\ first \in At(ps, 1..(2 * size))
      /\ At(ps, 1..(2 * size)) \subseteq S \cup {first}
  <2>1. /\ Lineup(<<first>> \o s, size) /\ Lineup(Append(s, first), size)
        /\ \A qs \in {<<first>> \o s, Append(s, first)} :
              /\ first \in At(qs, 1..(2 * size))
              /\ At(qs, 1..(2 * size)) \subseteq S \cup {first}
    BY DrawnFirst
  <2>. HIDE DEF At, Lineup
  <2>2. Lineup(ps, size)
    BY <2>1
  <2>3. first \in At(ps, 1..(2 * size)) /\ At(ps, 1..(2 * size)) \subseteq S \cup {first}
    BY <2>1
  <2>. QED BY <2>2, <2>3
<1>2. /\ Full(EvenTeams(ps), size)
      /\ EvenTeams(ps).team1 \cup EvenTeams(ps).team2 = At(ps, 1..(2 * size))
  BY <1>1, EvenTeamsFull
<1>3. RatedLineup(ps)
  <2>1. \A i \in 1..Len(ps) : ps[i] \in Members
    BY <1>1 DEF At, Lineup
  <2>. QED BY <2>1 DEF RatedLineup, RosterOK
<1>4. MostEven(EvenTeams(ps), size)
  BY <1>1, <1>3, EvenTeamsMostEven
<1>. QED BY <1>1, <1>2, <1>4 DEF FairGame

LEMMA SbmmIsFair ==
    ASSUME RosterOK, NEW first \in Members, NEW size \in Nat, NEW teams \in Sbmm(first, size)
    PROVE  FairGame(size, first, teams) /\ (size > 1 => MostEven(teams, size))
<1>. DEFINE others == IF size = 0 THEN 0 ELSE 2 * size - 1
<1>5. PICK S \in SUBSET (Members \ {first}) :
          \E s \in Draws(S, others) :
              teams = IF size = 1 THEN Teams({first}, {s[1]}) ELSE EvenTeams(<<first>> \o s)
  <2>. DEFINE potential == Members \ {first}
              closest == IF Cardinality(potential) > 2 * size + 1
                          THEN ClosestByElo(potential, PlayerElo(first), 2 * size + 1)
                          ELSE potential
  <2>1. closest \in SUBSET (Members \ {first})
    BY DEF ClosestByElo
  <2>2. \E s \in Draws(closest, others) :
            teams = IF size = 1 THEN Teams({first}, {s[1]}) ELSE EvenTeams(<<first>> \o s)
    BY DEF Sbmm
  <2>. HIDE DEF closest, others
  <2>. QED BY <2>1, <2>2
<1>6. PICK s \in Draws(S, others) :
          teams = IF size = 1 THEN Teams({first}, {s[1]}) ELSE EvenTeams(<<first>> \o s)
  BY <1>5
<1>7. PICK ps : ps = <<first>> \o s
  OBVIOUS
<1>1. /\ s \in Draws(S, others) /\ ps = <<first>> \o s
      /\ teams = IF size = 1 THEN Teams({first}, {s[1]}) ELSE EvenTeams(ps)
  BY <1>6, <1>7
<1>2. CASE size = 0
  <2>1. s \in [1..0 -> S]
    BY <1>1, <1>2 DEF Draws
  <2>2. s = <<>>
    BY <2>1
  <2>3. ps = <<first>> \o <<>> /\ Len(ps) = 1 /\ ps[1] = first
    BY <1>1, <2>2
  <2>4. teams = EvenTeams(ps)
    BY <1>1, <1>2
  <2>5. At(ps, 1..Len(ps)) = {first}
    BY <2>3 DEF At
  <2>7. Len(ps) < 2
    BY <2>3
  <2>8. EvenTeams(ps) = Teams(At(ps, 1..Len(ps)), {})
    BY <2>7, Zenon DEF EvenTeams
  <2>6. EvenTeams(ps) = Teams({first}, {})
    BY <2>5, <2>8, Zenon
  <2>. QED BY <1>2, <2>4, <2>6 DEF FairGame, Teams
<1>3. CASE size = 1
  <2>1. s \in [1..1 -> S]
    BY <1>1, <1>3 DEF Draws
  <2>2. s[1] \in Members /\ s[1] # first
    BY <1>1, <2>1
  <2>3. teams.team1 = {first} /\ teams.team2 = {s[1]}
    BY <1>1, <1>3 DEF Teams
  <2>4. Full(teams, 1)
    <3>1. {first} \cap {s[1]} = {}
      BY <2>2
    <3>2. \A x : IsFiniteSet({x}) /\ Cardinality({x}) = 1
      BY FS_Singleton
    <3>. QED BY <2>3, <3>1, <3>2 DEF Full
  <2>5. first \in teams.team1 \cup teams.team2 /\ teams.team1 \cup teams.team2 \subseteq Members
    BY <2>2, <2>3
  <2>. QED BY <1>3, <2>4, <2>5 DEF FairGame
<1>4. CASE size > 1
  <2>1. /\ size \in Nat \ {0} /\ s \in Draws(S, 2 * size - 1)
        /\ ps \in {<<first>> \o s, Append(s, first)} /\ teams = EvenTeams(ps)
    BY <1>1, <1>4
  <2>2. S \in SUBSET Members /\ first \notin S
    BY <1>1
  <2>. QED BY <2>1, <2>2, LineupIsFair
<1>. QED BY <1>2, <1>3, <1>4

LEMMA MixedIsFair ==
    ASSUME RosterOK, NEW first \in Members, NEW teams \in MixedSbmm(first)
    PROVE  FairGame(2, first, teams) /\ MixedTeams(teams)
<1>1. PICK rival \in SameGender(first), weak \in OtherGender(first), strong \in OtherGender(first) :
          /\ weak # strong
          /\ teams = Teams({first, weak}, {rival, strong})
  <2>. DEFINE same == SameGender(first)
              elo == PlayerElo(first)
              rivals == IF Cardinality(same) < 3 THEN same ELSE ClosestByElo(same, elo, 2)
              other == OtherGender(first)
              partners == IF Cardinality(same) < 5 THEN other ELSE ClosestByElo(other, elo, 4)
              Pair(rival, weak, strong) ==
                IF elo > PlayerElo(rival) THEN Teams({first, weak}, {rival, strong})
                ELSE Teams({first, strong}, {rival, weak})
  <2>1. rivals \subseteq same /\ partners \subseteq other
    BY DEF ClosestByElo
  <2>. DEFINE Drawn(rival, s) == IF roster[s[1]].elo > roster[s[2]].elo
                                   THEN Pair(rival, s[2], s[1]) ELSE Pair(rival, s[1], s[2])
  <2>2. PICK rival \in rivals, s \in Draws(partners, 2) : teams = Drawn(rival, s)
    <3>1. MixedSbmm(first) = {Drawn(rival, s) : rival \in rivals, s \in Draws(partners, 2)}
      BY DEF MixedSbmm
    <3>. HIDE DEF Drawn, rivals, partners
    <3>. QED BY <3>1
  <2>3. s[1] \in partners /\ s[2] \in partners /\ s[1] # s[2]
    <3>1. s \in [1..2 -> partners] /\ IsInjective(s)
      BY <2>2 DEF Draws
    <3>. HIDE DEF partners
    <3>. QED BY <3>1 DEF IsInjective
  <2>4. \/ teams = Teams({first, s[1]}, {rival, s[2]})
        \/ teams = Teams({first, s[2]}, {rival, s[1]})
    BY <2>2
  <2>5. s[1] \in OtherGender(first) /\ s[2] \in OtherGender(first) /\ rival \in SameGender(first)
    BY <2>1, <2>2, <2>3
  <2>. DEFINE Fits(weak, strong) ==
                weak # strong /\ teams = Teams({first, weak}, {rival, strong})
  <2>6. Fits(s[1], s[2]) \/ Fits(s[2], s[1])
    BY <2>3, <2>4
  <2>7. \E weak, strong \in OtherGender(first) : Fits(weak, strong)
    <3>. HIDE DEF Fits
    <3>. QED BY <2>5, <2>6
  <2>. QED BY <2>5, <2>7
<1>2. /\ rival \in Members /\ rival # first /\ roster[rival].gender = roster[first].gender
      /\ {weak, strong} \subseteq Members
      /\ roster[weak].gender # roster[first].gender /\ roster[strong].gender # roster[first].gender
  BY DEF SameGender, OtherGender
<1>3. /\ roster[first].gender \in {"male", "female"}
      /\ roster[weak].gender \in {"male", "female"} /\ roster[strong].gender \in {"male", "female"}
  BY <1>2 DEF RosterOK
<1>4. first # weak /\ rival # strong /\ {first, weak} \cap {rival, strong} = {}
  BY <1>1, <1>2
<1>5. Full(teams, 2)
  BY <1>1, <1>4, PairOfTwo DEF Full, Teams
<1>6. ASSUME NEW a \in {first, rival}, NEW b \in {weak, strong}
      PROVE  {roster[p].gender : p \in {a, b}} = {"male", "female"}
  <2>1. {roster[p].gender : p \in {a, b}} = {roster[a].gender, roster[b].gender}
    OBVIOUS
  <2>. QED BY <1>2, <1>3, <2>1
<1>7. MixedTeams(teams)
  BY <1>1, <1>6 DEF MixedTeams, Teams
<1>. QED BY <1>1, <1>2, <1>5, <1>7 DEF FairGame, Teams

LEMMA GapStays ==
    ASSUME roster' = roster
    PROVE  \A t1, t2 : Gap(t1, t2)' = Gap(t1, t2)
<1>1. \A p : PlayerElo(p)' = PlayerElo(p)
  BY DEF PlayerElo
<1>2. \A ps : EloSum(ps)' = EloSum(ps)
  <2>. SUFFICES ASSUME NEW ps PROVE EloSum(ps)' = EloSum(ps)
    OBVIOUS
  <2>. QED BY <1>1 DEF EloSum, MapThenSumSet, MapThenFoldSet
<1>. QED BY <1>2 DEF Gap

LEMMA MadeUp ==
    ASSUME NEW kind \in {"sbmm", "mixed", "social", "even"}, NEW size \in Sizes,
           NEW first \in LeastPlayed, NEW teams, FairGame(size, first, teams),
           kind = "mixed" => MixedTeams(teams),
           kind \in {"sbmm", "even"} /\ size > 1 => MostEven(teams, size),
           roster' = roster, MakeUp(kind, size, first, teams)
    PROVE  (MatchTypeOK /\ TeamsAreFair /\ EvenTeamsAreMostEven)'
<1>1. court' = [kind |-> kind, size |-> size, first |-> first,
                team1 |-> teams.team1, team2 |-> teams.team2]
  BY DEF MakeUp
<1>2. TeamsAreFair'
  <2>1. LeastPlayed' = LeastPlayed
    BY DEF LeastPlayed, Members, Played
  <2>2. /\ first \in teams.team1 \cup teams.team2 /\ teams.team1 \cap teams.team2 = {}
        /\ IF size = 0 THEN teams.team1 = {first} /\ teams.team2 = {}
           ELSE Cardinality(teams.team1) = size /\ Cardinality(teams.team2) = size
    BY DEF FairGame, Full, Teams
  <2>3. kind = "mixed" =>
            \A t \in {teams.team1, teams.team2} : {roster[p].gender : p \in t} = {"male", "female"}
    BY DEF MixedTeams
  <2>. QED BY <1>1, <2>1, <2>2, <2>3 DEF TeamsAreFair
<1>3. EvenTeamsAreMostEven'
  <2>1. \A t1, t2 : Gap(t1, t2)' = Gap(t1, t2)
    BY GapStays
  <2>. QED BY <1>1, <2>1 DEF EvenTeamsAreMostEven, MostEven
<1>4. MatchTypeOK'
  BY <1>1 DEF MatchTypeOK, FairGame, Members
<1>. QED BY <1>2, <1>3, <1>4

LEMMA NotMadeUp ==
    ASSUME MatchInv, roster' = roster, court' = court
    PROVE  (MatchTypeOK /\ TeamsAreFair /\ EvenTeamsAreMostEven)'
<1>1. LeastPlayed' = LeastPlayed /\ Members' = Members
  BY DEF LeastPlayed, Members, Played
<1>2. \A t1, t2 : Gap(t1, t2)' = Gap(t1, t2)
  BY GapStays
<1>3. TeamsAreFair' /\ MatchTypeOK'
  BY <1>1 DEF MatchInv, TeamsAreFair, MatchTypeOK
<1>4. EvenTeamsAreMostEven'
  BY <1>2 DEF MatchInv, EvenTeamsAreMostEven
<1>. QED BY <1>3, <1>4

LEMMA SbmmMade ==
    ASSUME MatchInv, NEW size \in Sizes, CreateSbmm(size)
    PROVE  (MatchTypeOK /\ TeamsAreFair /\ EvenTeamsAreMostEven)'
<1>0. RosterOK /\ size \in Nat /\ roster' = roster
  BY MatchmakingAssumption DEF MatchInv, CreateSbmm
<1>1. PICK first \in LeastPlayed :
          \/ \E teams \in Sbmm(first, size) : MakeUp("sbmm", size, first, teams)
          \/ /\ MixedPossible(size)
             /\ \E teams \in MixedSbmm(first) : MakeUp("mixed", size, first, teams)
  BY DEF CreateSbmm
<1>2. first \in Members
  BY DEF LeastPlayed
<1>3. ASSUME NEW teams \in Sbmm(first, size), MakeUp("sbmm", size, first, teams)
      PROVE  (MatchTypeOK /\ TeamsAreFair /\ EvenTeamsAreMostEven)'
  BY <1>0, <1>2, <1>3, SbmmIsFair, MadeUp
<1>4. ASSUME MixedPossible(size), NEW teams \in MixedSbmm(first),
             MakeUp("mixed", size, first, teams)
      PROVE  (MatchTypeOK /\ TeamsAreFair /\ EvenTeamsAreMostEven)'
  <2>1. size = 2
    BY <1>4 DEF MixedPossible
  <2>. QED BY <1>0, <1>2, <1>4, <2>1, MixedIsFair, MadeUp
<1>. QED BY <1>1, <1>3, <1>4

LEMMA SocialMade ==
    ASSUME MatchInv, NEW r \in Requests, Split(r), roster' = roster
    PROVE  (MatchTypeOK /\ TeamsAreFair /\ EvenTeamsAreMostEven)'
<1>. DEFINE l == loc[r]
            all == l.chosen \cup {l.first}
<1>1. RosterOK /\ SampleOK(l)
  BY DEF MatchInv, SamplesOK, Split
<1>2. /\ l.size \in Sizes /\ l.size \in Nat \ {0} /\ l.first \in LeastPlayed /\ l.first \in Members
      /\ l.chosen \in SUBSET Members /\ l.first \notin l.chosen
      /\ Cardinality(l.chosen) = 2 * l.size - 1
  BY <1>1, MatchmakingAssumption DEF SampleOK, LeastPlayed
<1>3. ASSUME NEW s \in Draws(l.chosen, 2 * l.size - 1),
             MakeUp("even", l.size, l.first, EvenTeams(Append(s, l.first)))
      PROVE  (MatchTypeOK /\ TeamsAreFair /\ EvenTeamsAreMostEven)'
  <2>1. /\ FairGame(l.size, l.first, EvenTeams(Append(s, l.first)))
        /\ MostEven(EvenTeams(Append(s, l.first)), l.size)
    BY <1>1, <1>2, LineupIsFair
  <2>. QED BY <1>2, <1>3, <2>1, MadeUp
<1>4. ASSUME NEW t \in kSubset(l.size, all), MakeUp("social", l.size, l.first, Teams(t, all \ t))
      PROVE  (MatchTypeOK /\ TeamsAreFair /\ EvenTeamsAreMostEven)'
  <2>. DEFINE u == all \ t
  <2>1. t \in SUBSET all /\ Cardinality(t) = l.size
    BY <1>4 DEF kSubset
  <2>2. IsFiniteSet(all) /\ Cardinality(all) = 2 * l.size
    <3>1. IsFiniteSet(l.chosen)
      BY <1>1, <1>2, FS_Subset DEF RosterOK
    <3>2. Cardinality(all) = Cardinality(l.chosen) + 1 /\ IsFiniteSet(all)
      BY <1>2, <3>1, FS_AddElement
    <3>. QED BY <1>2, <3>2
  <2>3. IsFiniteSet(t) /\ IsFiniteSet(u)
    BY <2>1, <2>2, FS_Subset
  <2>4. t \cup u = all /\ t \cap u = {}
    BY <2>1
  <2>5. l.first \in all /\ all \subseteq Members
    BY <1>2
  <2>. HIDE DEF all, u, l
  <2>6. Cardinality(all) = Cardinality(t) + Cardinality(u) - 0 /\ Cardinality(u) \in Nat
    <3>1. Cardinality(t \cup u) = Cardinality(t) + Cardinality(u) - Cardinality(t \cap u)
      BY <2>3, FS_Union
    <3>2. Cardinality(t \cap u) = 0
      BY <2>4, FS_EmptySet
    <3>3. Cardinality(u) \in Nat
      BY <2>3, FS_CardinalityType
    <3>. QED BY <2>4, <3>1, <3>2, <3>3
  <2>7. Cardinality(u) = l.size
    BY <1>2, <2>1, <2>2, <2>6
  <2>8. FairGame(l.size, l.first, Teams(t, u))
    BY <1>2, <2>1, <2>3, <2>4, <2>5, <2>7 DEF FairGame, Full, Teams
  <2>9. MakeUp("social", l.size, l.first, Teams(t, u))
    BY <1>4 DEF u
  <2>. QED BY <1>2, <2>8, <2>9, MadeUp
<1>. QED BY <1>3, <1>4 DEF Split

LEMMA MatchInitially == Init => MatchInv
<1>. SUFFICES ASSUME Init PROVE MatchInv
  OBVIOUS
<1>1. court = None /\ \A r \in Requests : pc[r] = "idle"
  BY DEF Init, FlightInit, MatchInit
<1>. QED BY <1>1, RosterInit
  DEF MatchInv, SamplesOK, TeamsAreFair, EvenTeamsAreMostEven, MatchTypeOK

LEMMA MatchKept ==
    ASSUME FlightOK, OthersOK, MatchInv, [Next]_vars
    PROVE  MatchInv'
<1>1. roster' = roster
  BY MatchNext
<1>2. RosterOK'
  BY <1>1 DEF MatchInv, RosterOK, Members, PlayerElo
<1>3. SamplesOK'
  BY SamplesStep DEF MatchInv
<1>4. (MatchTypeOK /\ TeamsAreFair /\ EvenTeamsAreMostEven)'
  BY <1>1, MatchNext, NotMadeUp, SbmmMade, SocialMade
<1>. QED BY <1>2, <1>3, <1>4 DEF MatchInv

LEMMA MatchHolds == Spec => []MatchInv
<1>1. Init => FlightOK /\ TablesOK /\ OthersOK /\ MatchInv
  BY InitFlightOK, InitTablesOK, OthersInit, MatchInitially
<1>2. FlightOK /\ TablesOK /\ OthersOK /\ MatchInv /\ [Next]_vars
      => (FlightOK /\ TablesOK /\ OthersOK /\ MatchInv)'
  BY FlightStep, TablesStep, OthersStep, MatchKept
<1>. QED BY <1>1, <1>2, PTL DEF Spec

\* Whatever the random draws, the swaps and the cuts, a game that is made up has two full
\* teams of different members, and one who has played least is in it; a mixed game has a
\* man and a woman in each team; when the game type does not tell its size, that one member
\* is alone (create_sbmm and create_social,
\* src/server/src/domain/games.rs, with sbmm, mixed_sbmm and social,
\* src/server/src/matchmaking.rs).
THEOREM GamesAreFair == Spec => []TeamsAreFair
<1>1. MatchInv => TeamsAreFair
  BY DEF MatchInv
<1>. QED BY <1>1, MatchHolds, PTL

\* Of all the ways to split a line-up into two teams of its game's size, the search of
\* even_teams over the masks (src/server/src/matchmaking.rs) returns one that is the most
\* even, however long the line-up (the code searches so up to twelve players, and no caller
\* has more).
THEOREM SplitsAreMostEven == Spec => []EvenTeamsAreMostEven
<1>1. MatchInv => EvenTeamsAreMostEven
  BY DEF MatchInv
<1>. QED BY <1>1, MatchHolds, PTL

-----------------------------------------------------------------------------
\* Supplies that the requests in flight draw on.

LEMMA CountedRequests ==
    ASSUME NEW S \in SUBSET Requests
    PROVE  IsFiniteSet(S) /\ Cardinality(S) \in Nat
<1>1. IsFiniteSet(S)
  BY InFlightAssumption, FS_Subset
<1>. QED BY <1>1, FS_CardinalityType

\* What is left of a supply covers the requests that may still draw on it,
\* before a step of r and after it.
LEMMA SupplyLasts ==
    ASSUME NEW S \in SUBSET Requests, NEW T \in SUBSET Requests, NEW r \in Requests,
           T \subseteq S \cup {r},
           NEW used \in Nat, NEW used1 \in Nat, NEW max \in Nat, used + Cardinality(S) <= max,
           \/ used1 = used /\ (r \in T => r \in S)
           \/ used1 = used /\ used + Cardinality(S) < max
           \/ used1 <= used + 1 /\ r \in S /\ r \notin T
    PROVE  used1 + Cardinality(T) <= max
<1>1. /\ IsFiniteSet(S) /\ Cardinality(S) \in Nat
      /\ IsFiniteSet(T) /\ Cardinality(T) \in Nat
  BY CountedRequests
<1>2. CASE used1 = used /\ (r \in T => r \in S)
  <2>1. T \subseteq S
    BY <1>2
  <2>2. Cardinality(T) <= Cardinality(S)
    BY <1>1, <2>1, FS_Subset
  <2>. QED BY <1>1, <1>2, <2>2
<1>3. CASE used1 = used /\ used + Cardinality(S) < max
  <2>1. IsFiniteSet(S \cup {r}) /\ Cardinality(S \cup {r}) \in Nat
        /\ Cardinality(S \cup {r}) <= Cardinality(S) + 1
    BY <1>1, FS_AddElement, CountedRequests
  <2>2. Cardinality(T) <= Cardinality(S \cup {r})
    BY <2>1, FS_Subset
  <2>. QED BY <1>1, <1>3, <2>1, <2>2
<1>4. CASE used1 <= used + 1 /\ r \in S /\ r \notin T
  <2>1. T \subseteq S \ {r} /\ IsFiniteSet(S \ {r}) /\ Cardinality(S \ {r}) = Cardinality(S) - 1
    BY <1>1, <1>4, FS_RemoveElement
  <2>2. Cardinality(T) <= Cardinality(S \ {r})
    BY <2>1, FS_Subset
  <2>. QED BY <1>1, <1>4, <2>1, <2>2
<1>. QED BY <1>2, <1>3, <1>4

LEMMA SupplyRests ==
    ASSUME NEW S \in SUBSET Requests, NEW T \in SUBSET Requests, T \subseteq S,
           NEW used \in Nat, NEW max \in Nat, used + Cardinality(S) <= max
    PROVE  used + Cardinality(T) <= max
<1>1. IsFiniteSet(S) /\ Cardinality(S) \in Nat /\ Cardinality(T) \in Nat
  BY CountedRequests
<1>2. Cardinality(T) <= Cardinality(S)
  BY <1>1, FS_Subset
<1>. QED BY <1>1, <1>2

-----------------------------------------------------------------------------
FlightGoes ==
    \/ UNCHANGED flight
    \/ \E r \in Requests : Drop(r) \/ \E to, x : Goto(r, to, x)

LEMMA FlightNext ==
    ASSUME [Next]_vars
    PROVE  FlightGoes
<1>. USE DEF FlightGoes
<1>1. CASE UNCHANGED vars
  BY <1>1 DEF vars
<1>2. CASE AtOnce
  BY <1>2 DEF AtOnce, TimePasses, AccessExpires, RefreshExpires, LetterExpires, DropAccess,
     DropRefresh, MembershipAtOnce, DeleteClub, CancelRequest, RatingAtOnce, DeleteGame,
     MatchAtOnce, CreateSbmm
<1>3. ASSUME NEW r \in Requests, Begin(r) PROVE \E to, x : Goto(r, to, x)
  <2>1. ASSUME NEW to, NEW x, Start(r, to, x) PROVE \E t, y : Goto(r, t, y)
    BY <2>1 DEF Start
  <2>2. CASE BeginAccountCall(r)
    BY <2>1, <2>2 DEF BeginAccountCall, Send, BeginLogin, BeginLogout, Register, RequestLetter,
       UseLetter
  <2>3. CASE BeginMembershipCall(r)
    <3>1. ASSUME NEW to, NEW x, BeginFor(r, to, x) PROVE \E t, y : Goto(r, t, y)
      BY <2>1, <3>1 DEF BeginFor
    <3>2. ASSUME NEW u \in Users, NEW c \in Clubs, NEW who \in Users,
                 \/ CreateClub(r, u, c) \/ RequestToJoin(r, u, c) \/ CreateDummy(r, u, c)
                 \/ Invite(r, u, c, who)
          PROVE  \E to, x : Goto(r, to, x)
      BY <2>1, <3>1, <3>2 DEF CreateClub, RequestToJoin, CreateDummy, Invite
    <3>3. ASSUME NEW u \in Users, NEW i, AcceptRequest(r, u, i) \/ RejectRequest(r, u, i)
          PROVE  \E to, x : Goto(r, to, x)
      BY <3>1, <3>3 DEF AcceptRequest, RejectRequest, BeginAnswer
    <3>4. ASSUME NEW u \in Users, NEW m,
                 \/ DeleteMember(r, u, m) \/ LeaveClub(r, u, m)
                 \/ PromoteMember(r, u, m) \/ DemoteMember(r, u, m)
          PROVE  \E to, x : Goto(r, to, x)
      BY <3>1, <3>4 DEF DeleteMember, LeaveClub, PromoteMember, DemoteMember, BeginMemberCall
    <3>. QED BY <2>3, <3>2, <3>3, <3>4 DEF BeginMembershipCall
  <2>4. CASE BeginLogoCall(r)
    BY <2>1, <2>4 DEF BeginLogoCall, UploadLogo, RemoveLogo, BeginLogo
  <2>5. CASE BeginRatingCall(r)
    BY <2>1, <2>5 DEF BeginRatingCall, CompleteGame, SeatPlayer, BeginRating
  <2>6. CASE BeginMatchCall(r)
    BY <2>1, <2>6 DEF BeginMatchCall, CreateSocial
  <2>. QED BY <1>3, <2>2, <2>3, <2>4, <2>5, <2>6 DEF Begin
<1>4. ASSUME NEW r \in Requests, Step(r) PROVE \E to, x : Goto(r, to, x)
  <2>1. ASSUME NEW to, Proceed(r, to) \/ Done(r) PROVE \E t, y : Goto(r, t, y)
    BY <2>1 DEF Proceed, Done
  <2>2. CASE AccountStep(r)
    BY <2>1, <2>2 DEF AccountStep, Authenticate, Sweep, GiveUp, AskRefresh,
       FindSession, SweepOld, Rotate, Resend, EditProfile, CheckPassword, IssueSession, SignIn,
       Logout, ClearCookies, Mail, DiscardLetter, SetPassword, SetVerified, SpendLetter,
       RevokeSessions
  <2>3. CASE Erase(r)
    BY <2>1, <2>3 DEF Erase, Tombstone
  <2>4. CASE MembershipStep(r)
    BY <2>1, <2>4 DEF MembershipStep, FoundMember, Apply, FindMember, Admit, ClearRequest,
       ReadMember, Unseat, DropDummy, DropUser, InsertDummy, InsertPlaceholder, SeatDummy, AddBot,
       MakeAdmin, UnmakeAdmin, WriteAdmin, RecordInvitation, FindInvited, SeatInvited
  <2>5. CASE LogoStep(r)
    BY <2>1, <2>5 DEF LogoStep, PutLogo, SetLogo, ReadLogo, DropLogo, ClearLogo
  <2>6. CASE RatingStep(r)
    BY <2>1, <2>6 DEF RatingStep, Fetch, Fetched, InsertElo, LinkElo, Save, Mark
  <2>7. CASE MatchStep(r)
    BY <2>1, <2>7 DEF MatchStep, Swap, Split
  <2>. QED BY <1>4, <2>2, <2>3, <2>4, <2>5, <2>6, <2>7 DEF Step
<1>5. ASSUME NEW r \in Requests, Stop(r) PROVE Drop(r)
  BY <1>5 DEF Stop, StopAccountCall, StopMembershipCall, StopLogo, StopRating, StopSocial
<1>. QED BY <1>1, <1>2, <1>3, <1>4, <1>5 DEF Next

DropsOK == asked \in Workloads /\ drops \in 0..MaxDrops

LEMMA DropsInit == Init => DropsOK
BY InFlightAssumption DEF Init, FlightInit, DropsOK

LEMMA DropsStep ==
    ASSUME DropsOK, [Next]_vars
    PROVE  DropsOK'
BY FlightNext, InFlightAssumption DEF DropsOK, FlightGoes, flight, Goto, Drop
-----------------------------------------------------------------------------
\* Accounts.

LEMMA OthersWait ==
    ASSUME FlightOK, NEW r \in Requests, BeginAccountCall(r) \/ AccountStep(r) \/ Tombstone(r)
    PROVE  \A q \in Requests \ {r} : Stays(q)
<1>1. PICK to, x : Moves(r, to, x)
  BY AccountMoves
<1>. QED BY <1>1 DEF FlightOK, LocOK, PcOK, Moves, Stays

\* An access token that has been given out.
Given == (1..last.session) \X (1..last.access)

\* Whatever names a session, a token or a letter names one that was given out.
GivenOut ==
    /\ \A s \in DOMAIN tokens : s \in 1..last.session /\ tokens[s].access \in Given
    /\ \A l \in DOMAIN letters : l \in 1..last.letter
    /\ \A b \in Browsers : /\ jar[b].access \in Given \cup {None}
                           /\ jar[b].refresh \in 1..last.session \cup {None}
    /\ \A q \in Requests :
          /\ pc[q] \in {"refresh", "rotate", "signedIn"} => loc[q].refresh \in 1..last.session
          /\ pc[q] \in {"renewed", "signedIn"} => loc[q].access \in Given
    /\ last.password >= 1
    /\ late \subseteq 1..last.session
    /\ cut \cup final \subseteq Users /\ crossed \subseteq Browsers

\* The request will ask for an access token, unless it ends or is refused.
Owes(label, l) ==
    \/ label \in {"auth", "sweep", "denied", "erase"} /\ ~l.retried
    \/ label \in {"refresh", "rotate", "issue"}

Owing == {q \in Requests : Owes(pc[q], loc[q])}

SupplyOK ==
    /\ \A q \in Requests : pc[q] \in {"refresh", "rotate", "renewed"} => loc[q].retried
    /\ last.access + Cardinality(Owing) <= MaxAccess
    /\ last.session + Cardinality(InFlightAt({"issue"})) <= MaxSessions
    /\ last.letter + Cardinality(InFlightAt({"mail"})) <= MaxLetters
    /\ last.password + Cardinality(InFlightAt({"setPassword"})) <= MaxPassword

\* Every supply only grows.
LEMMA LastSteps ==
    ASSUME TablesOK, [Next]_vars
    PROVE  /\ last \in [session : Nat, access : Nat, letter : Nat, password : Nat]
           /\ \/ last' = last
              \/ \E r \in Requests :
                    \/ Rotate(r) /\ last' = [last EXCEPT !.access = @ + 1]
                    \/ IssueSession(r) /\ last' = [last EXCEPT !.session = @ + 1, !.access = @ + 1]
                    \/ Mail(r) /\ last' = [last EXCEPT !.letter = @ + 1]
                    \/ SetPassword(r) /\ last' = [last EXCEPT !.password = @ + 1]
<1>1. last \in [session : Nat, access : Nat, letter : Nat, password : Nat]
  BY DEF TablesOK
<1>2. ASSUME NEW r \in Requests, IssueSession(r)
      PROVE  last' = [last EXCEPT !.session = @ + 1, !.access = @ + 1]
  BY <1>2 DEF IssueSession
<1>3. ASSUME NEW r \in Requests, Mail(r)
      PROVE  last' = [last EXCEPT !.letter = @ + 1]
  BY <1>3 DEF Mail
<1>4. ASSUME NEW r \in Requests, Rotate(r)
      PROVE  last' = [last EXCEPT !.access = @ + 1]
  BY <1>4 DEF Rotate
<1>5. ASSUME NEW r \in Requests, SetPassword(r)
      PROVE  last' = [last EXCEPT !.password = @ + 1]
  BY <1>5 DEF SetPassword
<1>. QED BY <1>1, <1>2, <1>3, <1>4, <1>5, LastChange

LEMMA LastNeverFalls ==
    ASSUME TablesOK, [Next]_vars
    PROVE  /\ last.session \in Nat /\ last'.session \in Nat /\ last'.session >= last.session
           /\ last.access \in Nat /\ last'.access \in Nat /\ last'.access >= last.access
           /\ last.letter \in Nat /\ last'.letter \in Nat /\ last'.letter >= last.letter
           /\ last.password \in Nat /\ last'.password \in Nat /\ last'.password >= last.password
<1>1. last \in [session : Nat, access : Nat, letter : Nat, password : Nat]
  BY LastSteps
<1>2. \/ last' = last
      \/ last' = [last EXCEPT !.access = @ + 1]
      \/ last' = [last EXCEPT !.session = @ + 1, !.access = @ + 1]
      \/ last' = [last EXCEPT !.letter = @ + 1]
      \/ last' = [last EXCEPT !.password = @ + 1]
  BY LastSteps
<1>3. CASE last' = last
  BY <1>1, <1>3
<1>4. CASE last' = [last EXCEPT !.access = @ + 1]
  BY <1>1, <1>4
<1>5. CASE last' = [last EXCEPT !.session = @ + 1, !.access = @ + 1]
  BY <1>1, <1>5
<1>6. CASE last' = [last EXCEPT !.letter = @ + 1]
  BY <1>1, <1>6
<1>7. CASE last' = [last EXCEPT !.password = @ + 1]
  BY <1>1, <1>7
<1>. QED BY <1>2, <1>3, <1>4, <1>5, <1>6, <1>7

LEMMA GivenGrows ==
    ASSUME TablesOK, [Next]_vars
    PROVE  /\ Given \subseteq Given' /\ 1..last.session \subseteq 1..last'.session
           /\ 1..last.letter \subseteq 1..last'.letter
BY LastNeverFalls DEF Given

LEMMA PastChange ==
    ASSUME [Next]_vars
    PROVE  /\ late' = late \/ \E r \in Requests : IssueSession(r)
           /\ cut' = cut \/ \E r \in Requests : StopAccountCall(r)
           /\ crossed' = crossed \/ \E r \in Requests : SignIn(r)
           /\ final' = final \/ \E r \in Requests : Tombstone(r)
<1>. DEFINE Unmarked == late' = late /\ cut' = cut /\ crossed' = crossed /\ final' = final
<1>1. CASE Others
  BY <1>1 DEF Others, accountVars, accountHistory
<1>2. CASE TimePasses
  BY <1>2 DEF TimePasses, AccessExpires, RefreshExpires, LetterExpires, DropAccess, DropRefresh,
     accountHistory
<1>3. ASSUME NEW r \in Requests, BeginAccountCall(r) PROVE Unmarked
  BY <1>3 DEF BeginAccountCall, Send, BeginLogin, BeginLogout, Register, RequestLetter, UseLetter,
     accountVars, accountHistory
<1>4. ASSUME NEW r \in Requests, AccountStep(r), ~IssueSession(r), ~SignIn(r) PROVE Unmarked
  BY <1>4 DEF AccountStep, Authenticate, Sweep, GiveUp, AskRefresh, FindSession, SweepOld, Rotate,
     Resend, EditProfile, CheckPassword, Logout, ClearCookies, Mail, DiscardLetter, SetPassword,
     SetVerified, SpendLetter, RevokeSessions, accountVars, accountHistory
<1>5. ASSUME NEW r \in Requests, IssueSession(r)
      PROVE  cut' = cut /\ crossed' = crossed /\ final' = final
  BY <1>5 DEF IssueSession
<1>6. ASSUME NEW r \in Requests, SignIn(r)
      PROVE  late' = late /\ cut' = cut /\ final' = final
  BY <1>6 DEF SignIn
<1>7. ASSUME NEW r \in Requests, Tombstone(r)
      PROVE  late' = late /\ cut' = cut /\ crossed' = crossed
  BY <1>7 DEF Tombstone
<1>8. ASSUME NEW r \in Requests, StopAccountCall(r)
      PROVE  late' = late /\ crossed' = crossed /\ final' = final
  BY <1>8 DEF StopAccountCall
<1>. QED BY <1>1, <1>2, <1>3, <1>4, <1>5, <1>6, <1>7, <1>8, AccountNext

LEMMA GivenOutInit == Init => GivenOut
<1>. SUFFICES ASSUME Init PROVE GivenOut
  OBVIOUS
<1>. USE AccountsAssumption
<1>0. /\ Browsers = 1..Cardinality(Browsers) /\ Cardinality(Browsers) \in Nat
      /\ FirstSessions = {} \/ FirstSessions = Browsers
  BY DEF FirstSessions
<1>1. /\ FirstSessions \subseteq 1..last.session /\ FirstSessions \subseteq 1..last.access
      /\ last.password = 1
  BY <1>0 DEF Init, AccountsInit, FirstPassword
<1>2. \A s \in DOMAIN tokens : s \in FirstSessions /\ tokens[s].access = <<s, s>>
  BY DEF Init, AccountsInit
<1>3. \A b \in Browsers : jar[b] = NoCookies \/ (b \in FirstSessions
                                             /\ jar[b] = [access |-> <<b, b>>, refresh |-> b])
  BY DEF Init, AccountsInit
<1>4. \A q \in Requests : pc[q] = "idle"
  BY DEF Init, FlightInit
<1>5. DOMAIN letters = {} /\ late = {} /\ cut = {} /\ final = {} /\ crossed = {}
  BY DEF Init, AccountsInit
<1>6. \A s \in FirstSessions : <<s, s>> \in Given
  BY <1>1 DEF Given
<1>7. \A s \in DOMAIN tokens : s \in 1..last.session /\ tokens[s].access \in Given
  BY <1>1, <1>2, <1>6
<1>8. ASSUME NEW b \in Browsers
      PROVE  jar[b].access \in Given \cup {None} /\ jar[b].refresh \in 1..last.session \cup {None}
  <2>1. CASE jar[b] = NoCookies
    BY <2>1 DEF NoCookies
  <2>2. CASE b \in FirstSessions /\ jar[b] = [access |-> <<b, b>>, refresh |-> b]
    <3>1. jar[b].access = <<b, b>> /\ jar[b].refresh = b
      BY <2>2
    <3>. QED BY <1>1, <1>6, <2>2, <3>1
  <2>. QED BY <1>3, <2>1, <2>2
<1>9. \A q \in Requests :
          /\ pc[q] \in {"refresh", "rotate", "signedIn"} => loc[q].refresh \in 1..last.session
          /\ pc[q] \in {"renewed", "signedIn"} => loc[q].access \in Given
  BY <1>4
<1>. QED BY <1>1, <1>5, <1>7, <1>8, <1>9 DEF GivenOut

LEMMA GivenOutStep ==
    ASSUME FlightOK, TablesOK, GivenOut, [Next]_vars
    PROVE  GivenOut'
<1>0. ASSUME NEW r \in Requests PROVE LocalOK(pc[r], loc[r])
  BY DEF FlightOK
<1>l. /\ last.session \in Nat /\ last'.session \in Nat /\ last'.session >= last.session
      /\ last.access \in Nat /\ last'.access \in Nat /\ last'.access >= last.access
      /\ last.letter \in Nat /\ last'.letter \in Nat /\ last'.letter >= last.letter
      /\ last.password \in Nat /\ last'.password \in Nat /\ last'.password >= last.password
  BY LastNeverFalls
<1>g. /\ Given \subseteq Given' /\ 1..last.session \subseteq 1..last'.session
      /\ 1..last.letter \subseteq 1..last'.letter
  BY GivenGrows
<1>n. ASSUME NEW r \in Requests, IssueSession(r)
      PROVE  LET s == last.session + 1
             IN  /\ tokens'[s].access = <<s, last.access + 1>>
                 /\ s \in 1..last'.session /\ <<s, last.access + 1>> \in Given'
  <2>1. tokens'[last.session + 1].access = <<last.session + 1, last.access + 1>>
    BY <1>n DEF IssueSession, With, TablesOK
  <2>2. last' = [last EXCEPT !.session = @ + 1, !.access = @ + 1]
    BY <1>n DEF IssueSession
  <2>3. last'.session = last.session + 1 /\ last'.access = last.access + 1
    BY <2>2 DEF TablesOK
  <2>. QED BY <1>l, <2>1, <2>3 DEF Given
<1>1. ASSUME NEW s \in DOMAIN tokens'
      PROVE  s \in 1..last'.session /\ tokens'[s].access \in Given'
  <2>1. CASE Kept(s)
    <3>1. s \in 1..last.session /\ tokens[s].access \in Given
      BY <2>1 DEF Kept, GivenOut
    <3>2. CASE tokens'[s].access = tokens[s].access
      BY <1>g, <3>1, <3>2
    <3>3. CASE tokens'[s].access = <<s, last.access + 1>> /\ last'.access = last.access + 1
      BY <1>l, <1>g, <3>1, <3>3 DEF Given
    <3>. QED BY <2>1, <3>2, <3>3 DEF Kept
  <2>2. CASE \E r \in Requests : IssueSession(r) /\ s = last.session + 1
    BY <1>n, <2>2
  <2>. QED BY <2>1, <2>2, RowKept
<1>2. ASSUME NEW l \in DOMAIN letters' PROVE l \in 1..last'.letter
  <2>1. CASE l \in DOMAIN letters
    BY <1>g, <2>1 DEF GivenOut
  <2>2. CASE l \notin DOMAIN letters
    <3>1. PICK r \in Requests : Mail(r)
      BY <2>2, LettersChange DEF DiscardLetter, SpendLetter, Tombstone, Without, LetterExpires
    <3>2. l = last.letter + 1 /\ last' = [last EXCEPT !.letter = last.letter + 1]
      BY <2>2, <3>1 DEF Mail, With
    <3>. QED BY <1>l, <3>2 DEF TablesOK
  <2>. QED BY <2>1, <2>2
<1>3. ASSUME NEW b \in Browsers
      PROVE  /\ jar'[b].access \in Given' \cup {None}
             /\ jar'[b].refresh \in 1..last'.session \cup {None}
  <2>0. /\ jar[b].access \in Given \cup {None} /\ jar[b].refresh \in 1..last.session \cup {None}
        /\ jar \in [Browsers -> [access : (Nat \X Nat) \cup {None}, refresh : Nat \cup {None}]]
    BY DEF GivenOut, TablesOK
  <2>1. CASE jar' = jar
    BY <1>g, <2>0, <2>1
  <2>2. ASSUME NEW r \in Requests, Resend(r)
        PROVE  /\ jar'[b].access \in Given \cup {None}
               /\ jar'[b].refresh \in 1..last.session \cup {None}
    BY <2>0, <2>2 DEF Resend, GivenOut
  <2>3. ASSUME NEW r \in Requests, SignIn(r) \/ ClearCookies(r)
        PROVE  /\ jar'[b].access \in Given \cup {None}
               /\ jar'[b].refresh \in 1..last.session \cup {None}
    BY <2>0, <2>3 DEF SignIn, ClearCookies, NoCookies, GivenOut
  <2>4. ASSUME NEW d \in Browsers, DropAccess(d) \/ DropRefresh(d)
        PROVE  /\ jar'[b].access \in Given \cup {None}
               /\ jar'[b].refresh \in 1..last.session \cup {None}
    BY <2>0, <2>4 DEF DropAccess, DropRefresh
  <2>. QED BY <1>g, <2>1, <2>2, <2>3, <2>4, JarChange
<1>4. ASSUME NEW q \in Requests
      PROVE  /\ pc'[q] \in {"refresh", "rotate", "signedIn"} => loc'[q].refresh \in 1..last'.session
             /\ pc'[q] \in {"renewed", "signedIn"} => loc'[q].access \in Given'
  <2>1. CASE Stays(q)
    BY <1>g, <2>1 DEF Stays, GivenOut
  <2>2. ASSUME AskRefresh(q) PROVE loc'[q].refresh \in 1..last.session
    <3>1. loc[q] \in AccountLocals /\ loc[q].browser \in Browsers
      BY <1>0, <2>2 DEF AskRefresh, LocalOK, AccountLabels, Browsing, Calling
    <3>2. loc'[q] = [loc[q] EXCEPT !.refresh = jar[loc[q].browser].refresh, !.retried = TRUE]
          /\ jar[loc[q].browser].refresh # None
      BY <2>2, GoesTo DEF AskRefresh
    <3>. QED BY <3>1, <3>2 DEF GivenOut, AccountLocals
  <2>3. ASSUME FindSession(q), pc'[q] = "rotate" PROVE loc'[q].refresh \in 1..last.session
    <3>1. pc[q] = "refresh" /\ loc'[q] = loc[q]
      BY <2>3, GoesTo DEF FindSession, Proceed, Done
    <3>. QED BY <3>1 DEF GivenOut
  <2>4. ASSUME Rotate(q) PROVE loc'[q].access \in Given'
    <3>1. loc[q] \in AccountLocals /\ loc[q].refresh \in 1..last.session
      BY <1>0, <2>4 DEF Rotate, LocalOK, AccountLabels, GivenOut
    <3>2. loc'[q] = [loc[q] EXCEPT !.access = <<loc[q].refresh, last.access + 1>>]
          /\ last' = [last EXCEPT !.access = last.access + 1]
      BY <2>4, GoesTo DEF Rotate
    <3>3. last'.access = last.access + 1 /\ loc'[q].access = <<loc[q].refresh, last.access + 1>>
      BY <3>1, <3>2 DEF TablesOK, AccountLocals
    <3>. QED BY <1>l, <3>1, <3>3 DEF Given
  <2>5. ASSUME IssueSession(q)
        PROVE  loc'[q].refresh \in 1..last'.session /\ loc'[q].access \in Given'
    <3>1. loc[q] \in AccountLocals
      BY <1>0, <2>5 DEF IssueSession, LocalOK, AccountLabels
    <3>2. loc'[q] = [loc[q] EXCEPT !.access = <<last.session + 1, last.access + 1>>,
                                   !.refresh = last.session + 1]
      BY <2>5, GoesTo DEF IssueSession
    <3>. QED BY <1>n, <2>5, <3>1, <3>2 DEF AccountLocals
  <2>. QED BY <1>g, <2>1, <2>2, <2>3, <2>4, <2>5, Arrives
<1>5. last'.password >= 1
  BY <1>l DEF GivenOut
<1>6. late' \subseteq 1..last'.session
  <2>1. ASSUME NEW r \in Requests, IssueSession(r)
        PROVE  late' \subseteq late \cup {last.session + 1}
    BY <2>1 DEF IssueSession
  <2>. QED BY <1>g, <1>n, <2>1, PastChange DEF GivenOut
<1>7. cut' \subseteq Users
  <2>1. ASSUME NEW r \in Requests, StopAccountCall(r) PROVE cut' \subseteq cut \cup Users
    BY <1>0, <2>1 DEF StopAccountCall, InReset, LocalOK, Acting
  <2>. QED BY <2>1, PastChange DEF GivenOut
<1>8. final' \subseteq Users
  <2>1. ASSUME NEW r \in Requests, Tombstone(r) PROVE final' \subseteq final \cup Users
    BY <1>0, <2>1 DEF Tombstone, LocalOK, Acting
  <2>. QED BY <2>1, PastChange DEF GivenOut
<1>9. crossed' \subseteq Browsers
  <2>1. ASSUME NEW r \in Requests, SignIn(r) PROVE crossed' \subseteq crossed \cup Browsers
    BY <1>0, <2>1 DEF SignIn, LocalOK, Browsing
  <2>. QED BY <2>1, PastChange DEF GivenOut
<1>. QED BY <1>1, <1>2, <1>3, <1>4, <1>5, <1>6, <1>7, <1>8, <1>9 DEF GivenOut

Alone(r) == \A q \in Requests \ {r} : Stays(q)

\* A supply lasts when only a request that begins comes to owe, while there is
\* room, and one that takes of it owes no more.
LEMMA SupplyStep ==
    ASSUME NEW S \in SUBSET Requests, NEW T \in SUBSET Requests,
           NEW used \in Nat, NEW used1 \in Nat, NEW max \in Nat, used + Cardinality(S) <= max,
           \A q \in Requests : Stays(q) => (q \in T <=> q \in S),
           \A q \in T : q \in S \/ (Alone(q) /\ used + Cardinality(S) < max),
           used1 = used \/ (used1 = used + 1 /\ \E r \in S \ T : Alone(r))
    PROVE  used1 + Cardinality(T) <= max
<1>1. CASE used1 = used /\ T \subseteq S
  BY <1>1, SupplyRests
<1>2. CASE used1 = used /\ ~(T \subseteq S)
  <2>1. PICK q \in T : q \notin S
    BY <1>2
  <2>2. q \in Requests /\ Alone(q) /\ used + Cardinality(S) < max
    BY <2>1
  <2>3. T \subseteq S \cup {q}
    BY <2>2 DEF Alone
  <2>. QED BY <1>2, <2>2, <2>3, SupplyLasts
<1>3. CASE used1 = used + 1 /\ \E r \in S \ T : Alone(r)
  <2>1. PICK r \in S \ T : Alone(r)
    BY <1>3
  <2>2. T \subseteq S \cup {r}
    BY <2>1 DEF Alone
  <2>. QED BY <1>3, <2>1, <2>2, SupplyLasts
<1>. QED BY <1>1, <1>2, <1>3

\* An attempt that follows a refresh is the last one.
Retrying == \A q \in Requests : pc[q] \in {"refresh", "rotate", "renewed"} => loc[q].retried

LEMMA RetryingStep ==
    ASSUME FlightOK, Retrying, [Next]_vars
    PROVE  Retrying'
<1>. SUFFICES ASSUME NEW q \in Requests, pc'[q] \in {"refresh", "rotate", "renewed"}
              PROVE  loc'[q].retried
  BY DEF Retrying
<1>0. LocalOK(pc[q], loc[q])
  BY DEF FlightOK
<1>1. CASE Stays(q)
  BY <1>1 DEF Stays, Retrying
<1>2. CASE AskRefresh(q)
  <2>1. loc[q] \in AccountLocals
    BY <1>0, <1>2 DEF AskRefresh, LocalOK, AccountLabels
  <2>2. loc'[q] = [loc[q] EXCEPT !.refresh = jar[loc[q].browser].refresh, !.retried = TRUE]
    BY <1>2, GoesTo DEF AskRefresh
  <2>. QED BY <2>1, <2>2 DEF AccountLocals
<1>3. CASE FindSession(q)
  <2>1. pc[q] = "refresh" /\ (loc'[q] = loc[q] \/ pc'[q] = "idle")
    BY <1>3, GoesTo DEF FindSession, Proceed, Done
  <2>. QED BY <2>1 DEF Retrying
<1>4. CASE Rotate(q)
  <2>1. loc[q] \in AccountLocals /\ loc[q].retried
    BY <1>0, <1>4 DEF Rotate, LocalOK, AccountLabels, Retrying
  <2>2. loc'[q] = [loc[q] EXCEPT !.access = <<loc[q].refresh, last.access + 1>>]
    BY <1>4, GoesTo DEF Rotate
  <2>. QED BY <2>1, <2>2 DEF AccountLocals
<1>. QED BY <1>1, <1>2, <1>3, <1>4, Arrives

\* A request that owes an access token owed it before, or begins while there is
\* room for it; and it has not just been given one.
LEMMA OwingMove ==
    ASSUME FlightOK, Retrying, [Next]_vars, NEW q \in Requests, Owes(pc'[q], loc'[q])
    PROVE  /\ ~Rotate(q) /\ ~IssueSession(q)
           /\ Owes(pc[q], loc[q]) \/ (BeginAccountCall(q) /\ Room)
<1>. DEFINE Names == {"auth", "sweep", "denied", "erase", "refresh", "rotate", "issue"}
<1>n. pc'[q] \in Names
  BY DEF Owes
<1>0. LocalOK(pc[q], loc[q]) /\ pc[q] \in Foreign \cup AccountLabels
  BY DEF FlightOK, PcOK
<1>l. pc[q] \in AccountLabels => loc[q] \in AccountLocals
  BY <1>0 DEF LocalOK
<1>g. ASSUME NEW to, NEW x, Goto(q, to, x) PROVE pc'[q] = to /\ loc'[q] = x
  BY <1>g, GoesTo
<1>1. ~Rotate(q) /\ ~IssueSession(q)
  <2>1. Rotate(q) => pc'[q] = "renewed"
    BY <1>g DEF Rotate
  <2>2. IssueSession(q) => pc'[q] = "signedIn"
    BY <1>g DEF IssueSession
  <2>. QED BY <1>n, <2>1, <2>2
<1>2. CASE Stays(q)
  BY <1>1, <1>2 DEF Stays
<1>3. CASE ForeignMove(q) \/ StopAccountCall(q)
  <2>1. pc'[q] \in Foreign
    BY <1>3 DEF ForeignMove, Moves, StopAccountCall, Drop, Foreign, FlightOK, PcOK
  <2>2. Names \subseteq AccountLabels
    BY DEF AccountLabels
  <2>. QED BY <1>n, <2>1, <2>2, LabelsApart
<1>4. CASE BeginAccountCall(q)
  <2>1. Room \/ pc'[q] \in {"logout", "mail", "discard", "setPassword", "setVerified"}
    BY <1>4, <1>g DEF BeginAccountCall, Send, BeginLogin, BeginLogout, Register, RequestLetter,
       UseLetter, Start
  <2>. QED BY <1>1, <1>4, <1>n, <2>1
<1>5. CASE AccountStep(q)
  <2>1. CASE Authenticate(q)
    <3>1. pc[q] = "auth" /\ loc[q] \in AccountLocals
      BY <1>l, <2>1 DEF Authenticate, AccountLabels
    <3>2. loc'[q].retried = loc[q].retried
      <4>1. \/ loc'[q] = loc[q]
            \/ \E u : loc'[q] = [loc[q] EXCEPT !.user = u]
        BY <1>g, <2>1 DEF Authenticate, Proceed
      <4>. QED BY <3>1, <4>1 DEF AccountLocals
    <3>3. pc'[q] \in {"denied", "sweep", "edit", "erase"}
      BY <1>0, <1>g, <2>1 DEF Authenticate, Proceed, LocalOK, Calling
    <3>. QED BY <1>1, <3>1, <3>2, <3>3 DEF Owes
  <2>2. CASE Sweep(q)
    <3>1. pc[q] = "sweep" /\ pc'[q] = "denied" /\ loc'[q] = loc[q]
      BY <1>g, <2>2 DEF Sweep, Proceed
    <3>. QED BY <1>1, <3>1 DEF Owes
  <2>3. CASE CheckPassword(q)
    <3>1. pc[q] = "erase" /\ pc'[q] \in {"tombstone", "denied"} /\ loc'[q] = loc[q]
      BY <1>g, <2>3 DEF CheckPassword, Proceed
    <3>. QED BY <1>1, <1>n, <3>1 DEF Owes
  <2>4. CASE AskRefresh(q)
    <3>1. pc[q] = "denied" /\ ~loc[q].retried
      BY <2>4 DEF AskRefresh
    <3>. QED BY <1>1, <3>1 DEF Owes
  <2>5. CASE FindSession(q)
    <3>1. pc[q] = "refresh"
      BY <2>5 DEF FindSession
    <3>. QED BY <1>1, <3>1 DEF Owes
  <2>6. CASE Resend(q)
    <3>1. pc[q] = "renewed" /\ pc'[q] = "auth" /\ loc'[q] = loc[q]
      BY <1>g, <2>6 DEF Resend, Proceed
    <3>. QED BY <3>1 DEF Owes, Retrying
  <2>7. CASE \/ GiveUp(q) \/ EditProfile(q) \/ SweepOld(q) \/ SignIn(q) \/ Rotate(q)
             \/ IssueSession(q) \/ Logout(q) \/ ClearCookies(q) \/ Mail(q) \/ DiscardLetter(q)
             \/ SetPassword(q) \/ SetVerified(q) \/ SpendLetter(q) \/ RevokeSessions(q)
    <3>1. pc'[q] \in {"idle", "renewed", "signedIn", "clear", "spend", "revoke"}
      BY <1>g, <2>7 DEF GiveUp, EditProfile, SweepOld, SignIn, Rotate, IssueSession, Logout,
         ClearCookies, Mail, DiscardLetter, SetPassword, SetVerified, SpendLetter,
         RevokeSessions, Proceed, Done
    <3>. QED BY <1>n, <3>1
  <2>. QED BY <1>5, <2>1, <2>2, <2>3, <2>4, <2>5, <2>6, <2>7 DEF AccountStep
<1>6. CASE Tombstone(q)
  <2>1. pc'[q] = "clear"
    BY <1>6, <1>g DEF Tombstone, Proceed
  <2>. QED BY <1>n, <2>1
<1>. QED BY <1>2, <1>3, <1>4, <1>5, <1>6, OwnMove

LEMMA OwingUses == Owing \subseteq InFlightAt(Using)
BY DEF Owing, Owes, Using, InFlightAt

\* A mail is of a registration, or of a letter asked for.
LEMMA MailBegins ==
    ASSUME FlightOK, [Next]_vars, NEW q \in Requests, pc'[q] = "mail", ~Stays(q)
    PROVE  BeginAccountCall(q) /\ RoomForLetter
<1>g. ASSUME NEW to, NEW x, Goto(q, to, x) PROVE pc'[q] = to
  BY <1>g, GoesTo
<1>1. ASSUME ForeignMove(q) \/ StopAccountCall(q) PROVE FALSE
  <2>1. pc'[q] \in Foreign
    BY <1>1 DEF ForeignMove, Moves, StopAccountCall, Drop, Foreign, FlightOK, PcOK
  <2>2. "mail" \in AccountLabels
    BY DEF AccountLabels
  <2>. QED BY <2>1, <2>2, LabelsApart
<1>2. CASE BeginAccountCall(q)
  BY <1>2, <1>g DEF BeginAccountCall, Send, BeginLogin, BeginLogout, Register, RequestLetter,
     UseLetter, Start
<1>3. ASSUME AccountStep(q) \/ Tombstone(q) PROVE FALSE
  <2>1. CASE Authenticate(q)
    <3>1. pc'[q] \in {"denied", "sweep", "edit", "erase"}
      BY <1>g, <2>1 DEF Authenticate, Proceed, FlightOK, LocalOK, Calling
    <3>. QED BY <3>1
  <2>2. CASE ~Authenticate(q)
    BY <1>3, <1>g, <2>2 DEF AccountStep, Tombstone, Sweep, GiveUp, AskRefresh, FindSession,
       SweepOld, Rotate, Resend, EditProfile, CheckPassword, IssueSession, SignIn, Logout,
       ClearCookies, Mail, DiscardLetter, SetPassword, SetVerified, SpendLetter, RevokeSessions,
       Proceed, Done
  <2>. QED BY <2>1, <2>2
<1>. QED BY <1>1, <1>2, <1>3, OwnMove

LEMMA SupplyInit == Init => SupplyOK
<1>. SUFFICES ASSUME Init PROVE SupplyOK
  OBVIOUS
<1>. USE AccountsAssumption
<1>1. \A q \in Requests : pc[q] = "idle"
  BY DEF Init, FlightInit
<1>2. /\ Owing = {} /\ InFlightAt({"issue"}) = {} /\ InFlightAt({"mail"}) = {}
      /\ InFlightAt({"setPassword"}) = {}
  BY <1>1 DEF Owing, Owes, InFlightAt
<1>3. Cardinality({}) = 0
  BY FS_EmptySet
<1>4. /\ last.session \in {0, Cardinality(Browsers)} /\ last.access = last.session
      /\ last.letter = 0 /\ last.password = 1
  BY DEF Init, AccountsInit, FirstPassword
<1>5. /\ Cardinality(Browsers) \in Nat /\ Cardinality(Browsers) <= MaxSessions
      /\ MaxSessions \in Nat /\ MaxAccess \in Nat /\ MaxLetters \in Nat /\ MaxPassword \in Nat
      /\ MaxPassword >= 1 /\ MaxSessions <= MaxAccess
  OBVIOUS
<1>6. /\ last.access + 0 <= MaxAccess /\ last.session + 0 <= MaxSessions
      /\ last.letter + 0 <= MaxLetters /\ last.password + 0 <= MaxPassword
  BY <1>4, <1>5
<1>. QED BY <1>1, <1>2, <1>3, <1>6 DEF SupplyOK

LEMMA SupplyHolds ==
    ASSUME FlightOK, TablesOK, SupplyOK, [Next]_vars
    PROVE  SupplyOK'
<1>. DEFINE Issuing == InFlightAt({"issue"})
            Mailing == InFlightAt({"mail"})
            Setting == InFlightAt({"setPassword"})
<1>0. Retrying /\ Retrying'
  BY RetryingStep DEF SupplyOK, Retrying
<1>m. /\ MaxSessions \in Nat /\ MaxAccess \in Nat /\ MaxLetters \in Nat /\ MaxPassword \in Nat
  BY AccountsAssumption
<1>g. ASSUME NEW q \in Requests, NEW to, NEW x, Goto(q, to, x) PROVE pc'[q] = to
  BY <1>g, GoesTo
<1>t. last \in [session : Nat, access : Nat, letter : Nat, password : Nat]
  BY LastSteps
<1>n. /\ last'.session \in Nat /\ last'.access \in Nat
      /\ last'.letter \in Nat /\ last'.password \in Nat
      /\ last.session \in Nat /\ last.access \in Nat /\ last.letter \in Nat /\ last.password \in Nat
  BY LastNeverFalls
<1>l. \/ last' = last
      \/ \E r \in Requests :
            /\ Alone(r)
            /\ \/ Rotate(r) /\ last' = [last EXCEPT !.access = @ + 1]
               \/ IssueSession(r) /\ last' = [last EXCEPT !.session = @ + 1, !.access = @ + 1]
               \/ Mail(r) /\ last' = [last EXCEPT !.letter = @ + 1]
               \/ SetPassword(r) /\ last' = [last EXCEPT !.password = @ + 1]
  BY LastSteps, OthersWait DEF AccountStep, Alone
<1>b. ASSUME NEW q \in Requests, BeginAccountCall(q) PROVE Alone(q)
  BY <1>b, OthersWait DEF Alone
<1>1. last'.access + Cardinality(Owing') <= MaxAccess
  <2>1. \A q \in Requests : Stays(q) => (q \in Owing' <=> q \in Owing)
    BY DEF Owing, Stays
  <2>2. last.access + Cardinality(Owing) < MaxAccess \/ ~Room
    <3>1. InFlightAt(Using) \in SUBSET Requests /\ Owing \in SUBSET Requests
      BY DEF InFlightAt, Owing
    <3>2. Cardinality(Owing) <= Cardinality(InFlightAt(Using))
      BY <3>1, OwingUses, CountedRequests, FS_Subset
    <3>. QED BY <1>n, <1>m, <3>1, <3>2, CountedRequests DEF Room
  <2>3. \A q \in Owing' : \/ q \in Owing
                          \/ Alone(q) /\ last.access + Cardinality(Owing) < MaxAccess
    BY <1>0, <1>b, <2>2, OwingMove DEF Owing
  <2>4. ASSUME NEW r \in Requests, Rotate(r) \/ IssueSession(r)
        PROVE  r \in Owing \ Owing'
    BY <1>0, <2>4, OwingMove DEF Owing, Owes, Rotate, IssueSession
  <2>5. \/ last'.access = last.access
        \/ last'.access = last.access + 1 /\ \E r \in Owing \ Owing' : Alone(r)
    BY <1>l, <1>t, <2>4
  <2>6. last.access + Cardinality(Owing) <= MaxAccess /\ Owing \subseteq Requests
        /\ Owing' \subseteq Requests
    BY DEF SupplyOK, Owing
  <2>. HIDE DEF Owing
  <2>. QED BY <1>m, <1>n, <2>1, <2>3, <2>5, <2>6, SupplyStep
<1>2. last'.session + Cardinality(Issuing') <= MaxSessions
  <2>1. \A q \in Requests : Stays(q) => (q \in Issuing' <=> q \in Issuing)
    BY DEF InFlightAt, Stays
  <2>3. \A q \in Issuing' : \/ q \in Issuing
                            \/ /\ Alone(q)
                               /\ last.session + Cardinality(Issuing) < MaxSessions
    BY <1>b, <2>1, Arrives DEF InFlightAt, BeginLogin, RoomForSession, BeginAccountCall
  <2>4. ASSUME NEW r \in Requests, IssueSession(r)
        PROVE  r \in Issuing \ Issuing'
    BY <1>g, <2>4 DEF InFlightAt, IssueSession
  <2>5. \/ last'.session = last.session
        \/ last'.session = last.session + 1 /\ \E r \in Issuing \ Issuing' : Alone(r)
    BY <1>l, <1>t, <2>4
  <2>6. last.session + Cardinality(Issuing) <= MaxSessions /\ Issuing \subseteq Requests
        /\ Issuing' \subseteq Requests
    BY DEF SupplyOK, InFlightAt
  <2>. HIDE DEF Issuing
  <2>. QED BY <1>m, <1>n, <2>1, <2>3, <2>5, <2>6, SupplyStep
<1>3. last'.letter + Cardinality(Mailing') <= MaxLetters
  <2>1. \A q \in Requests : Stays(q) => (q \in Mailing' <=> q \in Mailing)
    BY DEF InFlightAt, Stays
  <2>3. \A q \in Mailing' : \/ q \in Mailing
                            \/ /\ Alone(q)
                               /\ last.letter + Cardinality(Mailing) < MaxLetters
    BY <1>b, <2>1, MailBegins DEF InFlightAt, RoomForLetter
  <2>4. ASSUME NEW r \in Requests, Mail(r)
        PROVE  r \in Mailing \ Mailing'
    BY <1>g, <2>4 DEF InFlightAt, Mail, Done
  <2>5. \/ last'.letter = last.letter
        \/ last'.letter = last.letter + 1 /\ \E r \in Mailing \ Mailing' : Alone(r)
    BY <1>l, <1>t, <2>4
  <2>6. last.letter + Cardinality(Mailing) <= MaxLetters /\ Mailing \subseteq Requests
        /\ Mailing' \subseteq Requests
    BY DEF SupplyOK, InFlightAt
  <2>. HIDE DEF Mailing
  <2>. QED BY <1>m, <1>n, <2>1, <2>3, <2>5, <2>6, SupplyStep
<1>4. last'.password + Cardinality(Setting') <= MaxPassword
  <2>1. \A q \in Requests : Stays(q) => (q \in Setting' <=> q \in Setting)
    BY DEF InFlightAt, Stays
  <2>3. \A q \in Setting' : \/ q \in Setting
                            \/ /\ Alone(q)
                               /\ last.password + Cardinality(Setting) < MaxPassword
    <3>1. ASSUME NEW q \in Requests, pc'[q] = "setPassword", NEW i \in DOMAIN letters,
                 UseLetter(q, i)
          PROVE  RoomForPassword
      BY <1>g, <3>1 DEF UseLetter, Start
    <3>. QED BY <1>b, <2>1, <3>1, Arrives DEF InFlightAt, RoomForPassword, BeginAccountCall
  <2>4. ASSUME NEW r \in Requests, SetPassword(r)
        PROVE  r \in Setting \ Setting'
    BY <1>g, <2>4 DEF InFlightAt, SetPassword, Proceed
  <2>5. \/ last'.password = last.password
        \/ last'.password = last.password + 1 /\ \E r \in Setting \ Setting' : Alone(r)
    BY <1>l, <1>t, <2>4
  <2>6. last.password + Cardinality(Setting) <= MaxPassword /\ Setting \subseteq Requests
        /\ Setting' \subseteq Requests
    BY DEF SupplyOK, InFlightAt
  <2>. HIDE DEF Setting
  <2>. QED BY <1>m, <1>n, <2>1, <2>3, <2>5, <2>6, SupplyStep
<1>. QED BY <1>0, <1>1, <1>2, <1>3, <1>4 DEF SupplyOK, Retrying

LEMMA AccountsTyped ==
    ASSUME TablesOK, GivenOut, SupplyOK
    PROVE  AccountsTypeOK
<1>1. /\ last.session \in 0..MaxSessions /\ last.access \in 0..MaxAccess
      /\ last.letter \in 0..MaxLetters /\ last.password \in 1..MaxPassword
      /\ last \in [session : Nat, access : Nat, letter : Nat, password : Nat]
  <2>0. \A q : q \in SUBSET Requests => Cardinality(q) \in Nat
    BY CountedRequests
  <2>1. /\ Cardinality(Owing) \in Nat /\ Cardinality(InFlightAt({"issue"})) \in Nat
        /\ Cardinality(InFlightAt({"mail"})) \in Nat
        /\ Cardinality(InFlightAt({"setPassword"})) \in Nat
    BY <2>0 DEF Owing, InFlightAt
  <2>2. last \in [session : Nat, access : Nat, letter : Nat, password : Nat]
    BY DEF TablesOK
  <2>3. /\ last.session \in Nat /\ last.access \in Nat /\ last.letter \in Nat
        /\ last.password \in Nat /\ last.password >= 1
    BY <2>2 DEF GivenOut
  <2>4. MaxSessions \in Nat /\ MaxAccess \in Nat /\ MaxLetters \in Nat /\ MaxPassword \in Nat
    BY AccountsAssumption
  <2>5. last.session \in 0..MaxSessions /\ last.access \in 0..MaxAccess
    BY <2>1, <2>3, <2>4 DEF SupplyOK
  <2>6. last.letter \in 0..MaxLetters /\ last.password \in 1..MaxPassword
    BY <2>1, <2>3, <2>4 DEF SupplyOK
  <2>. QED BY <2>2, <2>5, <2>6
<1>2. last \in [session : 0..MaxSessions, access : 0..MaxAccess,
                letter : 0..MaxLetters, password : 1..MaxPassword]
  BY <1>1
<1>3. Given \subseteq Access /\ 1..last.session \subseteq 1..MaxSessions
  <2>1. MaxSessions \in Nat /\ MaxAccess \in Nat
    BY AccountsAssumption
  <2>2. last.session \in 0..MaxSessions /\ last.access \in 0..MaxAccess
    BY <1>1
  <2>3. 1..last.session \subseteq 1..MaxSessions /\ 1..last.access \subseteq 1..MaxAccess
    BY <2>1, <2>2
  <2>. QED BY <2>3 DEF Given, Access
<1>4. \A s \in DOMAIN tokens : s \in 1..last.session /\ tokens[s] \in TokenRow
  BY <1>3 DEF TablesOK, GivenOut, SessionRow, TokenRow
<1>5. jar \in [Browsers -> [access : Access \cup {None}, refresh : 1..MaxSessions \cup {None}]]
  BY <1>3 DEF TablesOK, GivenOut
<1>. QED BY <1>2, <1>3, <1>4, <1>5 DEF AccountsTypeOK, TablesOK, GivenOut

-----------------------------------------------------------------------------
\* Membership.

\* A person, or a placeholder that was numbered.
Numbered == Users \cup 1..row.dummy

Membership == [club : Clubs, who : Numbered, member : BOOLEAN, admin : BOOLEAN]

NamesInv ==
    /\ \A m \in DOMAIN members : m >= 1 /\ members[m] \in Membership
    /\ \A i \in DOMAIN memberRequests : i >= 1 /\ memberRequests[i] \in MemberRequestRow
    /\ \A d \in DOMAIN dummies : d >= 1
    /\ \A q \in Requests :
          /\ pc[q] \in Named => loc[q].who \in Numbered
          /\ pc[q] = "dummy" => loc[q].who = None
    /\ placeholders \subseteq 1..row.dummy
    /\ bots \subseteq Clubs \X placeholders
    /\ disturbed \subseteq Clubs \X People /\ stopped \subseteq Dummy
    /\ unfounded \subseteq Clubs /\ invited \subseteq 1..row.request

LEMMA NumberedGrows ==
    ASSUME ClubsOK, [Next]_vars
    PROVE  Numbered \subseteq Numbered' /\ Membership \subseteq Membership'
           /\ row.dummy \in Nat /\ row'.dummy \in Nat /\ row'.dummy >= row.dummy
<1>1. row.dummy \in Nat /\ row'.dummy \in Nat /\ row'.dummy >= row.dummy
  BY DummyIds
<1>2. Numbered \subseteq Numbered'
  BY <1>1 DEF Numbered
<1>. QED BY <1>1, <1>2 DEF Membership

LEMMA NamesInit == Init => NamesInv
<1>. SUFFICES ASSUME Init PROVE NamesInv
  OBVIOUS
<1>1. PICK first \in FirstMembers, home \in Clubs :
        /\ members = [m \in first |->
              [club |-> home, who |-> IF m = 1 THEN Founder ELSE Helper,
               member |-> TRUE, admin |-> TRUE]]
        /\ memberRequests = [q \in {} |-> None] /\ dummies = [d \in {} |-> None]
        /\ placeholders = {} /\ bots = {} /\ disturbed = {} /\ stopped = {}
        /\ unfounded = {} /\ invited = {}
  BY DEF Init, MembershipInit
<1>2. first \in {{}, {1}, {1, 2}}
  BY DEF FirstMembers
<1>3. \A q \in Requests : pc[q] = "idle"
  BY DEF Init, FlightInit
<1>4. \A m \in DOMAIN members : m >= 1 /\ members[m] \in Membership
  BY <1>1, <1>2, MembershipAssumption DEF Membership, Numbered
<1>5. /\ \A i \in DOMAIN memberRequests : i >= 1 /\ memberRequests[i] \in MemberRequestRow
      /\ \A d \in DOMAIN dummies : d >= 1
  BY <1>1
<1>6. \A q \in Requests : ~(pc[q] \in Named) /\ pc[q] # "dummy"
  BY <1>3 DEF Named, MembershipLabels
<1>. QED BY <1>1, <1>4, <1>5, <1>6 DEF NamesInv

\* A row that is inserted is like the others.
LEMMA InsertedTyped ==
    ASSUME ClubsOK, NEW R, NEW x \in R, Insert(x),
           \A m \in DOMAIN members : m >= 1 /\ members[m] \in R
    PROVE  \A m \in DOMAIN members' : m >= 1 /\ members'[m] \in R
<1>1. row.member \in Nat
  BY DEF ClubsOK
<1>. QED BY <1>1 DEF Insert, With

LEMMA MembersTyped ==
    ASSUME FlightOK, ClubsOK, NamesInv, [Next]_vars
    PROVE  \A m \in DOMAIN members' : m >= 1 /\ members'[m] \in Membership'
<1>. DEFINE Typed == \A m \in DOMAIN members' : m >= 1 /\ members'[m] \in Membership
<1>0. \A m \in DOMAIN members : m >= 1 /\ members[m] \in Membership
  BY DEF NamesInv
<1>1. ASSUME NEW r \in Requests, pc[r] \in Named
      PROVE  loc[r].club \in Clubs /\ loc[r].who \in Numbered
  BY <1>1 DEF ClubsOK, NamesInv, Named
<1>2. ASSUME NEW x \in Membership, Insert(x) PROVE Typed
  BY <1>0, <1>2, InsertedTyped
<1>3. ASSUME NEW ids, members' = Without(members, ids) PROVE Typed
  BY <1>0, <1>3 DEF Without
<1>5. /\ \A x \in Membership : [x EXCEPT !.member = FALSE, !.admin = FALSE] \in Membership
      /\ \A x \in Membership : [x EXCEPT !.member = TRUE] \in Membership
      /\ \A x \in Membership, b \in BOOLEAN : [x EXCEPT !.admin = b] \in Membership
  BY DEF Membership
<1>6. ASSUME NEW r \in Requests, pc[r] \in Named, NEW a \in BOOLEAN, NEW b \in BOOLEAN
      PROVE  [club |-> loc[r].club, who |-> loc[r].who, member |-> a, admin |-> b] \in Membership
  BY <1>1, <1>6 DEF Membership
<1>7. ASSUME members' = members PROVE Typed
  BY <1>0, <1>7
<1>. HIDE DEF Typed
<1>8. ASSUME NEW r \in Requests, FoundMember(r) \/ SeatDummy(r) \/ SeatInvited(r) PROVE Typed
  <2>1. pc[r] \in Named
    BY <1>8 DEF FoundMember, SeatDummy, SeatInvited, Named, MembershipLabels
  <2>. QED BY <1>2, <1>6, <1>7, <1>8, <2>1 DEF FoundMember, SeatDummy, SeatInvited
<1>9. ASSUME NEW r \in Requests, Admit(r) PROVE Typed
  <2>1. pc[r] \in Named
    BY <1>9 DEF Admit, Named, MembershipLabels
  <2>2. CASE Insert([club |-> loc[r].club, who |-> loc[r].who, member |-> TRUE, admin |-> FALSE])
    BY <1>2, <1>6, <2>1, <2>2
  <2>3. CASE members' = [m \in DOMAIN members |->
                           IF m = loc[r].row THEN [members[m] EXCEPT !.member = TRUE]
                           ELSE members[m]]
    BY <1>0, <1>5, <2>3 DEF Typed
  <2>. QED BY <1>9, <2>2, <2>3 DEF Admit
<1>10. ASSUME NEW r \in Requests, Unseat(r) \/ MakeAdmin(r) \/ UnmakeAdmin(r) PROVE Typed
  <2>1. CASE Unseat(r)
    BY <1>0, <1>5, <2>1 DEF Unseat, Typed
  <2>2. ASSUME NEW b \in BOOLEAN, NEW label, WriteAdmin(r, label, b) PROVE Typed
    <3>1. members' = [m \in DOMAIN members |->
                        IF m = loc[r].row THEN [members[m] EXCEPT !.admin = b] ELSE members[m]]
      BY <2>2 DEF WriteAdmin
    <3>. QED BY <1>0, <1>5, <3>1 DEF Typed
  <2>. QED BY <1>10, <2>1, <2>2 DEF MakeAdmin, UnmakeAdmin
<1>11. ASSUME NEW r \in Requests, DropUser(r) PROVE Typed
  BY <1>3, <1>11 DEF DropUser
<1>12. ASSUME NEW u \in Users, NEW c \in Clubs, DeleteClub(u, c) PROVE Typed
  BY <1>3, <1>12 DEF DeleteClub
<1>13. Typed
  BY <1>7, <1>8, <1>9, <1>10, <1>11, <1>12, MembersChange
<1>14. Membership \subseteq Membership'
  BY NumberedGrows
<1>. QED BY <1>13, <1>14 DEF Typed

LEMMA RequestsTyped ==
    ASSUME FlightOK, ClubsOK, GuestInv, NamesInv, [Next]_vars
    PROVE  \A i \in DOMAIN memberRequests' : i >= 1 /\ memberRequests'[i] \in MemberRequestRow
<1>. DEFINE Typed == \A i \in DOMAIN memberRequests' :
                        i >= 1 /\ memberRequests'[i] \in MemberRequestRow
<1>0. \A i \in DOMAIN memberRequests : i >= 1 /\ memberRequests[i] \in MemberRequestRow
  BY DEF NamesInv
<1>1. ASSUME NEW ids, memberRequests' = Without(memberRequests, ids) PROVE Typed
  BY <1>0, <1>1 DEF Without
<1>2. ASSUME NEW r \in Requests, Apply(r) \/ RecordInvitation(r) PROVE Typed
  <2>1. loc[r].club \in Clubs /\ loc[r].who \in Users
    BY <1>2 DEF Apply, RecordInvitation, ClubsOK, GuestInv, Guests, MembershipLabels
  <2>2. [club |-> loc[r].club, who |-> loc[r].who] \in MemberRequestRow
    BY <2>1 DEF MemberRequestRow
  <2>3. row.request + 1 >= 1
    BY DEF ClubsOK
  <2>4. \/ memberRequests' = memberRequests
        \/ memberRequests' = With(memberRequests, row.request + 1,
                                  [club |-> loc[r].club, who |-> loc[r].who])
    BY <1>2 DEF Apply, RecordInvitation, Record
  <2>. QED BY <1>0, <2>2, <2>3, <2>4 DEF With
<1>3. memberRequests' = memberRequests => Typed
  BY <1>0
<1>. HIDE DEF Typed
<1>4. Typed
  BY <1>1, <1>2, <1>3, RequestsChange
<1>. QED BY <1>4 DEF Typed

LEMMA DisturbedChange ==
    ASSUME [Next]_vars
    PROVE  \/ UNCHANGED <<disturbed, stopped, unfounded>>
           \/ \E r \in Requests : BeginMembershipCall(r) \/ StopMembershipCall(r)
<1>. DEFINE HistoryKept == disturbed' = disturbed /\ stopped' = stopped /\ unfounded' = unfounded
<1>1. ASSUME NEW r \in Requests, MembershipStep(r) PROVE HistoryKept
  BY <1>1 DEF MembershipStep, FoundMember, Apply, FindMember, Admit, ClearRequest, ReadMember,
     Unseat, DropDummy, DropUser, InsertDummy, InsertPlaceholder, SeatDummy, AddBot, MakeAdmin,
     UnmakeAdmin, WriteAdmin, RecordInvitation, FindInvited, SeatInvited, membershipVars,
     membershipHistory
<1>2. ASSUME NEW r \in Requests, Erase(r) PROVE HistoryKept
  BY <1>2 DEF Erase, ForgetRequests, membershipHistory
<1>3. MembershipAtOnce => HistoryKept
  BY DEF MembershipAtOnce, DeleteClub, CancelRequest, membershipHistory
<1>4. UNCHANGED membershipVars => HistoryKept
  BY DEF membershipVars, membershipHistory
<1>. QED BY <1>1, <1>2, <1>3, <1>4, MembershipNext

\* The requests that needless invitations recorded are among those there were.
LEMMA InvitedRange ==
    ASSUME ClubsOK, NamesInv, [Next]_vars
    PROVE  invited' \subseteq 1..row'.request
<1>0. /\ row.request \in Nat /\ row'.request \in Nat /\ row'.request >= row.request
      /\ invited \subseteq 1..row.request
  BY RequestIds DEF NamesInv
<1>1. CASE invited' = invited
  BY <1>0, <1>1
<1>2. ASSUME NEW r \in Requests, RecordInvitation(r) PROVE invited' \subseteq 1..row'.request
  <2>1. invited' \subseteq invited \cup (DOMAIN memberRequests' \ DOMAIN memberRequests)
    BY <1>2 DEF RecordInvitation
  <2>2. DOMAIN memberRequests' \subseteq DOMAIN memberRequests \cup {row'.request}
    <3>1. CASE memberRequests' = memberRequests
      BY <3>1
    <3>2. CASE memberRequests' # memberRequests
      <4>1. /\ DOMAIN memberRequests' = DOMAIN memberRequests \cup {row.request + 1}
            /\ row' = [row EXCEPT !.request = @ + 1]
        BY <1>2, <3>2 DEF RecordInvitation, Record, With
      <4>2. row'.request = row.request + 1
        BY <4>1 DEF ClubsOK
      <4>. QED BY <4>1, <4>2
    <3>. QED BY <3>1, <3>2
  <2>3. row'.request >= 1 \/ DOMAIN memberRequests' \subseteq DOMAIN memberRequests
    <3>1. CASE memberRequests' = memberRequests
      BY <3>1
    <3>2. CASE memberRequests' # memberRequests
      <4>1. row' = [row EXCEPT !.request = @ + 1]
        BY <1>2, <3>2 DEF RecordInvitation, Record
      <4>2. row'.request = row.request + 1
        BY <4>1 DEF ClubsOK
      <4>. QED BY <1>0, <4>2
    <3>. QED BY <3>1, <3>2
  <2>. QED BY <1>0, <2>1, <2>2, <2>3
<1>3. ASSUME NEW r \in Requests, MembershipStep(r), ~RecordInvitation(r)
      PROVE  invited' = invited
  BY <1>3 DEF MembershipStep, FoundMember, Apply, FindMember, Admit, ClearRequest, ReadMember,
     Unseat, DropDummy, DropUser, InsertDummy, InsertPlaceholder, SeatDummy, AddBot, MakeAdmin,
     UnmakeAdmin, WriteAdmin, FindInvited, SeatInvited, membershipVars, membershipHistory
<1>4. ASSUME NEW r \in Requests, StopMembershipCall(r) \/ Erase(r) PROVE invited' = invited
  BY <1>4 DEF StopMembershipCall, Erase, ForgetRequests, membershipHistory
<1>5. MembershipAtOnce => invited' = invited
  BY DEF MembershipAtOnce, DeleteClub, CancelRequest, membershipHistory
<1>6. UNCHANGED membershipVars => invited' = invited
  BY DEF membershipVars, membershipHistory
<1>. QED BY <1>1, <1>2, <1>3, <1>4, <1>5, <1>6, BeginTables, MembershipNext

\* A request that begins disturbs its own membership at most, and stops nothing.
LEMMA BegunDisturbs ==
    ASSUME FlightOK, ClubsOK, GuestInv, NEW q \in Requests, BeginMembershipCall(q)
    PROVE  /\ stopped' = stopped
           /\ \/ disturbed' = disturbed
              \/ /\ disturbed' \subseteq disturbed \cup {<<loc'[q].club, loc'[q].who>>}
                 /\ pc'[q] \in Named
<1>1. stopped' = stopped
  <2>1. ASSUME NEW label, NEW x, BeginFor(q, label, x) PROVE stopped' = stopped
    BY <2>1 DEF BeginFor
  <2>2. ASSUME NEW u \in Users, NEW c \in Clubs, NEW w \in Users,
               \/ CreateClub(q, u, c) \/ RequestToJoin(q, u, c) \/ CreateDummy(q, u, c)
               \/ Invite(q, u, c, w)
        PROVE  stopped' = stopped
    BY <2>1, <2>2 DEF CreateClub, RequestToJoin, CreateDummy, Invite, membershipVars,
       membershipHistory
  <2>3. ASSUME NEW u \in Users, NEW i, AcceptRequest(q, u, i) \/ RejectRequest(q, u, i)
        PROVE  stopped' = stopped
    BY <2>1, <2>3 DEF AcceptRequest, RejectRequest, BeginAnswer
  <2>4. ASSUME NEW u \in Users, NEW m,
               \/ DeleteMember(q, u, m) \/ LeaveClub(q, u, m)
               \/ PromoteMember(q, u, m) \/ DemoteMember(q, u, m)
        PROVE  stopped' = stopped
    BY <2>1, <2>4 DEF DeleteMember, LeaveClub, PromoteMember, DemoteMember, BeginMemberCall
  <2>. QED BY <2>2, <2>3, <2>4 DEF BeginMembershipCall
<1>2. ASSUME NEW u \in Users, NEW c \in Clubs, CreateClub(q, u, c) \/ CreateDummy(q, u, c)
      PROVE  disturbed' = disturbed
  BY <1>2 DEF CreateClub, CreateDummy, membershipVars, membershipHistory
<1>3. ASSUME NEW c, NEW w, Asked(q, c, w)
      PROVE  /\ disturbed' \subseteq disturbed \cup {<<loc'[q].club, loc'[q].who>>}
             /\ pc'[q] \in Named
  BY <1>3 DEF Asked, Named, MembershipLabels
<1>4. ASSUME Aims(q)
      PROVE  /\ disturbed' \subseteq disturbed \cup {<<loc'[q].club, loc'[q].who>>}
             /\ pc'[q] \in Named
  BY <1>4 DEF Aims, Named, MembershipLabels
<1>. QED BY <1>1, <1>2, <1>3, <1>4, BegunInFull

LEMMA NamesGoOn ==
    ASSUME FlightOK, OthersOK, ClubsOK, KeysOK, GuestInv, NamesInv, [Next]_vars,
           NEW q \in Requests
    PROVE  /\ pc'[q] \in Named => loc'[q].who \in Numbered'
           /\ pc'[q] = "dummy" => loc'[q].who = None
<1>0. Numbered \subseteq Numbered' /\ row.dummy \in Nat
  BY NumberedGrows
<1>1. ASSUME pc'[q] \in Named PROVE loc'[q].who \in Numbered'
  <2>1. CASE pc[q] \in Named /\ loc'[q].who = loc[q].who
    BY <1>0, <2>1 DEF NamesInv
  <2>2. CASE BeginMembershipCall(q)
    <3>1. loc'[q].who \in Users \/ Aims(q)
      BY <1>1, <2>2, BegunLocals DEF Named
    <3>2. Aims(q) => loc'[q].who \in Numbered
      BY DEF Aims, NamesInv, Membership
    <3>. QED BY <1>0, <3>1, <3>2 DEF Numbered
  <2>3. CASE InsertDummy(q) /\ loc'[q].who = row.dummy + 1
    <3>1. row'.dummy = row.dummy + 1
      BY <1>1, <2>3, DummyIds DEF Named, MembershipLabels
    <3>. QED BY <1>0, <2>3, <3>1 DEF Numbered
  <2>4. CASE MembershipStep(q) /\ pc'[q] # "idle"
    BY <2>1, <2>3, <2>4, StepLocals DEF FindMember, Named, MembershipLabels, Follows
  <2>5. pc'[q] \in MembershipLabels
    BY <1>1 DEF Named
  <2>. QED BY <1>1, <2>1, <2>2, <2>4, <2>5, ClubActs DEF Stays
<1>2. ASSUME pc'[q] = "dummy" PROVE loc'[q].who = None
  <2>1. pc'[q] \in MembershipLabels
    BY <1>2 DEF MembershipLabels
  <2>2. ~(MembershipStep(q) /\ pc'[q] # "idle")
    BY <1>2, StepLocals DEF Follows
  <2>3. CASE Stays(q)
    BY <1>2, <2>3 DEF Stays, NamesInv
  <2>4. CASE BeginMembershipCall(q)
    <3>1. PICK u \in Users, c \in Clubs : CreateDummy(q, u, c)
      BY <1>2, <2>4, BegunInFull DEF Aims, Asked
    <3>2. loc'[q] = [MembershipLocals EXCEPT !.user = u, !.club = c]
      BY <3>1, GoesTo DEF CreateDummy, Start
    <3>. QED BY <3>2 DEF MembershipLocals
  <2>. QED BY <2>1, <2>2, <2>3, <2>4, ClubActs
<1>. QED BY <1>1, <1>2

LEMMA NamesStep ==
    ASSUME FlightOK, OthersOK, ClubsOK, AdminsInv, CountInv, CountInv', NamesInv, [Next]_vars
    PROVE  NamesInv'
<1>0. /\ Numbered \subseteq Numbered'
      /\ row.dummy \in Nat /\ row'.dummy \in Nat /\ row'.dummy >= row.dummy
  BY NumberedGrows
<1>1. \A m \in DOMAIN members' : m >= 1 /\ members'[m] \in Membership'
  BY MembersTyped
<1>2. \A i \in DOMAIN memberRequests' : i >= 1 /\ memberRequests'[i] \in MemberRequestRow
  BY RequestsTyped DEF AdminsInv
<1>3. ASSUME NEW d \in DOMAIN dummies' PROVE d >= 1
  BY <1>0, DummyGoesOn DEF DummyNew, NamesInv, AdminsInv
<1>4. ASSUME NEW q \in Requests
      PROVE  /\ pc'[q] \in Named => loc'[q].who \in Numbered'
             /\ pc'[q] = "dummy" => loc'[q].who = None
  BY NamesGoOn DEF AdminsInv
<1>5. placeholders' \subseteq 1..row'.dummy
  <2>1. 1..row.dummy \subseteq 1..row'.dummy
    BY <1>0
  <2>2. ASSUME NEW r \in Requests, InsertPlaceholder(r) PROVE loc[r].who \in 1..row.dummy
    <3>1. loc[r].who \in Numbered /\ loc[r].who \in Nat
      BY <2>2 DEF InsertPlaceholder, NamesInv, Named, MembershipLabels, AdminsInv, SeatInv, Seating
    <3>. QED BY <3>1, MembershipAssumption DEF Numbered
  <2>3. ASSUME NEW r \in Requests, DropUser(r) PROVE placeholders' \subseteq placeholders
    BY <2>3 DEF DropUser
  <2>4. placeholders \subseteq 1..row.dummy
    BY DEF NamesInv
  <2>5. ASSUME NEW r \in Requests, InsertPlaceholder(r) PROVE placeholders' \subseteq 1..row.dummy
    <3>1. placeholders' = placeholders \cup {loc[r].who}
      BY <2>5 DEF InsertPlaceholder
    <3>. QED BY <2>2, <2>4, <2>5, <3>1
  <2>6. placeholders' \subseteq 1..row.dummy
    BY <2>3, <2>4, <2>5, PlaceTables
  <2>. QED BY <2>1, <2>6
<1>6. bots' \subseteq Clubs \X placeholders'
  <2>1. ASSUME NEW b \in bots', b \in bots PROVE b \in Clubs \X placeholders'
    <3>1. b \in Clubs \X placeholders
      BY <2>1 DEF NamesInv
    <3>2. ASSUME NEW r \in Requests, DropUser(r) PROVE b[2] # loc[r].who
      BY <2>1, <3>2 DEF DropUser
    <3>3. b[2] \in placeholders'
      BY <3>1, <3>2, PlaceTables DEF InsertPlaceholder, DropUser
    <3>. QED BY <3>1, <3>3
  <2>2. ASSUME NEW b \in bots', b \notin bots PROVE b \in Clubs \X placeholders'
    <3>1. PICK r \in Requests : AddBot(r)
      BY <2>2, PlaceTables DEF DropUser, DeleteClub
    <3>2. /\ loc[r].club \in Clubs /\ loc[r].who \in placeholders /\ placeholders' = placeholders
          /\ b = <<loc[r].club, loc[r].who>>
      BY <2>2, <3>1 DEF AddBot, ClubsOK, MembershipLabels
    <3>. QED BY <3>2
  <2>. QED BY <2>1, <2>2
<1>7. Numbered \subseteq People /\ Numbered' \subseteq People
  <2>1. row.dummy <= MaxDummies /\ row'.dummy <= MaxDummies
    <3>1. \A s \in SUBSET Requests : Cardinality(s) \in Nat
      BY CountedRequests
    <3>2. /\ Cardinality(InFlightAt({"dummy"})) \in Nat
          /\ Cardinality(InFlightAt({"dummy"})') \in Nat
      BY <3>1 DEF InFlightAt
    <3>3. row'.dummy + Cardinality(InFlightAt({"dummy"})') <= MaxDummies
      BY DEF CountInv
    <3>. QED BY <1>0, <3>2, <3>3, MembershipAssumption DEF CountInv
  <2>. QED BY <1>0, <2>1, MembershipAssumption DEF Numbered, People, Dummy
<1>8. /\ disturbed' \subseteq Clubs \X People /\ stopped' \subseteq Dummy
      /\ unfounded' \subseteq Clubs
  <2>1. CASE UNCHANGED <<disturbed, stopped, unfounded>>
    BY <2>1 DEF NamesInv
  <2>2. ASSUME NEW r \in Requests, BeginMembershipCall(r)
        PROVE  /\ disturbed' \subseteq Clubs \X People /\ stopped' \subseteq Dummy
               /\ unfounded' \subseteq Clubs
    <3>1. loc'[r].club \in Clubs
      BY <2>2, BegunClub
    <3>2. pc'[r] \in Named => loc'[r].who \in People
      BY <1>4, <1>7
    <3>. QED BY <2>2, <3>1, <3>2, BegunDisturbs, BeginTables DEF NamesInv, AdminsInv
  <2>3. ASSUME NEW r \in Requests, StopMembershipCall(r)
        PROVE  /\ disturbed' \subseteq Clubs \X People /\ stopped' \subseteq Dummy
               /\ unfounded' \subseteq Clubs
    <3>1. loc[r].club \in Clubs /\ (loc[r].who # None => loc[r].who \in People)
      BY <1>7, <2>3 DEF StopMembershipCall, ClubsOK, NamesInv, Named
    <3>. QED BY <2>3, <3>1 DEF StopMembershipCall, NamesInv
  <2>. QED BY <2>1, <2>2, <2>3, DisturbedChange
<1>. QED BY <1>1, <1>2, <1>3, <1>4, <1>5, <1>6, <1>8, InvitedRange DEF NamesInv

-----------------------------------------------------------------------------
\* There is a number for every membership and every request to join.

Seaters == {"found", "findMember", "admit", "dummy", "placeholder", "seatDummy", "invite",
            "findInvited", "seatInvited"}

Askers == {"apply", "invite"}

RoomInv ==
    /\ row.member + Cardinality(InFlightAt(Seaters)) <= MaxMembers
    /\ row.request + Cardinality(InFlightAt(Askers)) <= MaxMemberRequests

LEMMA RoomInit == Init => RoomInv
<1>. SUFFICES ASSUME Init PROVE RoomInv
  OBVIOUS
<1>1. PICK first \in FirstMembers :
          row = [member |-> Cardinality(first), request |-> 0, dummy |-> 0]
  BY DEF Init, MembershipInit
<1>2. first \in {{}, {1}, {1, 2}}
  BY DEF FirstMembers
<1>3. Cardinality({}) = 0 /\ Cardinality({1}) = 1 /\ Cardinality({1, 2}) = 2
  <2>1. IsFiniteSet({}) /\ Cardinality({}) = 0
    BY FS_EmptySet
  <2>2. IsFiniteSet({1}) /\ Cardinality({1}) = 1
    BY FS_Singleton
  <2>3. Cardinality({1} \cup {2}) = 2
    BY <2>2, FS_AddElement
  <2>4. {1} \cup {2} = {1, 2}
    OBVIOUS
  <2>. QED BY <2>1, <2>2, <2>3, <2>4
<1>4. \A q \in Requests : pc[q] = "idle"
  BY DEF Init, FlightInit
<1>5. InFlightAt(Seaters) = {} /\ InFlightAt(Askers) = {}
  BY <1>4 DEF InFlightAt, Seaters, Askers
<1>6. row.member \in {0, 1, 2} /\ row.request = 0
  BY <1>1, <1>2, <1>3
<1>. QED BY <1>3, <1>5, <1>6, MembershipAssumption DEF RoomInv

LEMMA RoomAtFirst ==
    ASSUME FlightOK, NEW q \in Requests, BeginMembershipCall(q)
    PROVE  /\ pc'[q] \in Seaters => RoomForMember
           /\ pc'[q] \in Askers => RoomForRequest
<1>. DEFINE Goal == /\ pc'[q] \in Seaters => RoomForMember
                    /\ pc'[q] \in Askers => RoomForRequest
<1>0. ASSUME NEW label, NEW x, Start(q, label, x) \/ BeginFor(q, label, x)
      PROVE  pc'[q] = label
  BY <1>0, GoesTo DEF Start, BeginFor
<1>1. ASSUME NEW u \in Users, NEW c \in Clubs, CreateClub(q, u, c) \/ CreateDummy(q, u, c)
      PROVE  Goal
  BY <1>0, <1>1 DEF CreateClub, CreateDummy, Askers
<1>2. ASSUME NEW u \in Users, NEW c \in Clubs, RequestToJoin(q, u, c) PROVE Goal
  BY <1>0, <1>2 DEF RequestToJoin, Seaters
<1>3. ASSUME NEW u \in Users, NEW c \in Clubs, NEW w \in Users, Invite(q, u, c, w) PROVE Goal
  BY <1>0, <1>3 DEF Invite
<1>4. ASSUME NEW u \in Users, NEW i, AcceptRequest(q, u, i) \/ RejectRequest(q, u, i) PROVE Goal
  BY <1>0, <1>4 DEF AcceptRequest, RejectRequest, BeginAnswer, Seaters, Askers
<1>5. ASSUME NEW u \in Users, NEW m,
             \/ DeleteMember(q, u, m) \/ LeaveClub(q, u, m)
             \/ PromoteMember(q, u, m) \/ DemoteMember(q, u, m)
      PROVE  Goal
  <2>1. pc'[q] \in {"readMember", "makeAdmin", "unmakeAdmin"}
    BY <1>0, <1>5 DEF DeleteMember, LeaveClub, PromoteMember, DemoteMember, BeginMemberCall
  <2>. QED BY <2>1 DEF Seaters, Askers
<1>. HIDE DEF Goal
<1>6. Goal
  BY <1>1, <1>2, <1>3, <1>4, <1>5 DEF BeginMembershipCall
<1>. QED BY <1>6 DEF Goal

LEMMA RowSteps ==
    ASSUME ClubsOK, [Next]_vars
    PROVE  /\ row.member \in Nat /\ row'.member \in Nat
           /\ row.request \in Nat /\ row'.request \in Nat
           /\ \/ row'.member = row.member
              \/ /\ row'.member = row.member + 1
                 /\ \E r \in Requests :
                       /\ FoundMember(r) \/ Admit(r) \/ SeatDummy(r) \/ SeatInvited(r)
                       /\ row' # row
           /\ \/ row'.request = row.request
              \/ /\ row'.request = row.request + 1
                 /\ \E r \in Requests : Apply(r) \/ RecordInvitation(r)
<1>0. row \in [member : Nat, request : Nat, dummy : Nat]
  BY DEF ClubsOK
<1>1. /\ [row EXCEPT !.member = row.member + 1].member = row.member + 1
      /\ [row EXCEPT !.member = row.member + 1].request = row.request
      /\ [row EXCEPT !.request = row.request + 1].request = row.request + 1
      /\ [row EXCEPT !.request = row.request + 1].member = row.member
      /\ [row EXCEPT !.dummy = row.dummy + 1].request = row.request
      /\ [row EXCEPT !.dummy = row.dummy + 1].member = row.member
      /\ row.member \in Nat /\ row.request \in Nat
      /\ row.member + 1 \in Nat /\ row.request + 1 \in Nat
  BY <1>0
<1>2. ASSUME NEW r \in Requests, FoundMember(r) \/ Admit(r) \/ SeatDummy(r) \/ SeatInvited(r)
      PROVE  row' = row \/ row' = [row EXCEPT !.member = row.member + 1]
  BY <1>2 DEF FoundMember, Admit, SeatDummy, SeatInvited, Insert
<1>3. ASSUME NEW r \in Requests, Apply(r) \/ RecordInvitation(r)
      PROVE  row' = row \/ row' = [row EXCEPT !.request = row.request + 1]
  BY <1>3 DEF Apply, RecordInvitation, Record
<1>4. ASSUME NEW r \in Requests, InsertDummy(r)
      PROVE  row' = row \/ row' = [row EXCEPT !.dummy = row.dummy + 1]
  BY <1>4 DEF InsertDummy
<1>. QED BY <1>1, <1>2, <1>3, <1>4, RowChange

LEMMA RoomStep ==
    ASSUME FlightOK, OthersOK, ClubsOK, AdminsInv, RoomInv, [Next]_vars
    PROVE  RoomInv'
<1>. DEFINE Admitting == InFlightAt(Seaters)
            Petitions == InFlightAt(Askers)
<1>n. /\ row.member \in Nat /\ row'.member \in Nat
      /\ row.request \in Nat /\ row'.request \in Nat
      /\ MaxMembers \in Nat /\ MaxMemberRequests \in Nat
  BY RowSteps, MembershipAssumption
<1>b. ASSUME NEW q \in Requests, BeginMembershipCall(q) \/ MembershipStep(q) PROVE Alone(q)
  BY <1>b, OthersStay DEF Alone
<1>a. ASSUME NEW q \in Requests, pc'[q] \in Seaters \cup Askers
      PROVE  Stays(q) \/ BeginMembershipCall(q) \/ <<pc[q], pc'[q]>> \in Follows
             \/ (InsertDummy(q) /\ pc'[q] = "placeholder")
             \/ (FindMember(q) /\ pc'[q] = "admit")
  <2>1. pc'[q] \in MembershipLabels
    BY <1>a DEF MembershipLabels, Seaters, Askers
  <2>. QED BY <2>1, ClubActs, StepLocals DEF AdminsInv
<1>g. ASSUME NEW r \in Requests, NEW to, NEW x, Goto(r, to, x) PROVE pc'[r] = to
  BY <1>g, GoesTo
<1>1. row'.member + Cardinality(Admitting') <= MaxMembers
  <2>1. \A q \in Requests : Stays(q) => (q \in Admitting' <=> q \in Admitting)
    BY DEF InFlightAt, Stays
  <2>2. ASSUME NEW q \in Admitting'
        PROVE  q \in Admitting \/ (Alone(q) /\ row.member + Cardinality(Admitting) < MaxMembers)
    <3>1. q \in Requests /\ pc'[q] \in Seaters
      BY DEF InFlightAt
    <3>2. CASE Stays(q)
      BY <2>1, <3>1, <3>2
    <3>3. CASE BeginMembershipCall(q)
      BY <1>b, <3>1, <3>3, RoomAtFirst DEF RoomForMember, Seaters
    <3>4. CASE <<pc[q], pc'[q]>> \in Follows
      BY <3>1, <3>4 DEF Follows, Seaters, InFlightAt
    <3>5. CASE InsertDummy(q) \/ FindMember(q)
      BY <3>1, <3>5 DEF InsertDummy, FindMember, Seaters, InFlightAt
    <3>. QED BY <1>a, <3>1, <3>2, <3>3, <3>4, <3>5
  <2>3. ASSUME NEW r \in Requests, row' # row,
               FoundMember(r) \/ Admit(r) \/ SeatDummy(r) \/ SeatInvited(r)
        PROVE  r \in Admitting \ Admitting' /\ Alone(r)
    <3>1. Alone(r)
      BY <1>b, <2>3 DEF MembershipStep
    <3>2. pc[r] \in {"found", "admit", "seatDummy", "seatInvited"}
      BY <2>3 DEF FoundMember, Admit, SeatDummy, SeatInvited
    <3>3. pc'[r] \in {"idle", "clearRequest", "bot"}
      BY <1>g, <2>3 DEF FoundMember, Admit, SeatDummy, SeatInvited, Done, Proceed
    <3>. QED BY <3>1, <3>2, <3>3 DEF InFlightAt, Seaters
  <2>4. \/ row'.member = row.member
        \/ row'.member = row.member + 1 /\ \E r \in Admitting \ Admitting' : Alone(r)
    BY <2>3, RowSteps
  <2>5. row.member + Cardinality(Admitting) <= MaxMembers /\ Admitting \subseteq Requests
        /\ Admitting' \subseteq Requests
    BY DEF RoomInv, InFlightAt
  <2>. HIDE DEF Admitting
  <2>. QED BY <1>n, <2>1, <2>2, <2>4, <2>5, SupplyStep
<1>2. row'.request + Cardinality(Petitions') <= MaxMemberRequests
  <2>1. \A q \in Requests : Stays(q) => (q \in Petitions' <=> q \in Petitions)
    BY DEF InFlightAt, Stays
  <2>2. ASSUME NEW q \in Petitions'
        PROVE  \/ q \in Petitions
               \/ Alone(q) /\ row.request + Cardinality(Petitions) < MaxMemberRequests
    <3>1. q \in Requests /\ pc'[q] \in Askers
      BY DEF InFlightAt
    <3>2. CASE Stays(q)
      BY <2>1, <3>1, <3>2
    <3>3. CASE BeginMembershipCall(q)
      BY <1>b, <3>1, <3>3, RoomAtFirst DEF RoomForRequest, Askers
    <3>4. ~(<<pc[q], pc'[q]>> \in Follows)
      BY <3>1 DEF Follows, Askers
    <3>5. pc'[q] # "placeholder" /\ pc'[q] # "admit"
      BY <3>1 DEF Askers
    <3>. QED BY <1>a, <3>1, <3>2, <3>3, <3>4, <3>5
  <2>3. ASSUME NEW r \in Requests, Apply(r) \/ RecordInvitation(r)
        PROVE  r \in Petitions \ Petitions' /\ Alone(r)
    <3>1. Alone(r)
      BY <1>b, <2>3 DEF MembershipStep
    <3>2. pc[r] \in Askers
      BY <2>3 DEF Apply, RecordInvitation, Askers
    <3>3. pc'[r] \in {"idle", "findInvited"}
      BY <1>g, <2>3 DEF Apply, RecordInvitation, Done, Proceed
    <3>. QED BY <3>1, <3>2, <3>3 DEF InFlightAt, Askers
  <2>4. \/ row'.request = row.request
        \/ row'.request = row.request + 1 /\ \E r \in Petitions \ Petitions' : Alone(r)
    BY <2>3, RowSteps
  <2>5. row.request + Cardinality(Petitions) <= MaxMemberRequests /\ Petitions \subseteq Requests
        /\ Petitions' \subseteq Requests
    BY DEF RoomInv, InFlightAt
  <2>. HIDE DEF Petitions
  <2>. QED BY <1>n, <2>1, <2>2, <2>4, <2>5, SupplyStep
<1>. QED BY <1>1, <1>2 DEF RoomInv

LEMMA MembershipTyped ==
    ASSUME ClubsOK, ClaimedInv, PlacesInv, NamesInv, RoomInv
    PROVE  MembershipTypeOK
<1>0. \A s \in SUBSET Requests : Cardinality(s) \in Nat
  BY CountedRequests
<1>1. /\ Cardinality(InFlightAt(Seaters)) \in Nat /\ Cardinality(InFlightAt(Askers)) \in Nat
      /\ Cardinality(InFlightAt({"dummy"})) \in Nat
  BY <1>0 DEF InFlightAt
<1>2. /\ row.member \in Nat /\ row.request \in Nat /\ row.dummy \in Nat
      /\ MaxMembers \in Nat /\ MaxMemberRequests \in Nat /\ MaxDummies \in Nat
  BY MembershipAssumption DEF ClubsOK
<1>3. /\ row.member \in 0..MaxMembers /\ row.request \in 0..MaxMemberRequests
      /\ row.dummy \in 0..MaxDummies
  BY <1>1, <1>2 DEF RoomInv, PlacesInv, CountInv
<1>4. Membership \subseteq MemberRow
  BY <1>2, <1>3 DEF Membership, MemberRow, Numbered, People, Dummy
<1>5. \A m \in DOMAIN members : m \in 1..row.member /\ members[m] \in MemberRow
  BY <1>2, <1>4 DEF ClubsOK, NamesInv
<1>6. \A i \in DOMAIN memberRequests :
          i \in 1..row.request /\ memberRequests[i] \in MemberRequestRow
  BY <1>2 DEF ClaimedInv, NamesInv
<1>7. \A d \in DOMAIN dummies : d \in 1..row.dummy /\ dummies[d] \in Clubs
  BY <1>2 DEF PlacesInv, DummiesOK, NamesInv
<1>. QED BY <1>3, <1>5, <1>6, <1>7 DEF MembershipTypeOK, ClubsOK, NamesInv

-----------------------------------------------------------------------------
\* Logos.

LogoTypesInv ==
    /\ LogosTypeOK
    /\ \A q \in Requests : pc[q] \in Uploading => loc[q].key \in LogoTypes

LEMMA LogoTypesInit == Init => LogoTypesInv
BY DEF Init, FlightInit, LogoInit, LogoTypesInv, LogosTypeOK, Uploading

\* What a handler about a logo starts with.
LEMMA LogoHanded ==
    ASSUME FlightOK, NEW q \in Requests, BeginLogoCall(q), pc'[q] \in Uploading
    PROVE  loc'[q].key \in LogoTypes
<1>1. PICK u \in Users, c \in Clubs :
         (\E type \in LogoTypes : UploadLogo(q, u, c, type)) \/ RemoveLogo(q, u, c)
  BY DEF BeginLogoCall
<1>2. ASSUME NEW label, NEW key, NEW others, BeginLogo(q, u, c, label, key, others)
      PROVE  pc'[q] = label /\ loc'[q].key = key
  <2>1. pc'[q] = label /\ loc'[q] = [LogoLocals EXCEPT !.user = u, !.club = c, !.key = key]
    BY <1>2, GoesTo DEF BeginLogo, Start
  <2>. QED BY <2>1 DEF LogoLocals
<1>3. ~RemoveLogo(q, u, c)
  BY <1>2 DEF RemoveLogo, Uploading
<1>. QED BY <1>1, <1>2, <1>3 DEF UploadLogo

LEMMA LogoTypesStep ==
    ASSUME FlightOK, OthersOK, LogosOK, LogoTypesInv, [Next]_vars
    PROVE  LogoTypesInv'
<1>0. ASSUME NEW q \in Requests, pc[q] \in LogoLabels PROVE loc[q].club \in Clubs
  BY <1>0 DEF LogosOK, LogoOK
<1>1. LogosTypeOK'
  <2>1. ASSUME NEW r \in Requests, BeginLogoCall(r) PROVE LogosTypeOK'
    BY <2>1, LogoBegins DEF LogoTypesInv, LogosTypeOK
  <2>2. ASSUME NEW r \in Requests, LogoStep(r) \/ StopLogo(r) PROVE LogosTypeOK'
    <3>1. pc[r] \in LogoLabels /\ (pc[r] \in Uploading => loc[r].key \in LogoTypes)
      BY <2>2 DEF LogoTypesInv, LogoStep, PutLogo, SetLogo, ReadLogo, DropLogo, ClearLogo, StopLogo,
         LogoLabels, Uploading, Removing
    <3>2. loc[r].club \in Clubs
      BY <1>0, <3>1
    <3>3. logo' \in [Clubs -> LogoTypes \cup {None}]
      BY <2>2, <3>1, <3>2 DEF LogoStep, PutLogo, SetLogo, ReadLogo, DropLogo, ClearLogo, StopLogo,
         Show, logoVars, LogoTypesInv, LogosTypeOK, Uploading
    <3>4. files' \subseteq Clubs \X LogoTypes
      BY <2>2, <3>1, <3>2 DEF LogoStep, PutLogo, SetLogo, ReadLogo, DropLogo, ClearLogo, StopLogo,
         logoVars, LogoTypesInv, LogosTypeOK, Uploading
    <3>5. smudged' \subseteq Clubs
      BY <2>2, <3>2 DEF LogoStep, PutLogo, SetLogo, ReadLogo, DropLogo, ClearLogo, StopLogo,
         logoVars, LogoTypesInv, LogosTypeOK
    <3>. QED BY <3>3, <3>4, <3>5 DEF LogosTypeOK
  <2>. QED BY <2>1, <2>2, LogosChange DEF LogoTypesInv, LogosTypeOK, logoVars
<1>2. ASSUME NEW q \in Requests, pc'[q] \in Uploading PROVE loc'[q].key \in LogoTypes
  <2>1. CASE Stays(q)
    BY <1>2, <2>1 DEF Stays, LogoTypesInv
  <2>2. CASE BeginLogoCall(q)
    BY <1>2, <2>2, LogoHanded
  <2>3. CASE LogoStep(q)
    BY <1>2, <2>3, GoesTo DEF LogoStep, PutLogo, SetLogo, ReadLogo, DropLogo, ClearLogo, Proceed,
       Done, Uploading, LogoTypesInv
  <2>. QED BY <1>2, <2>1, <2>2, <2>3, LogoComes DEF LogoLabels
<1>. QED BY <1>1, <1>2 DEF LogoTypesInv

-----------------------------------------------------------------------------
\* Ratings.  The rows that may still be made are told apart, one for each player
\* of whom a request still needs one.

NeedsOf(label, l) ==
    IF label \notin RatingLabels THEN 0
    ELSE IF label = "linkElo" THEN Len(l.todo) - 1
    ELSE Len(l.todo)

Debts == {d \in Requests \X (1..MaxElos) : d[2] <= NeedsOf(pc[d[1]], loc[d[1]])}

EloRoom ==
    /\ \A r \in Requests : pc[r] \in RatingLabels => Len(loc[r].todo) <= MaxElos
    /\ lastElo + Cardinality(Debts) <= MaxElos

\* The players that the requests of s have to fetch.
ToFetch(s) == {d \in s \X (1..MaxElos) : d[2] <= Len(loc[d[1]].todo)}

LEMMA DebtsCounted ==
    ASSUME NEW D \in SUBSET (Requests \X (1..MaxElos))
    PROVE  /\ IsFiniteSet(D) /\ Cardinality(D) \in Nat
           /\ \A E \in SUBSET D : Cardinality(E) <= Cardinality(D)
<1>1. IsFiniteSet(Requests \X (1..MaxElos))
  <2>1. IsFiniteSet(1..MaxElos)
    BY RatingsAssumption, FS_Interval
  <2>. QED BY <2>1, InFlightAssumption, FS_Product
<1>2. IsFiniteSet(D)
  BY <1>1, FS_Subset
<1>. QED BY <1>2, FS_Subset, FS_CardinalityType

\* The sum that RoomForElos takes counts the players still to be fetched.
FetchSums(ps, f) ==
    f = [s \in SUBSET ps |-> IF s = {} THEN 0 ELSE f[s \ {AnyOf(s)}] + Len(loc[AnyOf(s)].todo)]

PartlyFetchSums(ps, n, f) ==
    f = [s \in {t \in SUBSET ps : Cardinality(t) <= n} |->
            IF s = {} THEN 0 ELSE f[s \ {AnyOf(s)}] + Len(loc[AnyOf(s)].todo)]

LEMMA FetchSumsUpTo ==
    ASSUME NEW ps, IsFiniteSet(ps), NEW n \in Nat
    PROVE  \E f : PartlyFetchSums(ps, n, f)
<1>. DEFINE Sets(k) == {t \in SUBSET ps : Cardinality(t) <= k}
            S == {k \in Nat : \E f : PartlyFetchSums(ps, k, f)}
<1>0. ASSUME NEW s \in SUBSET ps PROVE IsFiniteSet(s) /\ Cardinality(s) \in Nat
  BY FS_Subset, FS_CardinalityType
<1>1. 0 \in S
  <2>. DEFINE f == [s \in Sets(0) |-> 0]
  <2>1. ASSUME NEW s \in Sets(0) PROVE s = {}
    BY <1>0, FS_EmptySet
  <2>2. f = [s \in Sets(0) |-> IF s = {} THEN 0 ELSE f[s \ {AnyOf(s)}] + Len(loc[AnyOf(s)].todo)]
    BY <2>1
  <2>. QED BY <2>2 DEF PartlyFetchSums
<1>2. ASSUME NEW k \in Nat, k \in S PROVE k + 1 \in S
  <2>1. PICK f : PartlyFetchSums(ps, k, f)
    BY <1>2
  <2>. DEFINE g == [s \in Sets(k + 1) |-> IF s = {} THEN 0
                                          ELSE f[s \ {AnyOf(s)}] + Len(loc[AnyOf(s)].todo)]
  <2>2. ASSUME NEW s \in Sets(k + 1), s # {}
        PROVE  /\ s \ {AnyOf(s)} \in Sets(k) /\ s \ {AnyOf(s)} \in Sets(k + 1)
    BY <1>0, <2>2, FewerIsSmaller
  <2>3. ASSUME NEW s \in Sets(k) PROVE f[s] = g[s]
    <3>1. s \in Sets(k + 1)
      BY <1>0
    <3>. QED BY <2>1, <3>1 DEF PartlyFetchSums
  <2>4. g = [s \in Sets(k + 1) |-> IF s = {} THEN 0
                                   ELSE g[s \ {AnyOf(s)}] + Len(loc[AnyOf(s)].todo)]
    <3>. HIDE DEF Sets
    <3>. QED BY <2>2, <2>3
  <2>5. PartlyFetchSums(ps, k + 1, g)
    BY <2>4 DEF PartlyFetchSums
  <2>. QED BY <2>5
<1>3. Nat \subseteq S
  <2>. HIDE DEF S
  <2>. QED BY <1>1, <1>2, Induction
<1>. QED BY <1>3

LEMMA PairsCounted ==
    ASSUME NEW r, NEW n \in Nat
    PROVE  IsFiniteSet({r} \X (1..n)) /\ Cardinality({r} \X (1..n)) = n
<1>1. IsFiniteSet(1..n) /\ Cardinality(1..n) = n
  <2>1. 1 \in Int /\ n \in Int
    OBVIOUS
  <2>2. IsFiniteSet(1..n) /\ Cardinality(1..n) = IF 1 > n THEN 0 ELSE n - 1 + 1
    BY <2>1, FS_Interval
  <2>. QED BY <2>2
<1>2. IsFiniteSet({r}) /\ Cardinality({r}) = 1
  BY FS_Singleton
<1>. PICK D : D = 1..n
  OBVIOUS
<1>3. IsFiniteSet({r} \X D) /\ Cardinality({r} \X D) = Cardinality({r}) * Cardinality(D)
  BY <1>1, <1>2, FS_Product
<1>. QED BY <1>1, <1>2, <1>3

LEMMA ToFetchGrows ==
    ASSUME NEW s \in SUBSET Requests, NEW r \in Requests, r \notin s,
           NEW n \in 0..MaxElos, n = Len(loc[r].todo)
    PROVE  Cardinality(ToFetch(s \cup {r})) = Cardinality(ToFetch(s)) + n
<1>. DEFINE mine == {r} \X (1..n)
<1>0. MaxElos \in Nat /\ n \in Nat
  BY RatingsAssumption
<1>1. ToFetch(s \cup {r}) = ToFetch(s) \cup mine /\ ToFetch(s) \cap mine = {}
  BY <1>0 DEF ToFetch
<1>2. IsFiniteSet(mine) /\ Cardinality(mine) = n
  BY <1>0, PairsCounted
<1>3. IsFiniteSet(ToFetch(s)) /\ Cardinality(ToFetch(s)) \in Nat
  <2>1. ToFetch(s) \in SUBSET (Requests \X (1..MaxElos))
    BY DEF ToFetch
  <2>. QED BY <2>1, DebtsCounted
<1>. HIDE DEF mine
<1>4. Cardinality(ToFetch(s) \cup mine) =
          Cardinality(ToFetch(s)) + Cardinality(mine) - Cardinality(ToFetch(s) \cap mine)
  BY <1>2, <1>3, FS_Union
<1>5. Cardinality(ToFetch(s) \cap mine) = 0
  BY <1>1, FS_EmptySet
<1>6. Cardinality(ToFetch(s \cup {r})) = Cardinality(ToFetch(s) \cup mine)
  BY <1>1
<1>. QED BY <1>0, <1>2, <1>3, <1>4, <1>5, <1>6

LEMMA RoomCounts ==
    ASSUME NEW n, RoomForElos(n),
           \A r \in InFlightAt(RatingLabels) : Len(loc[r].todo) \in 0..MaxElos
    PROVE  lastElo + n + Cardinality(ToFetch(InFlightAt(RatingLabels))) <= MaxElos
<1>. DEFINE all == InFlightAt(RatingLabels)
            S(f) == {k \in Nat : \A s \in SUBSET all : Cardinality(s) = k =>
                                     f[s] = Cardinality(ToFetch(s))}
<1>a. all \in SUBSET Requests
  BY DEF InFlightAt
<1>b. IsFiniteSet(all) /\ Cardinality(all) \in Nat
  BY <1>a, CountedRequests
<1>0. ASSUME NEW s \in SUBSET all PROVE IsFiniteSet(s) /\ Cardinality(s) \in 0..Cardinality(all)
  <2>. HIDE DEF all
  <2>. QED BY <1>b, FS_Subset, FS_CardinalityType
<1>1. \E f : FetchSums(all, f)
  <2>. HIDE DEF all
  <2>1. PICK f : PartlyFetchSums(all, Cardinality(all), f)
    BY <1>b, FetchSumsUpTo
  <2>2. {t \in SUBSET all : Cardinality(t) <= Cardinality(all)} = SUBSET all
    BY <1>0
  <2>3. FetchSums(all, f)
    BY <2>1, <2>2 DEF PartlyFetchSums, FetchSums
  <2>. QED BY <2>3
<1>2. PICK f : FetchSums(all, f) /\ lastElo + n + f[all] <= MaxElos
  BY <1>1 DEF RoomForElos, FoldSet, MapThenFoldSet, FetchSums, AnyOf
<1>3. 0 \in S(f)
  <2>1. ASSUME NEW s \in SUBSET all, Cardinality(s) = 0 PROVE f[s] = Cardinality(ToFetch(s))
    <3>1. s = {}
      BY <1>0, <2>1, FS_EmptySet
    <3>2. ToFetch(s) = {} /\ f[s] = 0
      BY <1>2, <3>1 DEF ToFetch, FetchSums
    <3>. QED BY <3>2, FS_EmptySet
  <2>. QED BY <2>1
<1>4. ASSUME NEW k \in Nat, k \in S(f) PROVE k + 1 \in S(f)
  <2>1. ASSUME NEW s \in SUBSET all, Cardinality(s) = k + 1 PROVE f[s] = Cardinality(ToFetch(s))
    <3>1. s # {}
      BY <2>1, FS_EmptySet
    <3>2. AnyOf(s) \in s /\ Cardinality(s \ {AnyOf(s)}) = k
      BY <1>0, <2>1, <3>1, FewerIsSmaller
    <3>3. f[s \ {AnyOf(s)}] = Cardinality(ToFetch(s \ {AnyOf(s)}))
      BY <1>4, <3>2
    <3>4. f[s] = f[s \ {AnyOf(s)}] + Len(loc[AnyOf(s)].todo)
      BY <1>2, <3>1 DEF FetchSums
    <3>5. (s \ {AnyOf(s)}) \cup {AnyOf(s)} = s /\ s \ {AnyOf(s)} \in SUBSET Requests
      BY <1>a, <3>2
    <3>6. AnyOf(s) \in Requests /\ Len(loc[AnyOf(s)].todo) \in 0..MaxElos
      BY <1>a, <3>2
    <3>7. Cardinality(ToFetch((s \ {AnyOf(s)}) \cup {AnyOf(s)}))
              = Cardinality(ToFetch(s \ {AnyOf(s)})) + Len(loc[AnyOf(s)].todo)
      BY <3>5, <3>6, ToFetchGrows
    <3>. QED BY <3>3, <3>4, <3>5, <3>7
  <2>. QED BY <2>1
<1>5. Nat \subseteq S(f)
  <2>. HIDE DEF S
  <2>. QED BY <1>3, <1>4, Induction
<1>6. f[all] = Cardinality(ToFetch(all))
  BY <1>b, <1>5
<1>. QED BY <1>2, <1>6

\* What a statement does to the rows that may still be made.
Pays(r) ==
    /\ lastElo' = lastElo /\ NeedsOf(pc'[r], loc'[r]) <= NeedsOf(pc[r], loc[r])
    /\ pc'[r] \in RatingLabels => pc[r] \in RatingLabels /\ Len(loc'[r].todo) <= Len(loc[r].todo)

LEMMA ShapeNeeds ==
    ASSUME NEW label, NEW l, Shape(label, l)
    PROVE  /\ l \in RatingLoc /\ l.todo \in Seq(Players) /\ Len(l.todo) \in Nat
           /\ label \in Fetching => Len(l.todo) >= 1
           /\ NeedsOf(label, l) \in Nat
<1>1. l \in RatingLoc /\ l.todo \in Seq(Players)
  BY DEF Shape, RatingLoc
<1>2. label \in Fetching => Len(l.todo) >= 1
  BY <1>1 DEF Shape
<1>. QED BY <1>1, <1>2 DEF NeedsOf, Fetching

LEMMA TodoIsSeq ==
    ASSUME RatingInv, NEW r \in Requests, pc[r] \in RatingLabels
    PROVE  /\ loc[r] \in RatingLoc /\ loc[r].todo \in Seq(Players) /\ Len(loc[r].todo) \in Nat
           /\ pc[r] \in Fetching => Len(loc[r].todo) >= 1
           /\ NeedsOf(pc[r], loc[r]) \in Nat
BY ShapeNeeds DEF RatingInv, RatingRequests

LEMMA FetchedPays ==
    ASSUME FlightOK, RatingInv, NEW r \in Requests, pc[r] \in {"fetch", "linkElo"},
           NEW e, NEW elo, Fetched(r, e, elo), lastElo' = lastElo
    PROVE  Pays(r)
<1>1. /\ pc[r] \in RatingLabels /\ pc[r] \in Fetching
      /\ loc[r] \in RatingLoc /\ loc[r].todo \in Seq(Players) /\ Len(loc[r].todo) >= 1
      /\ Len(loc[r].todo) \in Nat
  BY TodoIsSeq DEF RatingLabels, Fetching
<1>2. NeedsOf(pc[r], loc[r]) \in Nat /\ NeedsOf(pc[r], loc[r]) >= Len(loc[r].todo) - 1
  BY <1>1, TodoIsSeq DEF NeedsOf
<1>3. CASE pc'[r] = "idle"
  BY <1>2, <1>3 DEF Pays, NeedsOf, RatingLabels
<1>4. ASSUME NEW to \in {"fetch", "save"}, NEW x, pc'[r] = to, loc'[r] = x,
             x = WithRow(loc[r], e, elo)
      PROVE  Pays(r)
  <2>1. x.todo = Tail(loc[r].todo)
    BY <1>1, <1>4 DEF WithRow, RatingLoc
  <2>2. Len(x.todo) = Len(loc[r].todo) - 1
    BY <1>1, <2>1
  <2>. QED BY <1>1, <1>2, <1>4, <2>2 DEF Pays, NeedsOf, RatingLabels
<1>. QED BY <1>3, <1>4, FetchedMoves

LEMMA StatementPays ==
    ASSUME FlightOK, RatingInv, NEW r \in Requests,
           Fetch(r) \/ LinkElo(r) \/ Save(r) \/ Mark(r) \/ StopRating(r)
    PROVE  Pays(r) /\ \A q \in Requests \ {r} : RatingRests(q)
<1>0. /\ pc[r] \in RatingLabels /\ lastElo' = lastElo
      /\ \A to : Proceed(r, to) => pc'[r] = to /\ loc'[r] = loc[r]
      /\ Done(r) => pc'[r] = "idle"
  BY GoesTo DEF Fetch, LinkElo, Save, Mark, StopRating, RatingLabels, ratingsVars, Proceed, Done
<1>1. Len(loc[r].todo) \in Nat /\ NeedsOf(pc[r], loc[r]) \in Nat
  BY <1>0, TodoIsSeq
<1>2. ASSUME NEW to \in RatingLabels \ {"linkElo"}, pc[r] # "linkElo", pc'[r] = to,
             loc'[r].todo = loc[r].todo
      PROVE  Pays(r)
  BY <1>0, <1>1, <1>2 DEF Pays, NeedsOf
<1>3. pc'[r] = "idle" => Pays(r)
  BY <1>0, <1>1 DEF Pays, NeedsOf, RatingLabels
<1>4. CASE Fetch(r)
  <2>1. ASSUME NEW e, NEW elo, Fetched(r, e, elo)
        PROVE  Pays(r) /\ \A q \in Requests \ {r} : RatingRests(q)
    BY <1>0, <1>4, <2>1, FetchedPays, FetchedRests DEF Fetch
  <2>2. ASSUME Proceed(r, "insertElo")
        PROVE  Pays(r) /\ \A q \in Requests \ {r} : RatingRests(q)
    BY <1>0, <1>2, <1>4, <2>2, OthersRest DEF Fetch, Proceed, RatingLabels
  <2>. QED BY <1>4, <2>1, <2>2 DEF Fetch
<1>5. CASE LinkElo(r)
  BY <1>0, <1>5, FetchedPays, FetchedRests DEF LinkElo
<1>6. CASE Save(r)
  BY <1>0, <1>2, <1>6, OthersRest DEF Save, Proceed, RatingLabels
<1>7. CASE Mark(r)
  <2>1. CASE Done(r)
    BY <1>0, <1>3, <2>1, OthersRest DEF Done
  <2>2. CASE Goto(r, "save", [loc[r] EXCEPT !.at = @ + 1])
    <3>1. loc[r] \in RatingLoc
      BY <1>0, TodoIsSeq
    <3>2. [loc[r] EXCEPT !.at = @ + 1].todo = loc[r].todo
      BY <3>1 DEF RatingLoc
    <3>3. pc'[r] = "save" /\ loc'[r].todo = loc[r].todo
      BY <2>2, <3>2, GoesTo
    <3>. QED BY <1>2, <1>7, <2>2, <3>3, OthersRest DEF Mark, RatingLabels
  <2>. QED BY <1>7, <2>1, <2>2 DEF Mark
<1>8. CASE StopRating(r)
  BY <1>0, <1>3, <1>8, OthersRest DEF StopRating, Drop, FlightOK, PcOK
<1>. QED BY <1>4, <1>5, <1>6, <1>7, <1>8

\* InsertElo pays a debt by making the row.
LEMMA InsertPays ==
    ASSUME FlightOK, RatingInv, NEW r \in Requests, InsertElo(r)
    PROVE  /\ lastElo' = lastElo + 1 /\ \A q \in Requests \ {r} : RatingRests(q)
           /\ pc[r] \in RatingLabels /\ loc'[r].todo = loc[r].todo
           /\ Len(loc[r].todo) \in Nat /\ Len(loc[r].todo) >= 1
           /\ NeedsOf(pc[r], loc[r]) = Len(loc[r].todo)
           /\ NeedsOf(pc'[r], loc'[r]) = Len(loc[r].todo) - 1
<1>1. pc[r] = "insertElo" /\ pc[r] \in RatingLabels /\ pc[r] \in Fetching
  BY DEF InsertElo, RatingLabels, Fetching
<1>2. loc[r] \in RatingLoc /\ Len(loc[r].todo) \in Nat /\ Len(loc[r].todo) >= 1
  BY <1>1, TodoIsSeq
<1>3. PICK x : x = [loc[r] EXCEPT !.fresh = lastElo + 1]
  OBVIOUS
<1>4. Goto(r, "linkElo", x) /\ lastElo' = lastElo + 1
  BY <1>3 DEF InsertElo
<1>5. pc'[r] = "linkElo" /\ loc'[r] = x
  BY <1>4, GoesTo
<1>6. x.todo = loc[r].todo
  BY <1>2, <1>3 DEF RatingLoc
<1>7. \A q \in Requests \ {r} : RatingRests(q)
  BY <1>4, OthersRest
<1>. QED BY <1>1, <1>2, <1>4, <1>5, <1>6, <1>7 DEF NeedsOf, RatingLabels

\* A call begins where there is room for all the rows it may need.
LEMMA CallOwes ==
    ASSUME FlightOK, RatingInv, NEW r \in Requests, BeginRatingCall(r)
    PROVE  \E l \in RatingLoc : /\ RoomForElos(Len(l.todo)) /\ Len(l.todo) \in Nat
                                /\ pc[r] = "idle" /\ pc'[r] = "fetch" /\ loc'[r] = l
                                /\ lastElo' = lastElo /\ games' = games
                                /\ wins' = wins /\ loses' = loses
                                /\ \A q \in Requests \ {r} : RatingRests(q)
<1>0. ASSUME NEW l \in RatingLoc, BeginRating(r, l)
      PROVE  /\ RoomForElos(Len(l.todo)) /\ Len(l.todo) \in Nat
             /\ pc[r] = "idle" /\ pc'[r] = "fetch" /\ loc'[r] = l
             /\ lastElo' = lastElo /\ games' = games /\ wins' = wins /\ loses' = loses
             /\ \A q \in Requests \ {r} : RatingRests(q)
  <2>1. Len(l.todo) \in Nat
    BY DEF RatingLoc
  <2>. QED BY <1>0, <2>1, GoesTo, OthersRest DEF BeginRating, Start
<1>1. \E l \in RatingLoc : BeginRating(r, l)
  <2>0. RatingLocals \in LooseLocals
    BY DEF RatingLocals, LooseLocals
  <2>1. ASSUME NEW g \in Games, CompleteGame(r, g) PROVE \E l \in RatingLoc : BeginRating(r, l)
    <3>1. PICK l :
             /\ l = [RatingLocals EXCEPT !.game = g, !.scope = GameOf[g].scope,
                                         !.todo = GameOf[g].winners \o GameOf[g].losers]
             /\ BeginRating(r, l)
      BY <2>1 DEF CompleteGame
    <3>2. /\ GameOf[g].scope \in Scopes
          /\ GameOf[g].winners \o GameOf[g].losers \in Seq(Players)
      BY RatingsAssumption, ConcatProperties
    <3>3. PICK s \in Scopes, t \in Seq(Players) :
             l = [RatingLocals EXCEPT !.game = g, !.scope = s, !.todo = t]
      BY <3>1, <3>2
    <3>4. l \in LooseLocals /\ l.scope = s
      BY <2>0, <3>3 DEF LooseLocals
    <3>5. l \in RatingLoc
      BY <3>4 DEF LooseLocals, RatingLoc
    <3>. QED BY <3>1, <3>5
  <2>2. ASSUME NEW p \in Players, SeatPlayer(r, p) PROVE \E l \in RatingLoc : BeginRating(r, l)
    <3>1. PICK l : /\ l = [RatingLocals EXCEPT !.scope = "internal", !.todo = <<p>>]
                   /\ BeginRating(r, l)
      BY <2>2 DEF SeatPlayer
    <3>a. "internal" \in Scopes /\ <<p>> \in Seq(Players)
      BY DEF Scopes
    <3>2. PICK s \in Scopes, t \in Seq(Players) :
             l = [RatingLocals EXCEPT !.scope = s, !.todo = t]
      BY <3>1, <3>a
    <3>3. l \in LooseLocals /\ l.scope = s
      BY <2>0, <3>2 DEF LooseLocals
    <3>4. l \in RatingLoc
      BY <3>3 DEF LooseLocals, RatingLoc
    <3>. QED BY <3>1, <3>4
  <2>. QED BY <2>1, <2>2 DEF BeginRatingCall
<1>. QED BY <1>0, <1>1

LEMMA RestingNeeds ==
    ASSUME NEW q \in Requests, RatingRests(q)
    PROVE  NeedsOf(pc'[q], loc'[q]) = NeedsOf(pc[q], loc[q])
BY DEF RatingRests, Stays, NeedsOf

LEMMA EloRoomInit == Init => EloRoom
<1>. SUFFICES ASSUME Init PROVE EloRoom
  OBVIOUS
<1>1. lastElo = 0 /\ \A q \in Requests : pc[q] = "idle"
  BY DEF Init, FlightInit, RatingsInit
<1>2. Debts = {}
  BY <1>1 DEF Debts, NeedsOf, RatingLabels
<1>3. Cardinality(Debts) = 0
  BY <1>2, FS_EmptySet
<1>. QED BY <1>1, <1>3, RatingsAssumption DEF EloRoom, RatingLabels

LEMMA EloRoomStep ==
    ASSUME FlightOK, OthersOK, RatingInv, EloRoom, [Next]_vars
    PROVE  EloRoom'
<1>. DEFINE All == Requests \X (1..MaxElos)
<1>0. MaxElos \in Nat /\ lastElo \in Nat
  BY RatingsAssumption DEF RatingInv, RatingTables
<1>d. /\ Debts \in SUBSET All /\ Debts' \in SUBSET All
      /\ IsFiniteSet(Debts) /\ Cardinality(Debts) \in Nat
      /\ IsFiniteSet(Debts') /\ Cardinality(Debts') \in Nat
      /\ Debts' \subseteq Debts => Cardinality(Debts') <= Cardinality(Debts)
  <2>1. Debts \in SUBSET All /\ Debts' \in SUBSET All
    BY DEF Debts
  <2>. QED BY <2>1, DebtsCounted
<1>n. ASSUME NEW d \in All
      PROVE  /\ d[1] \in Requests /\ d[2] \in 1..MaxElos
             /\ d \in Debts <=> d[2] <= NeedsOf(pc[d[1]], loc[d[1]])
             /\ d \in Debts' <=> d[2] <= NeedsOf(pc'[d[1]], loc'[d[1]])
  BY DEF Debts
<1>m. ASSUME NEW q \in Requests
      PROVE  /\ NeedsOf(pc[q], loc[q]) \in Nat
             /\ pc[q] \in RatingLabels => Len(loc[q].todo) \in 0..MaxElos
  <2>1. CASE pc[q] \in RatingLabels
    BY <1>0, <2>1, TodoIsSeq DEF EloRoom
  <2>2. CASE pc[q] \notin RatingLabels
    BY <2>2 DEF NeedsOf
  <2>. QED BY <2>1, <2>2
<1>f. RatingInv'
  BY RatingsStep
<1>g. lastElo' \in Nat
  BY <1>f DEF RatingInv, RatingTables
<1>h. ASSUME NEW q \in Requests PROVE NeedsOf(pc'[q], loc'[q]) \in Nat
  <2>1. CASE pc'[q] \in RatingLabels
    BY <1>f, <2>1, ShapeNeeds DEF RatingInv, RatingRequests
  <2>2. CASE pc'[q] \notin RatingLabels
    BY <2>2 DEF NeedsOf
  <2>. QED BY <2>1, <2>2
<1>1. CASE (\A q \in Requests : RatingRests(q)) /\ lastElo' = lastElo
  <2>1. Debts' \subseteq Debts
    BY <1>1, <1>d, <1>n, RestingNeeds
  <2>2. \A q \in Requests : pc'[q] \in RatingLabels => Len(loc'[q].todo) <= MaxElos
    BY <1>1 DEF RatingRests, Stays, EloRoom
  <2>. QED BY <1>0, <1>1, <1>d, <2>1, <2>2 DEF EloRoom
<1>2. ASSUME NEW r \in Requests, Pays(r), \A q \in Requests \ {r} : RatingRests(q) PROVE EloRoom'
  <2>0. ASSUME NEW q \in Requests PROVE NeedsOf(pc'[q], loc'[q]) <= NeedsOf(pc[q], loc[q])
    BY <1>2, <1>m, RestingNeeds DEF Pays
  <2>1. Debts' \subseteq Debts
    <3>1. ASSUME NEW d \in Debts' PROVE d \in Debts
      <4>1. d \in All /\ d[1] \in Requests /\ d[2] \in 1..MaxElos
        BY <1>d, <1>n
      <4>2. d[2] <= NeedsOf(pc'[d[1]], loc'[d[1]])
        BY <1>n, <4>1
      <4>3. PICK n \in Nat, m \in Nat :
               n = NeedsOf(pc'[d[1]], loc'[d[1]]) /\ m = NeedsOf(pc[d[1]], loc[d[1]])
        BY <1>h, <1>m, <4>1
      <4>4. d[2] <= m
        BY <1>0, <2>0, <4>1, <4>2, <4>3
      <4>. QED BY <1>n, <4>1, <4>3, <4>4
    <3>. QED BY <3>1
  <2>2. \A q \in Requests : pc'[q] \in RatingLabels => Len(loc'[q].todo) <= MaxElos
    BY <1>0, <1>2, <1>m DEF RatingRests, Stays, EloRoom, Pays
  <2>. QED BY <1>0, <1>2, <1>d, <2>1, <2>2 DEF EloRoom, Pays
<1>3. ASSUME NEW r \in Requests, InsertElo(r) PROVE EloRoom'
  <2>1. PICK n \in Nat : n = Len(loc[r].todo)
    BY <1>3, InsertPays
  <2>2. /\ lastElo' = lastElo + 1 /\ \A q \in Requests \ {r} : RatingRests(q)
        /\ pc[r] \in RatingLabels /\ loc'[r].todo = loc[r].todo /\ n >= 1
        /\ NeedsOf(pc[r], loc[r]) = n /\ NeedsOf(pc'[r], loc'[r]) = n - 1
    BY <1>3, <2>1, InsertPays
  <2>3. n <= MaxElos
    BY <2>1, <2>2 DEF EloRoom
  <2>4. <<r, n>> \in All /\ <<r, n>> \in Debts
    <3>1. <<r, n>> \in All
      BY <1>0, <2>2, <2>3
    <3>. QED BY <1>n, <2>2, <3>1
  <2>5. Debts' \subseteq Debts \ {<<r, n>>}
    <3>1. ASSUME NEW d \in Debts' PROVE d \in Debts /\ d # <<r, n>>
      <4>1. /\ d \in All /\ d[1] \in Requests /\ d[2] \in 1..MaxElos
            /\ d[2] <= NeedsOf(pc'[d[1]], loc'[d[1]])
        BY <1>d, <1>n
      <4>2. CASE d[1] = r
        <5>1. d[2] <= n - 1 /\ d[2] \in Int
          BY <2>2, <4>1, <4>2
        <5>2. d[2] <= n /\ d[2] # n
          BY <5>1
        <5>. QED BY <1>n, <2>2, <4>1, <4>2, <5>2
      <4>3. CASE d[1] # r
        BY <1>n, <2>2, <4>1, <4>3, RestingNeeds
      <4>. QED BY <4>2, <4>3
    <3>. QED BY <3>1
  <2>6. Cardinality(Debts') <= Cardinality(Debts) - 1
    <3>1. /\ IsFiniteSet(Debts \ {<<r, n>>})
          /\ Cardinality(Debts \ {<<r, n>>}) = Cardinality(Debts) - 1
      BY <1>d, <2>4, FS_RemoveElement
    <3>2. Cardinality(Debts') <= Cardinality(Debts \ {<<r, n>>})
      BY <2>5, <3>1, FS_Subset
    <3>. QED BY <1>d, <3>1, <3>2
  <2>7. \A q \in Requests : pc'[q] \in RatingLabels => Len(loc'[q].todo) <= MaxElos
    BY <2>2 DEF RatingRests, Stays, EloRoom
  <2>8. lastElo' + Cardinality(Debts') <= MaxElos
    BY <1>0, <1>d, <2>2, <2>6 DEF EloRoom
  <2>. QED BY <2>7, <2>8 DEF EloRoom
<1>4. ASSUME NEW r \in Requests, BeginRatingCall(r) PROVE EloRoom'
  <2>1. PICK l \in RatingLoc :
           /\ RoomForElos(Len(l.todo)) /\ Len(l.todo) \in Nat
           /\ pc[r] = "idle" /\ pc'[r] = "fetch" /\ loc'[r] = l /\ lastElo' = lastElo
           /\ \A q \in Requests \ {r} : RatingRests(q)
    BY <1>4, CallOwes
  <2>2. PICK n \in Nat : n = Len(l.todo)
    BY <2>1
  <2>. DEFINE Fetches == ToFetch(InFlightAt(RatingLabels))
              mine == {r} \X (1..n)
  <2>3. lastElo + n + Cardinality(Fetches) <= MaxElos
    BY <1>m, <2>1, <2>2, RoomCounts DEF InFlightAt
  <2>4. Fetches \in SUBSET All /\ IsFiniteSet(Fetches) /\ Cardinality(Fetches) \in Nat
    <3>1. Fetches \in SUBSET All
      BY DEF ToFetch, InFlightAt
    <3>. QED BY <3>1, DebtsCounted
  <2>5. NeedsOf(pc'[r], loc'[r]) = n
    BY <2>1, <2>2 DEF NeedsOf, RatingLabels
  <2>6. Debts' \subseteq Fetches \cup mine
    <3>1. ASSUME NEW d \in Debts' PROVE d \in Fetches \cup mine
      <4>1. /\ d \in All /\ d[1] \in Requests /\ d[2] \in 1..MaxElos
            /\ d[2] <= NeedsOf(pc'[d[1]], loc'[d[1]])
        BY <1>d, <1>n
      <4>2. CASE d[1] = r
        BY <2>5, <4>1, <4>2
      <4>3. CASE d[1] # r
        <5>1. d[2] <= NeedsOf(pc[d[1]], loc[d[1]])
          BY <2>1, <4>1, <4>3, RestingNeeds
        <5>2. pc[d[1]] \in RatingLabels /\ d[2] <= Len(loc[d[1]].todo)
          BY <1>m, <4>1, <5>1 DEF NeedsOf
        <5>3. d[1] \in InFlightAt(RatingLabels)
          BY <4>1, <5>2 DEF InFlightAt
        <5>4. d = <<d[1], d[2]>>
          BY <4>1
        <5>. QED BY <4>1, <5>2, <5>3, <5>4 DEF ToFetch
      <4>. QED BY <4>2, <4>3
    <3>. QED BY <3>1
  <2>7. IsFiniteSet(mine) /\ Cardinality(mine) = n
    BY PairsCounted
  <2>8. Cardinality(Debts') <= Cardinality(Fetches) + n
    <3>. HIDE DEF mine, Fetches
    <3>1. /\ IsFiniteSet(Fetches \cup mine)
          /\ Cardinality(Fetches \cup mine)
                 = Cardinality(Fetches) + Cardinality(mine) - Cardinality(Fetches \cap mine)
      BY <2>4, <2>7, FS_Union
    <3>2. Cardinality(Fetches \cap mine) \in Nat
      BY <2>4, FS_Subset, FS_CardinalityType
    <3>3. Cardinality(Debts') <= Cardinality(Fetches \cup mine)
      BY <2>6, <3>1, FS_Subset
    <3>4. Cardinality(Fetches \cup mine) \in Nat
      BY <3>1, FS_CardinalityType
    <3>. QED BY <1>d, <2>4, <2>7, <3>1, <3>2, <3>3, <3>4
  <2>9. \A q \in Requests : pc'[q] \in RatingLabels => Len(loc'[q].todo) <= MaxElos
    <3>1. n <= MaxElos
      BY <1>0, <2>3, <2>4
    <3>. QED BY <2>1, <2>2, <3>1 DEF RatingRests, Stays, EloRoom
  <2>10. lastElo' + Cardinality(Debts') <= MaxElos
    <3>. HIDE DEF Fetches
    <3>. QED BY <1>0, <1>d, <2>1, <2>3, <2>4, <2>8
  <2>. QED BY <2>9, <2>10 DEF EloRoom
<1>5. UNCHANGED ratingsVars \/ (\E g \in Games : DeleteGame(g)) => lastElo' = lastElo
  BY DEF ratingsVars, DeleteGame
<1>. QED BY <1>1, <1>2, <1>3, <1>4, <1>5, RatingNext, StatementPays DEF RatingMove, RatingStep

\* A mark is of a game that is there.
MarksOK == \A m \in wins \cup loses : m[2] \in games

LEMMA MarksStep ==
    ASSUME FlightOK, OthersOK, RatingInv, MarksOK, [Next]_vars
    PROVE  MarksOK'
<1>1. CASE UNCHANGED <<games, wins, loses>>
  BY <1>1 DEF MarksOK
<1>2. CASE \E g \in Games : DeleteGame(g)
  BY <1>2 DEF MarksOK, DeleteGame
<1>3. ASSUME NEW r \in Requests, Mark(r) PROVE MarksOK'
  <2>. PICK e, g : e = loc[r].rows[loc[r].at].elo /\ g = loc[r].game
    OBVIOUS
  <2>1. /\ games' = games /\ wins' \cup loses' \subseteq wins \cup loses \cup {<<e, g>>}
        /\ g \notin games => UNCHANGED <<wins, loses>>
    BY <1>3 DEF Mark
  <2>. QED BY <2>1 DEF MarksOK
<1>4. ASSUME NEW r \in Requests, RatingMove(r), ~Mark(r) PROVE UNCHANGED <<games, wins, loses>>
  BY <1>4, CallOwes
  DEF RatingMove, RatingStep, Fetch, InsertElo, LinkElo, Save, StopRating, ratingsVars
<1>5. UNCHANGED ratingsVars => UNCHANGED <<games, wins, loses>>
  BY DEF ratingsVars
<1>. QED BY <1>1, <1>2, <1>3, <1>4, <1>5, RatingNext

LEMMA RatingsTyped ==
    ASSUME RatingInv, EloRoom, MarksOK
    PROVE  RatingsTypeOK
<1>1. RatingTables
  BY DEF RatingInv
<1>2. Cardinality(Debts) \in Nat
  BY DebtsCounted DEF Debts
<1>3. lastElo \in 0..MaxElos
  BY <1>1, <1>2, RatingsAssumption DEF RatingTables, EloRoom
<1>4. wins \cup loses \subseteq (DOMAIN elos) \X games
  BY <1>1 DEF RatingTables, MarksOK
<1>. QED BY <1>1, <1>3, <1>4 DEF RatingTables, RatingsTypeOK, Keys

-----------------------------------------------------------------------------
\* Everything together.

MembersInv ==
    /\ ClubsOK /\ PresidentInv /\ FoundedInv /\ AdminsInv /\ ClaimedInv /\ PlacesInv
    /\ NamesInv /\ RoomInv

LEMMA MembersInit == Init => MembersInv
BY ClubsInit, AdminsInit, RowsInit, PlacesInit, NamesInit, RoomInit DEF MembersInv, RowsInv

LEMMA MembersStep ==
    ASSUME FlightOK, OthersOK, MembersInv, [Next]_vars
    PROVE  MembersInv'
<1>1. ClubsOK' /\ PresidentInv' /\ FoundedInv' /\ AdminsInv'
  BY ClubsStep, PresidentStep, FoundedStep, AdminsStep DEF MembersInv
<1>2. KeysOK /\ GuestInv
  BY DEF MembersInv, AdminsInv
<1>3. ClaimedInv'
  BY <1>2, ClaimedStep DEF MembersInv
<1>4. PlacesInv'
  BY <1>2, CountStep, DummiesStep, RemovalStep DEF MembersInv, PlacesInv
<1>5. NamesInv'
  BY <1>4, NamesStep DEF MembersInv, PlacesInv
<1>6. RoomInv'
  BY RoomStep DEF MembersInv
<1>. QED BY <1>1, <1>3, <1>4, <1>5, <1>6 DEF MembersInv

TypedInv ==
    /\ OthersOK /\ DropsOK /\ GivenOut /\ SupplyOK /\ MembersInv
    /\ LogosOK /\ LogoTypesInv /\ RatingInv /\ EloRoom /\ MarksOK

LEMMA TypedInit == Init => TypedInv
<1>1. Init => LogosOK
  BY DEF Init, FlightInit, LogoInit, LogosOK, LogoOK, LogoLabels, Uploading, Removing
<1>2. Init => MarksOK
  BY DEF Init, RatingsInit, MarksOK
<1>. QED BY <1>1, <1>2, OthersInit, DropsInit, GivenOutInit, SupplyInit, MembersInit, LogoTypesInit,
        RatingsInitially, EloRoomInit DEF TypedInv

LEMMA TypedStep ==
    ASSUME FlightOK, TablesOK, TypedInv, [Next]_vars
    PROVE  TypedInv'
<1>1. OthersOK' /\ DropsOK' /\ GivenOut' /\ SupplyOK' /\ MembersInv'
  BY OthersStep, DropsStep, GivenOutStep, SupplyHolds, MembersStep DEF TypedInv
<1>2. LogosOK' /\ LogoTypesInv' /\ RatingInv' /\ EloRoom' /\ MarksOK'
  BY LogosOKStep, LogoTypesStep, RatingsStep, EloRoomStep, MarksStep DEF TypedInv
<1>. QED BY <1>1, <1>2 DEF TypedInv

\* Whatever the requests do and wherever they stop, every row is of its table's type
\* and names rows that are there or ids that were given out, a mark is of a game that
\* is there, no request is at a statement that is not its own, and no id runs past its
\* bound, though only the beginning of a request makes sure of that
\* (src/server/src/domain/auth.rs, clubs.rs, games.rs, src/server/src/matchmaking.rs).
THEOREM EverythingIsTyped == Spec => []TypeOK
<1>1. Init => TypedInv
  BY TypedInit
<1>2. (FlightOK /\ TablesOK) /\ TypedInv /\ [Next]_vars => TypedInv'
  BY TypedStep
<1>3. (FlightOK /\ TablesOK) /\ TypedInv /\ MatchInv => TypeOK
  <2>. SUFFICES ASSUME FlightOK, TablesOK, TypedInv, MatchInv PROVE TypeOK
    OBVIOUS
  <2>1. asked \in Workloads /\ drops \in 0..MaxDrops
    BY DEF TypedInv, DropsOK
  <2>2. pc \in [Requests -> {"idle"} \cup AccountLabels \cup MembershipLabels \cup LogoLabels
                                \cup RatingLabels \cup SocialLabels]
    <3>1. Foreign \cup AccountLabels = {"idle"} \cup AccountLabels \cup MembershipLabels
                                           \cup LogoLabels \cup RatingLabels \cup SocialLabels
      BY DEF Foreign
    <3>. QED BY <3>1 DEF FlightOK, PcOK
  <2>3. AccountsTypeOK
    BY AccountsTyped DEF TypedInv
  <2>4. MembershipTypeOK
    BY MembershipTyped DEF TypedInv, MembersInv
  <2>5. LogosTypeOK /\ RatingsTypeOK /\ MatchTypeOK
    BY RatingsTyped DEF TypedInv, LogoTypesInv, MatchInv
  <2>. QED BY <2>1, <2>2, <2>3, <2>4, <2>5 DEF TypeOK
<1>. QED BY <1>1, <1>2, <1>3, TypesHold, MatchHolds, PTL DEF Spec
=============================================================================
