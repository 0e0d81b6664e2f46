--------------------------- MODULE DedicatedProofs ---------------------------
(***************************************************************************)
(* What is proved about Dedicated, for any rotations, any values of        *)
(* sv_mapRotationCurrent and any number of operations: the maps of a       *)
(* rotation that is not shuffled are played in their order, and each with  *)
(* its own gametype.                                                       *)
(***************************************************************************)
EXTENDS Dedicated, SequenceTheorems, FiniteSetTheorems, WellFoundedInduction, TLAPS

-----------------------------------------------------------------------------
(* Numbers.                                                                *)

\* Remainders of what is less than twice the divisor.
LEMMA Remainders ==
  ASSUME NEW a \in Nat, NEW b \in Nat \ {0}
  PROVE  /\ a < b => a % b = a
         /\ b <= a /\ a < 2 * b => a % b = a - b
  <1>1. a < b => a % b = a
    OBVIOUS
  <1>2. ASSUME b <= a, a < 2 * b PROVE a % b = a - b
    <2> DEFINE q == a \div b
               r == a % b
    <2>1. r \in 0 .. b - 1
      OBVIOUS
    <2>2. q \in Int
      OBVIOUS
    <2>3. a = b * q + r
      OBVIOUS
    <2> HIDE DEF q, r
    <2>4. q <= 0 => b * q <= 0
      BY <2>2
    <2>5. q >= 2 => b * q >= b * 2
      BY <2>2
    <2>6. q = 1
      BY <1>2, <2>1, <2>2, <2>3, <2>4, <2>5
    <2>7. r = a - b
      BY <2>1, <2>3, <2>6
    <2>8. QED
      BY <2>7 DEF r
  <1>3. QED
    BY <1>1, <1>2

\* Some numbers have a least one: their intervals from zero are finite sets,
\* of which one has no other inside.
LEMMA LeastExists ==
  ASSUME NEW S \in SUBSET Nat, S # {}
  PROVE  \E x \in S : \A y \in S : x <= y
  <1> DEFINE T == {0 .. x : x \in S}
  <1>1. T \subseteq FiniteSubsetsOf(Nat) /\ T # {}
    <2>1. ASSUME NEW x \in S PROVE 0 .. x \in FiniteSubsetsOf(Nat)
      <3>1. IsFiniteSet(0 .. x) /\ 0 .. x \subseteq Nat
        BY FS_Interval
      <3>2. QED
        BY <3>1 DEF FiniteSubsetsOf
    <2>2. QED
      BY <2>1
  <1>2. IsWellFoundedOn(StrictSubsetOrdering(Nat), FiniteSubsetsOf(Nat))
    BY FS_StrictSubsetOrderingWellFounded
  <1>3. PICK t \in T : \A u \in T : ~(<<u, t>> \in StrictSubsetOrdering(Nat))
    BY <1>1, <1>2, WFMin
  <1>4. PICK x \in S : t = 0 .. x
    OBVIOUS
  <1>5. ASSUME NEW y \in S, y < x PROVE FALSE
    <2>1. 0 .. y \in T /\ 0 .. y \subseteq 0 .. x /\ 0 .. y # 0 .. x
          /\ 0 .. y \in SUBSET Nat /\ 0 .. x \in SUBSET Nat
      <3>1. x \in 0 .. x /\ x \notin 0 .. y
        BY <1>5
      <3>2. QED
        BY <1>5, <3>1
    <2>2. <<0 .. y, t>> \in StrictSubsetOrdering(Nat)
      BY <1>4, <2>1 DEF StrictSubsetOrdering
    <2>3. QED
      BY <1>3, <2>1, <2>2
  <1>6. \A y \in S : x <= y
    BY <1>5
  <1>7. QED
    BY <1>6

\* And bounded ones a greatest.
LEMMA GreatestExists ==
  ASSUME NEW b \in Nat, NEW S \in SUBSET (0 .. b), S # {}
  PROVE  \E x \in S : \A y \in S : x >= y
  <1> DEFINE T == {b - x : x \in S}
  <1>1. T \in SUBSET Nat /\ T # {}
    <2>1. \A x \in S : b - x \in Nat
      OBVIOUS
    <2>2. QED
      BY <2>1
  <1>2. PICK t \in T : \A u \in T : t <= u
    BY <1>1, LeastExists
  <1>3. PICK x \in S : t = b - x
    OBVIOUS
  <1>4. ASSUME NEW y \in S PROVE x >= y
    <2>1. b - x <= b - y
      BY <1>2, <1>3
    <2>2. QED
      BY <2>1
  <1>5. QED
    BY <1>4

\* The minimum is in the set, and none is less.
LEMMA MinIs ==
  ASSUME NEW S \in SUBSET Nat, S # {}
  PROVE  Min(S) \in S /\ \A y \in S : Min(S) <= y
  BY LeastExists DEF Min

\* A least element is the minimum.
LEMMA MinUnique ==
  ASSUME NEW S \in SUBSET Nat, NEW x \in S, \A y \in S : x <= y
  PROVE  Min(S) = x
  <1>1. Min(S) \in S /\ Min(S) <= x
    BY MinIs
  <1>2. x <= Min(S)
    BY <1>1
  <1> DEFINE m == Min(S)
  <1> HIDE DEF m
  <1>3. m \in Nat /\ m <= x /\ x <= m
    BY <1>1, <1>2 DEF m
  <1>4. m = x
    BY <1>3
  <1>5. QED
    BY <1>4 DEF m

\* The maximum of a bounded set is in it, and none is greater.
LEMMA MaxIs ==
  ASSUME NEW b \in Nat, NEW S \in SUBSET (0 .. b), S # {}
  PROVE  Max(S) \in S /\ \A y \in S : Max(S) >= y
  BY GreatestExists DEF Max

\* A greatest element is the maximum.
LEMMA MaxUnique ==
  ASSUME NEW b \in Nat, NEW S \in SUBSET (0 .. b), NEW x \in S, \A y \in S : x >= y
  PROVE  Max(S) = x
  <1>1. Max(S) \in S /\ Max(S) >= x
    BY MaxIs
  <1>2. x >= Max(S)
    BY <1>1
  <1> DEFINE m == Max(S)
  <1> HIDE DEF m
  <1>3. m \in 0 .. b /\ x \in 0 .. b /\ m >= x /\ x >= m
    BY <1>1, <1>2 DEF m
  <1>4. m = x
    BY <1>3
  <1>5. QED
    BY <1>4 DEF m
-----------------------------------------------------------------------------
(* The reading of a rotation.                                              *)

\* Where the calls of get_next_entry come to.
LEMMA Positions ==
  ASSUME NEW data \in Seq(Entry), data # <<>>,
         NEW i \in 0 .. Len(data) - 1, NEW k \in 0 .. Len(data) - 1
  PROVE  /\ i + k < Len(data) => Position(data, i, k) = i + k + 1
         /\ i + k >= Len(data) => Position(data, i, k) = i + k + 1 - Len(data)
         /\ Position(data, i, k) \in 1 .. Len(data)
  <1>1. Len(data) \in Nat \ {0}
    BY EmptySeq
  <1>2. i + k \in Nat /\ i + k < 2 * Len(data)
    BY <1>1
  <1>3. i + k < Len(data) => (i + k) % Len(data) = i + k
    BY <1>1, <1>2, Remainders
  <1>4. i + k >= Len(data) => (i + k) % Len(data) = i + k - Len(data)
    BY <1>1, <1>2, Remainders
  <1>5. QED
    BY <1>1, <1>3, <1>4 DEF Position

\* Where one call after another leaves the index.
LEMMA IndexFollows ==
  ASSUME NEW data \in Seq(Entry), data # <<>>,
         NEW i \in 0 .. Len(data) - 1, NEW c \in 1 .. Len(data)
  PROVE  /\ i + c < Len(data) => (i + c) % Len(data) = i + c
         /\ i + c >= Len(data) => (i + c) % Len(data) = i + c - Len(data)
         /\ (i + c) % Len(data) \in 0 .. Len(data) - 1
  <1>1. Len(data) \in Nat \ {0}
    BY EmptySeq
  <1>2. i + c \in Nat /\ i + c < 2 * Len(data)
    BY <1>1
  <1>3. i + c < Len(data) => (i + c) % Len(data) = i + c
    BY <1>1, <1>2, Remainders
  <1>4. i + c >= Len(data) => (i + c) % Len(data) = i + c - Len(data)
    BY <1>1, <1>2, Remainders
  <1>5. QED
    BY <1>1, <1>3, <1>4

\* The call that comes to a position.
CallTo(data, i, p) == IF p > i THEN p - 1 - i ELSE p - 1 - i + Len(data)

\* It is one of the calls, and it does come there.
LEMMA CallComes ==
  ASSUME NEW data \in Seq(Entry), data # <<>>,
         NEW i \in 0 .. Len(data) - 1, NEW p \in 1 .. Len(data)
  PROVE  /\ CallTo(data, i, p) \in 0 .. Len(data) - 1
         /\ Position(data, i, CallTo(data, i, p)) = p
  <1>1. Len(data) \in Nat \ {0}
    BY EmptySeq
  <1>2. CallTo(data, i, p) \in 0 .. Len(data) - 1
    BY <1>1 DEF CallTo
  <1> DEFINE k == CallTo(data, i, p)
  <1>3. \/ p > i /\ k = p - 1 - i
        \/ p <= i /\ k = p - 1 - i + Len(data)
    BY <1>1 DEF CallTo
  <1>4. /\ i + k < Len(data) => Position(data, i, k) = i + k + 1
        /\ i + k >= Len(data) => Position(data, i, k) = i + k + 1 - Len(data)
    BY <1>2, Positions
  <1> HIDE DEF k
  <1>5. Position(data, i, k) = p
    BY <1>1, <1>3, <1>4
  <1>6. QED
    BY <1>2, <1>5 DEF k

\* The calls that find a map: what the first of them is.
LEMMA CallsAre ==
  ASSUME NEW data \in Seq(Entry), data # <<>>, NEW i \in 0 .. Len(data) - 1
  PROVE  /\ Calls(data, i) \in 1 .. Len(data)
         /\ MapsFrom(data, i) = {} <=> MapsOf(data) = {}
         /\ MapsFrom(data, i) = {} => Calls(data, i) = Len(data)
         /\ MapsFrom(data, i) # {} =>
              /\ Calls(data, i) - 1 \in MapsFrom(data, i)
              /\ \A k \in MapsFrom(data, i) : Calls(data, i) - 1 <= k
  <1>1. Len(data) \in Nat \ {0} /\ DOMAIN data = 1 .. Len(data)
    BY EmptySeq, LenProperties
  <1>2. MapsFrom(data, i) \subseteq 0 .. Len(data) - 1
    BY DEF MapsFrom
  <1>3. ASSUME MapsFrom(data, i) # {}
        PROVE  /\ Calls(data, i) \in 1 .. Len(data)
               /\ Calls(data, i) - 1 \in MapsFrom(data, i)
               /\ \A k \in MapsFrom(data, i) : Calls(data, i) - 1 <= k
    <2> DEFINE m == Min(MapsFrom(data, i))
    <2>1. MapsFrom(data, i) \subseteq Nat
      BY <1>1, <1>2
    <2>2. m \in MapsFrom(data, i) /\ \A k \in MapsFrom(data, i) : m <= k
      BY <1>3, <2>1, MinIs
    <2>3. Calls(data, i) = m + 1
      BY <1>3 DEF Calls
    <2> HIDE DEF m
    <2>4. m \in 0 .. Len(data) - 1
      BY <1>2, <2>2
    <2>5. Calls(data, i) \in 1 .. Len(data) /\ Calls(data, i) - 1 = m
      BY <1>1, <2>3, <2>4
    <2>6. QED
      BY <2>2, <2>5
  <1>4. ASSUME MapsFrom(data, i) = {}
        PROVE  Calls(data, i) = Len(data) /\ Calls(data, i) \in 1 .. Len(data)
    BY <1>1, <1>4 DEF Calls
  <1>5. ASSUME NEW p \in MapsOf(data) PROVE MapsFrom(data, i) # {}
    <2>1. p \in 1 .. Len(data) /\ data[p].key = "map"
      BY <1>1 DEF MapsOf
    <2>2. CallTo(data, i, p) \in MapsFrom(data, i)
      BY <2>1, CallComes DEF MapsFrom, At
    <2>3. QED
      BY <2>2
  <1>6. ASSUME NEW k \in MapsFrom(data, i) PROVE Position(data, i, k) \in MapsOf(data)
    <2>1. Position(data, i, k) \in 1 .. Len(data)
      BY <1>2, Positions
    <2>2. QED
      BY <1>1, <2>1 DEF MapsFrom, MapsOf, At
  <1>7. QED
    BY <1>3, <1>4, <1>5, <1>6
\* apply_rotation comes to the next map from its index, whatever was left of
\* the rotation when it was called.
LEMMA ComesToNextMap ==
  ASSUME NEW data \in Seq(Entry), NEW i \in 0 .. Len(data) - 1, MapsOf(data) # {}
  PROVE  /\ Position(data, i, Calls(data, i) - 1) \in MapsOf(data)
         /\ Position(data, i, Calls(data, i) - 1) = NextMap(data, i)
  <1>1. Len(data) \in Nat \ {0} /\ DOMAIN data = 1 .. Len(data) /\ data # <<>>
    BY EmptySeq, LenProperties
  <1> DEFINE k == Calls(data, i) - 1
             p == Position(data, i, k)
             L == Len(data)
             after == {m \in MapsOf(data) : m > i}
  <1>2. k \in MapsFrom(data, i) /\ \A j \in MapsFrom(data, i) : k <= j
    BY <1>1, CallsAre
  <1>3. k \in 0 .. L - 1 /\ data[p].key = "map"
    BY <1>2 DEF MapsFrom, At
  <1> HIDE DEF k
  <1>4. /\ i + k < L => p = i + k + 1
        /\ i + k >= L => p = i + k + 1 - L
        /\ p \in 1 .. L
    BY <1>1, <1>3, Positions
  <1>5. p \in MapsOf(data)
    BY <1>1, <1>3, <1>4 DEF MapsOf
  <1> HIDE DEF p
  <1>6. ASSUME NEW m \in MapsOf(data) PROVE m \in 1 .. L /\ k <= CallTo(data, i, m)
    <2>1. m \in 1 .. L /\ data[m].key = "map"
      BY <1>1 DEF MapsOf
    <2>2. CallTo(data, i, m) \in MapsFrom(data, i)
      BY <1>1, <2>1, CallComes DEF MapsFrom, At
    <2>3. QED
      BY <1>2, <2>1, <2>2
  <1>7. CASE i + k < L
    <2>1. p \in after
      BY <1>1, <1>3, <1>4, <1>5, <1>7
    <2>2. ASSUME NEW m \in after PROVE p <= m
      BY <1>1, <1>3, <1>4, <1>6, <1>7 DEF CallTo
    <2>3. after \in SUBSET Nat
      BY <1>6
    <2>4. Min(after) = p
      BY <2>1, <2>2, <2>3, MinUnique
    <2>5. QED
      BY <1>5, <2>1, <2>4 DEF NextMap, p, k
  <1>8. CASE i + k >= L
    <2>1. ASSUME NEW m \in MapsOf(data) PROVE m <= i /\ p <= m
      BY <1>1, <1>3, <1>4, <1>6, <1>8 DEF CallTo
    <2>2. after = {}
      BY <1>1, <1>6, <2>1
    <2>3. MapsOf(data) \in SUBSET Nat
      BY <1>6
    <2>4. Min(MapsOf(data)) = p
      BY <1>5, <2>1, <2>3, MinUnique
    <2>5. QED
      BY <1>5, <2>2, <2>4 DEF NextMap, p, k
  <1>9. QED
    BY <1>1, <1>3, <1>7, <1>8 DEF k, p

\* From the end of the rotation on, the next map is the one from its start.
LEMMA NextFromEnd ==
  ASSUME NEW data \in Seq(Entry), NEW p \in 1 .. Len(data)
  PROVE  NextMap(data, p % Len(data)) = NextMap(data, p)
  <1>1. Len(data) \in Nat \ {0} /\ MapsOf(data) \subseteq 1 .. Len(data)
    BY LenProperties DEF MapsOf
  <1>2. CASE p < Len(data)
    <2>1. p % Len(data) = p
      BY <1>1, <1>2, Remainders
    <2>2. QED
      BY <2>1
  <1>3. CASE p = Len(data)
    <2>1. p % Len(data) = 0
      BY <1>1, <1>3, Remainders
    <2>2. {m \in MapsOf(data) : m > p} = {} /\ {m \in MapsOf(data) : m > 0} = MapsOf(data)
      BY <1>1, <1>3
    <2>3. QED
      BY <2>1, <2>2 DEF NextMap
  <1>4. QED
    BY <1>1, <1>2, <1>3
-----------------------------------------------------------------------------
(* The gametypes of a rotation.                                            *)

\* Between a position and the gametype entry before it is no other.
LEMMA GametypeBefore ==
  ASSUME NEW data \in Seq(Entry), NEW p \in 1 .. Len(data) + 1, NEW again \in BOOLEAN,
         NEW g \in 1 .. Len(data), g < p, data[g].key = "gametype",
         \A m \in 1 .. Len(data) : m < p /\ data[m].key = "gametype" => m <= g
  PROVE  GametypeAt(data, p, again) = data[g].value
  <1> DEFINE all == {m \in DOMAIN data : data[m].key = "gametype"}
             before == {m \in all : m < p}
  <1>1. Len(data) \in Nat /\ DOMAIN data = 1 .. Len(data)
    BY LenProperties
  <1>2. before \in SUBSET (0 .. Len(data)) /\ g \in before /\ \A m \in before : g >= m
    BY <1>1
  <1>3. Max(before) = g
    BY <1>1, <1>2, MaxUnique
  <1>4. QED
    BY <1>2, <1>3 DEF GametypeAt

\* Without one before it, the last one counts in the next round.
LEMMA GametypeRound ==
  ASSUME NEW data \in Seq(Entry), NEW p \in 1 .. Len(data) + 1,
         NEW g \in 1 .. Len(data), data[g].key = "gametype",
         \A m \in 1 .. Len(data) : data[m].key = "gametype" => p <= m /\ m <= g
  PROVE  GametypeAt(data, p, TRUE) = data[g].value
  <1> DEFINE all == {m \in DOMAIN data : data[m].key = "gametype"}
             before == {m \in all : m < p}
  <1>1. Len(data) \in Nat /\ DOMAIN data = 1 .. Len(data)
    BY LenProperties
  <1>2. all \in SUBSET (0 .. Len(data)) /\ g \in all /\ \A m \in all : g >= m
    BY <1>1
  <1>3. before = {}
    BY <1>1
  <1>4. Max(all) = g
    BY <1>1, <1>2, MaxUnique
  <1>5. QED
    BY <1>2, <1>3, <1>4 DEF GametypeAt

\* Two positions with the same gametype entries before them have one gametype.
LEMMA GametypeSame ==
  ASSUME NEW data \in Seq(Entry), NEW p \in Int, NEW q \in Int, NEW again \in BOOLEAN,
         \A m \in 1 .. Len(data) : data[m].key = "gametype" => (m < p <=> m < q)
  PROVE  GametypeAt(data, p, again) = GametypeAt(data, q, again)
  <1> DEFINE all == {m \in DOMAIN data : data[m].key = "gametype"}
  <1>1. Len(data) \in Nat /\ DOMAIN data = 1 .. Len(data)
    BY LenProperties
  <1>2. {m \in all : m < p} = {m \in all : m < q}
    BY <1>1
  <1>3. QED
    BY <1>2 DEF GametypeAt

\* A position behind all gametype entries has the gametype of one before all of
\* them, a round later.
LEMMA GametypeTurn ==
  ASSUME NEW data \in Seq(Entry), NEW p \in Int, NEW q \in Int, NEW again \in BOOLEAN,
         \A m \in 1 .. Len(data) : data[m].key = "gametype" => m < p /\ ~(m < q)
  PROVE  GametypeAt(data, p, again) = GametypeAt(data, q, TRUE)
  <1> DEFINE all == {m \in DOMAIN data : data[m].key = "gametype"}
  <1>1. Len(data) \in Nat /\ DOMAIN data = 1 .. Len(data)
    BY LenProperties
  <1>2. {m \in all : m < p} = all /\ {m \in all : m < q} = {}
    BY <1>1
  <1>3. QED
    BY <1>2 DEF GametypeAt

\* What apply_rotation has set when it stops after an entry: the gametype
\* before the entry that would be read next.
LEMMA GametypeRead ==
  ASSUME NEW data \in Seq(Entry), data # <<>>, NEW i \in 0 .. Len(data) - 1,
         NEW w \in BOOLEAN,
         OnTheWay(data, i) # {} \/ gametype = GametypeAt(data, i + 1, w)
  PROVE  GametypeAfter(data, i) =
           GametypeAt(data, Position(data, i, Calls(data, i) - 1) + 1,
                      w \/ i + Calls(data, i) - 1 >= Len(data))
  <1> DEFINE c == Calls(data, i)
             p == Position(data, i, c - 1)
             L == Len(data)
             again == w \/ i + c - 1 >= L
  <1>1. L \in Nat \ {0}
    BY EmptySeq
  <1>2. c \in 1 .. L
    BY CallsAre
  <1>3. OnTheWay(data, i) = {k \in 0 .. c - 1 : At(data, i, k).key = "gametype"}
    BY DEF OnTheWay
  <1> HIDE DEF c
  <1>4. c - 1 \in 0 .. L - 1 /\ i + (c - 1) = i + c - 1
    BY <1>1, <1>2
  <1>5. /\ i + c - 1 < L => p = i + c
        /\ i + c - 1 >= L => p = i + c - L
        /\ p \in 1 .. L
    BY <1>1, <1>2, <1>4, Positions
  <1> HIDE DEF p
  <1>6. ASSUME NEW m \in 1 .. L, data[m].key = "gametype", CallTo(data, i, m) <= c - 1
        PROVE  CallTo(data, i, m) \in OnTheWay(data, i)
    <2>1. CallTo(data, i, m) \in 0 .. L - 1 /\ At(data, i, CallTo(data, i, m)) = data[m]
      BY CallComes DEF At
    <2>2. CallTo(data, i, m) \in 0 .. c - 1
      BY <1>1, <1>2, <1>6, <2>1
    <2>3. QED
      BY <1>3, <1>6, <2>1, <2>2
  <1>7. CASE OnTheWay(data, i) = {}
    <2>1. ASSUME NEW m \in 1 .. L, data[m].key = "gametype" PROVE CallTo(data, i, m) > c - 1
      BY <1>1, <1>2, <1>6, <1>7, <2>1, CallComes
    <2>2. GametypeAfter(data, i) = GametypeAt(data, i + 1, w)
      BY <1>7 DEF GametypeAfter
    <2>3. CASE i + c - 1 < L
      <3>1. ASSUME NEW m \in 1 .. L, data[m].key = "gametype" PROVE m < i + 1 <=> m < p + 1
        <4>1. CallTo(data, i, m) > c - 1
          BY <2>1, <3>1
        <4>2. QED
          BY <1>1, <1>2, <1>5, <2>3, <4>1 DEF CallTo
      <3>2. GametypeAt(data, i + 1, w) = GametypeAt(data, p + 1, w)
        <4>1. i + 1 \in Int /\ p + 1 \in Int
          BY <1>1, <1>5
        <4>2. QED
          BY <3>1, <4>1, GametypeSame
      <3>3. w = again
        BY <1>1, <1>2, <2>3
      <3>4. QED
        BY <2>2, <3>2, <3>3 DEF p, c
    <2>4. CASE i + c - 1 >= L
      <3>1. ASSUME NEW m \in 1 .. L, data[m].key = "gametype" PROVE m < i + 1 /\ ~(m < p + 1)
        <4>1. CallTo(data, i, m) > c - 1
          BY <2>1, <3>1
        <4>2. QED
          BY <1>1, <1>2, <1>5, <2>4, <4>1 DEF CallTo
      <3>2. GametypeAt(data, i + 1, w) = GametypeAt(data, p + 1, TRUE)
        <4>1. i + 1 \in Int /\ p + 1 \in Int
          BY <1>1, <1>5
        <4>2. QED
          BY <3>1, <4>1, GametypeTurn
      <3>3. QED
        BY <2>2, <2>4, <3>2 DEF p, c
    <2>5. QED
      BY <1>1, <1>2, <2>3, <2>4
  <1>8. CASE OnTheWay(data, i) # {}
    <2> DEFINE k == Max(OnTheWay(data, i))
               q == Position(data, i, k)
    <2>1. k \in OnTheWay(data, i) /\ \A j \in OnTheWay(data, i) : k >= j
      <3>1. OnTheWay(data, i) \in SUBSET (0 .. c - 1) /\ c - 1 \in Nat
        BY <1>1, <1>2, <1>3
      <3>2. QED
        BY <1>8, <3>1, MaxIs
    <2>2. GametypeAfter(data, i) = data[q].value
      BY <1>8 DEF GametypeAfter, At
    <2>3. k \in 0 .. c - 1 /\ k \in 0 .. L - 1 /\ data[q].key = "gametype"
      BY <1>1, <1>2, <1>3, <2>1 DEF At
    <2> HIDE DEF k
    <2>4. /\ i + k < L => q = i + k + 1
          /\ i + k >= L => q = i + k + 1 - L
          /\ q \in 1 .. L
      BY <1>1, <2>3, Positions
    <2> HIDE DEF q
    <2>5. ASSUME NEW m \in 1 .. L, data[m].key = "gametype", CallTo(data, i, m) <= c - 1
          PROVE  CallTo(data, i, m) <= k
      BY <1>6, <2>1, <2>5
    <2>6. CASE i + c - 1 < L \/ i + k >= L
      <3>1. q < p + 1
        BY <1>1, <1>2, <1>5, <2>3, <2>4, <2>6
      <3>2. ASSUME NEW m \in 1 .. L, m < p + 1, data[m].key = "gametype" PROVE m <= q
        <4>1. CallTo(data, i, m) <= c - 1 => CallTo(data, i, m) <= k
          BY <2>5, <3>2
        <4>2. QED
          BY <1>1, <1>2, <1>5, <2>3, <2>4, <2>6, <3>2, <4>1 DEF CallTo
      <3>3. GametypeAt(data, p + 1, again) = data[q].value
        <4>1. p + 1 \in 1 .. L + 1 /\ again \in BOOLEAN
          BY <1>1, <1>5
        <4>2. QED
          BY <2>3, <2>4, <3>1, <3>2, <4>1, GametypeBefore
      <3>4. QED
        BY <2>2, <3>3 DEF p, c
    <2>7. CASE i + c - 1 >= L /\ i + k < L
      <3>1. ASSUME NEW m \in 1 .. L, data[m].key = "gametype" PROVE p + 1 <= m /\ m <= q
        <4>1. CallTo(data, i, m) <= c - 1 => CallTo(data, i, m) <= k
          BY <2>5, <3>1
        <4>2. QED
          BY <1>1, <1>2, <1>5, <2>3, <2>4, <2>7, <4>1 DEF CallTo
      <3>2. GametypeAt(data, p + 1, TRUE) = data[q].value
        <4>1. p + 1 \in 1 .. L + 1
          BY <1>1, <1>5
        <4>2. QED
          BY <2>3, <2>4, <3>1, <4>1, GametypeRound
      <3>3. QED
        BY <2>2, <2>7, <3>2 DEF p, c
    <2>8. QED
      BY <1>1, <1>2, <2>3, <2>6, <2>7
  <1>9. QED
    BY <1>7, <1>8

\* Then it is the gametype of the map that it has come to, and of the entry
\* that the index is left at.
LEMMA GametypeWalk ==
  ASSUME NEW data \in Seq(Entry), data # <<>>, NEW i \in 0 .. Len(data) - 1,
         NEW w \in BOOLEAN,
         OnTheWay(data, i) # {} \/ gametype = GametypeAt(data, i + 1, w)
  PROVE  LET c == Calls(data, i)
             again == w \/ i + c - 1 >= Len(data)
         IN /\ MapsOf(data) # {} =>
                 GametypeAfter(data, i) = GametypeAt(data, Position(data, i, c - 1), again)
            /\ GametypeAfter(data, i) =
                 GametypeAt(data, IndexAfter(data, i) + 1, again \/ i + c = Len(data))
  <1> DEFINE c == Calls(data, i)
             p == Position(data, i, c - 1)
             L == Len(data)
             again == w \/ i + c - 1 >= L
             n == IndexAfter(data, i)
  <1>1. L \in Nat \ {0}
    BY EmptySeq
  <1>2. c \in 1 .. L
    BY CallsAre
  <1>3. GametypeAfter(data, i) = GametypeAt(data, p + 1, again)
    BY GametypeRead
  <1>4. /\ i + c < L => n = i + c
        /\ i + c >= L => n = i + c - L
    BY <1>2, IndexFollows DEF IndexAfter
  <1>5. MapsOf(data) # {} => data[p].key = "map"
    BY ComesToNextMap DEF MapsOf
  <1> HIDE DEF c
  <1>6. c - 1 \in 0 .. L - 1 /\ i + (c - 1) = i + c - 1
    BY <1>1, <1>2
  <1>7. /\ i + c - 1 < L => p = i + c
        /\ i + c - 1 >= L => p = i + c - L
        /\ p \in 1 .. L
    BY <1>1, <1>2, <1>6, Positions
  <1> HIDE DEF p, n, L
  <1>8. again \in BOOLEAN
    OBVIOUS
  <1> HIDE DEF again
  <1>9. ASSUME MapsOf(data) # {} PROVE GametypeAt(data, p + 1, again) = GametypeAt(data, p, again)
    <2>1. \A m \in 1 .. L : data[m].key = "gametype" => (m < p + 1 <=> m < p)
      BY <1>1, <1>5, <1>7, <1>9
    <2>2. QED
      BY <1>1, <1>7, <1>8, <2>1, GametypeSame
  <1>10. \/ p < L /\ n = p /\ i + c # L
         \/ p = L /\ n = 0 /\ i + c = L
    BY <1>1, <1>2, <1>4, <1>7 DEF L
  <1>11. GametypeAt(data, p + 1, again) = GametypeAt(data, n + 1, again \/ i + c = L)
    <2>1. CASE n = p /\ i + c # L
      <3>1. (again \/ i + c = L) = again
        BY <1>8, <2>1
      <3>2. QED
        BY <2>1, <3>1
    <2>2. CASE p = L /\ n = 0 /\ i + c = L
      <3>1. ASSUME NEW m \in 1 .. Len(data), data[m].key = "gametype"
            PROVE  m < p + 1 /\ ~(m < n + 1)
        BY <1>1, <2>2 DEF L
      <3>2. p + 1 \in Int /\ n + 1 \in Int
        BY <1>1, <2>2
      <3>3. GametypeAt(data, p + 1, again) = GametypeAt(data, n + 1, TRUE)
        BY <1>8, <3>1, <3>2, GametypeTurn
      <3>4. (again \/ i + c = L) = TRUE
        BY <1>8, <2>2
      <3>5. QED
        BY <3>3, <3>4
    <2>3. QED
      BY <1>10, <2>1, <2>2
  <1>12. QED
    BY <1>3, <1>9, <1>11 DEF p, n, c, again, L
-----------------------------------------------------------------------------
(* The order of the maps that are under way: what was last played, and the *)
(* commands of the buffer behind it, by the entries that they come from.    *)

\* i and j come one after the other in a line, but for what comes from no entry.
Neighbours(P, i, j) ==
  i < j /\ (i = 0 \/ P[i] # 0) /\ \A k \in i + 1 .. j - 1 : P[k] = 0

\* A line of places: each one is the next map of the one before, and so is
\* the one that the index, at x, comes to.
Orderly(data, P, n, x) ==
  /\ \A i, j \in 0 .. n :
       Neighbours(P, i, j) /\ P[j] # 0 => P[j] = NextMap(data, P[i])
  /\ \A i \in 0 .. n : Neighbours(P, i, n + 1) => NextMap(data, x) = NextMap(data, P[i])

\* A command from no entry makes no difference.
LEMMA OrderlyWithNone ==
  ASSUME NEW data, NEW n \in Nat, NEW x, NEW P \in [0 .. n -> Nat], NEW Q \in [0 .. n + 1 -> Nat],
         \A i \in 0 .. n : Q[i] = P[i], Q[n + 1] = 0, Orderly(data, P, n, x)
  PROVE  Orderly(data, Q, n + 1, x)
  <1>1. ASSUME NEW i \in 0 .. n + 1, NEW j \in 0 .. n + 1, Neighbours(Q, i, j), Q[j] # 0
        PROVE  Q[j] = NextMap(data, Q[i])
    <2>1. i \in 0 .. n /\ j \in 0 .. n
      BY <1>1 DEF Neighbours
    <2>2. Neighbours(P, i, j)
      BY <1>1, <2>1 DEF Neighbours
    <2>3. QED
      BY <1>1, <2>1, <2>2 DEF Orderly
  <1>2. ASSUME NEW i \in 0 .. n + 1, Neighbours(Q, i, n + 2)
        PROVE  NextMap(data, x) = NextMap(data, Q[i])
    <2>1. i \in 0 .. n
      BY <1>2 DEF Neighbours
    <2>2. Neighbours(P, i, n + 1)
      BY <1>2, <2>1 DEF Neighbours
    <2>3. QED
      BY <2>1, <2>2 DEF Orderly
  <1>3. n + 1 + 1 = n + 2
    OBVIOUS
  <1>4. QED
    BY <1>1, <1>2, <1>3 DEF Orderly

\* The next map joins the line, and the index moves behind it.
LEMMA OrderlyWithNext ==
  ASSUME NEW data, NEW n \in Nat, NEW x, NEW y,
         NEW P \in [0 .. n -> Nat], NEW Q \in [0 .. n + 1 -> Nat],
         \A i \in 0 .. n : Q[i] = P[i], Q[n + 1] # 0, Q[n + 1] = NextMap(data, x),
         NextMap(data, y) = NextMap(data, Q[n + 1]), Orderly(data, P, n, x)
  PROVE  Orderly(data, Q, n + 1, y)
  <1>1. ASSUME NEW i \in 0 .. n + 1, NEW j \in 0 .. n + 1, Neighbours(Q, i, j), Q[j] # 0
        PROVE  Q[j] = NextMap(data, Q[i])
    <2>1. i \in 0 .. n
      BY <1>1 DEF Neighbours
    <2>2. Neighbours(P, i, j)
      BY <1>1, <2>1 DEF Neighbours
    <2>3. CASE j \in 0 .. n
      BY <1>1, <2>1, <2>2, <2>3 DEF Orderly
    <2>4. CASE j = n + 1
      BY <2>1, <2>2, <2>4 DEF Orderly
    <2>5. QED
      BY <2>3, <2>4
  <1>2. ASSUME NEW i \in 0 .. n + 1, Neighbours(Q, i, n + 2)
        PROVE  NextMap(data, y) = NextMap(data, Q[i])
    <2>1. i = n + 1
      BY <1>2 DEF Neighbours
    <2>2. QED
      BY <2>1
  <1>3. n + 1 + 1 = n + 2
    OBVIOUS
  <1>4. QED
    BY <1>1, <1>2, <1>3 DEF Orderly

\* The first command is executed: it takes the place of what was last played,
\* if it comes from an entry.
LEMMA OrderlyBehindFirst ==
  ASSUME NEW data, NEW n \in Nat, NEW x, NEW P \in [0 .. n + 1 -> Nat], NEW Q \in [0 .. n -> Nat],
         Q[0] = IF P[1] = 0 THEN P[0] ELSE P[1], \A i \in 1 .. n : Q[i] = P[i + 1],
         Orderly(data, P, n + 1, x)
  PROVE  Orderly(data, Q, n, x)
  <1> DEFINE Before(i) == IF i = 0 /\ P[1] = 0 THEN 0 ELSE i + 1
  <1>1. ASSUME NEW i \in 0 .. n, NEW j \in 0 .. n + 1, Neighbours(Q, i, j)
        PROVE  /\ Neighbours(P, Before(i), j + 1)
               /\ Before(i) \in 0 .. n + 1 /\ P[Before(i)] = Q[i]
    <2>1. i < j /\ (i = 0 \/ Q[i] # 0) /\ \A k \in i + 1 .. j - 1 : Q[k] = 0
      BY <1>1 DEF Neighbours
    <2>2. Before(i) \in 0 .. n + 1 /\ P[Before(i)] = Q[i] /\ Before(i) < j + 1
      BY <2>1
    <2>3. Before(i) = 0 \/ P[Before(i)] # 0
      BY <2>1, <2>2
    <2>4. ASSUME NEW k \in Before(i) + 1 .. j PROVE P[k] = 0
      <3>1. CASE k = 1
        BY <2>1, <2>2, <2>4, <3>1
      <3>2. CASE k > 1
        <4>1. k - 1 \in i + 1 .. j - 1 /\ k - 1 \in 1 .. n
          BY <2>1, <2>2, <2>4, <3>2
        <4>2. Q[k - 1] = 0 /\ Q[k - 1] = P[k - 1 + 1] /\ k - 1 + 1 = k
          BY <2>1, <4>1
        <4>3. QED
          BY <4>2
      <3>3. QED
        BY <2>2, <2>4, <3>1, <3>2
    <2>5. j + 1 - 1 = j
      OBVIOUS
    <2>6. QED
      BY <2>2, <2>3, <2>4, <2>5 DEF Neighbours
  <1> HIDE DEF Before
  <1>2. ASSUME NEW i \in 0 .. n, NEW j \in 0 .. n, Neighbours(Q, i, j), Q[j] # 0
        PROVE  Q[j] = NextMap(data, Q[i])
    <2>1. j \in 1 .. n /\ j + 1 \in 0 .. n + 1
      BY <1>2 DEF Neighbours
    <2>2. P[j + 1] = Q[j]
      BY <2>1
    <2>3. Neighbours(P, Before(i), j + 1) /\ Before(i) \in 0 .. n + 1 /\ P[Before(i)] = Q[i]
      BY <1>1, <1>2, <2>1
    <2>4. QED
      BY <1>2, <2>1, <2>2, <2>3 DEF Orderly
  <1>3. ASSUME NEW i \in 0 .. n, Neighbours(Q, i, n + 1)
        PROVE  NextMap(data, x) = NextMap(data, Q[i])
    <2>1. n + 1 \in 0 .. n + 1
      OBVIOUS
    <2>2. Neighbours(P, Before(i), n + 1 + 1) /\ Before(i) \in 0 .. n + 1 /\ P[Before(i)] = Q[i]
      BY <1>1, <1>3, <2>1
    <2>3. QED
      BY <2>2 DEF Orderly
  <1>4. QED
    BY <1>2, <1>3 DEF Orderly
-----------------------------------------------------------------------------
(* The invariant.  Its parts are stated of a rotation and of a buffer,     *)
(* which a step may have changed one after the other.                      *)

Name == STRING \union {None, Fallback}
Command ==
  [cmd : {"map", "map_rotate"}, map : Name, pos : Nat, again : BOOLEAN, stale : BOOLEAN]

TypeOK ==
  /\ rotation \in Seq(Entry) /\ current \in Seq(Entry)
  /\ entries \in Seq(Entry) /\ index \in Nat /\ loaded \in BOOLEAN
  /\ wrapped \in BOOLEAN /\ foreign \in BOOLEAN
  /\ IF entries = <<>> THEN index = 0 /\ ~wrapped ELSE index < Len(entries)
  /\ ~loaded => entries = <<>>
  /\ mapname \in Name /\ played \in Seq(Nat)

\* A command that comes from an entry comes from a map.
FromMaps(data, b) ==
  \A i \in DOMAIN b : b[i].pos # 0 => b[i].cmd = "map" /\ b[i].pos \in MapsOf(data)

\* What was last played, and the buffer behind it.
Line(b) ==
  [i \in 0 .. Len(b) |->
    IF i # 0 THEN b[i].pos ELSE IF played = <<>> THEN 0 ELSE played[Len(played)]]
InOrder(data, b) == Orderly(data, Line(b), Len(b), index)

\* InTurn, of a rotation.
Played(data) ==
  \A i \in DOMAIN played :
    /\ played[i] \in MapsOf(data)
    /\ played[i] = NextMap(data, IF i = 1 THEN 0 ELSE played[i - 1])

\* The gametype is the one that the next entry would be played with, and a map
\* command that none has overtaken will find its own.
Gametypes(data, b) ==
  ~foreign =>
    /\ gametype = GametypeAt(data, index + 1, wrapped)
    /\ \A i \in DOMAIN b :
         b[i].pos # 0 /\ ~b[i].stale => gametype = GametypeAt(data, b[i].pos, b[i].again)

\* GametypeOfMap, of a rotation.
LevelRight(data) ==
  level # None /\ level.pos # 0 =>
    /\ level.pos \in MapsOf(data)
    /\ ~level.stale /\ ~level.foreign => level.gametype = GametypeAt(data, level.pos, level.again)

Good(data, b) ==
  FromMaps(data, b) /\ InOrder(data, b) /\ Played(data) /\ Gametypes(data, b) /\ LevelRight(data)

IInv == ~random => TypeOK /\ buffer \in Seq(Command) /\ Good(entries, buffer)

-----------------------------------------------------------------------------
(* How the parts change.                                                   *)

\* parse keeps a part of the entries.
LEMMA ParseType ==
  ASSUME NEW data \in Seq(Entry)
  PROVE  Parse(data) \in Seq(Entry)
  <1> DEFINE bad == {i \in DOMAIN data : data[i].key = "bad"}
  <1>1. CASE bad = {}
    BY <1>1 DEF Parse
  <1>2. CASE bad # {}
    <2>1. bad \in SUBSET Nat /\ bad \subseteq 1 .. Len(data) /\ Len(data) \in Nat
      BY LenProperties
    <2>2. Min(bad) \in 1 .. Len(data)
      BY <1>2, <2>1, MinIs
    <2>3. Parse(data) = SubSeq(data, 1, Min(bad) - 1)
      BY <1>2 DEF Parse
    <2>4. \A j \in 1 .. Min(bad) - 1 : j \in 1 .. Len(data) /\ data[j] \in Entry
      BY <2>1, <2>2, ElementOfSeq
    <2>5. 1 \in Int /\ Min(bad) - 1 \in Int
      BY <2>1, <2>2
    <2>6. QED
      BY <2>1, <2>2, <2>3, <2>4, <2>5
  <1>3. QED
    BY <1>1, <1>2

\* Another rotation leaves the places of the commands as they are.
LEMMA OvertakenIs ==
  ASSUME NEW b \in Seq(Command)
  PROVE  /\ Overtaken(b) \in Seq(Command) /\ Len(Overtaken(b)) = Len(b)
         /\ \A i \in 1 .. Len(b) :
              /\ Overtaken(b)[i].pos = b[i].pos /\ Overtaken(b)[i].cmd = b[i].cmd
              /\ b[i].cmd = "map" => Overtaken(b)[i].stale
  <1>1. Len(b) \in Nat /\ DOMAIN b = 1 .. Len(b)
    BY LenProperties
  <1> DEFINE E(i) == IF b[i].cmd = "map" THEN [b[i] EXCEPT !.stale = TRUE] ELSE b[i]
  <1>2. ASSUME NEW i \in 1 .. Len(b)
        PROVE  /\ E(i) \in Command /\ E(i).pos = b[i].pos /\ E(i).cmd = b[i].cmd
               /\ b[i].cmd = "map" => E(i).stale
    <2>1. b[i] \in Command
      BY <1>1, ElementOfSeq
    <2>2. QED
      BY <2>1 DEF Command
  <1>3. Overtaken(b) = [i \in 1 .. Len(b) |-> E(i)]
    BY <1>1 DEF Overtaken
  <1> HIDE DEF E
  <1>4. QED
    BY <1>1, <1>2, <1>3

\* A map command from no entry.
LEMMA CommandFromNone ==
  ASSUME NEW m \in Name
  PROVE  MapCommand(m, 0, FALSE) \in Command /\ MapCommand(m, 0, FALSE).pos = 0
  BY DEF MapCommand, Command

\* launch_default_map plays the map that was played, or the fallback.
LEMMA DefaultType ==
  ASSUME mapname \in Name
  PROVE  Default \in Name
  BY DEF Default, Name

\* apply_rotation launches one map if the rotation has any, and none otherwise.
LEMMA LaunchedIs ==
  ASSUME NEW data \in Seq(Entry), data # <<>>, NEW i \in 0 .. Len(data) - 1,
         NEW pos \in Nat, NEW again \in BOOLEAN, mapname \in Name
  PROVE  /\ MapsOf(data) = {} => Launched(data, i, pos, again) = <<>>
         /\ MapsOf(data) # {} =>
              \E m \in Name : Launched(data, i, pos, again) = <<MapCommand(m, pos, again)>>
  <1>1. MapsFrom(data, i) = {} <=> MapsOf(data) = {}
    BY CallsAre
  <1>2. CASE MapsOf(data) = {}
    BY <1>1, <1>2 DEF Launched
  <1>3. CASE MapsOf(data) # {}
    <2> DEFINE m == At(data, i, Calls(data, i) - 1).value
    <2>1. Position(data, i, Calls(data, i) - 1) \in 1 .. Len(data)
      BY <1>3, ComesToNextMap DEF MapsOf
    <2>2. m \in STRING
      <3>1. data[Position(data, i, Calls(data, i) - 1)] \in Entry
        BY <2>1, ElementOfSeq
      <3>2. QED
        BY <3>1 DEF At, Entry
    <2>3. (IF m \in Missing THEN Default ELSE m) \in Name
      BY <2>2, DefaultType DEF Name
    <2>4. Launched(data, i, pos, again) =
            <<MapCommand(IF m \in Missing THEN Default ELSE m, pos, again)>>
      BY <1>1, <1>3 DEF Launched
    <2>5. QED
      BY <1>3, <2>3, <2>4
  <1>4. QED
    BY <1>2, <1>3

\* d is b, as it stood or overtaken.
SamePlaces(b, d) ==
  /\ Len(d) = Len(b)
  /\ \A i \in 1 .. Len(b) :
       /\ d[i].pos = b[i].pos /\ d[i].cmd = b[i].cmd
       /\ d[i] = b[i] \/ (b[i].cmd = "map" => d[i].stale)

\* What a sequence is like when one element follows it.
LEMMA Appended ==
  ASSUME NEW S, NEW s \in Seq(S), NEW e \in S
  PROVE  /\ s \o <<e>> \in Seq(S) /\ Len(s \o <<e>>) = Len(s) + 1
         /\ (s \o <<e>>)[Len(s) + 1] = e
         /\ \A i \in 1 .. Len(s) : (s \o <<e>>)[i] = s[i]
  OBVIOUS

\* A step that launches nothing from an entry of the rotation keeps what is good
\* of it, if it sets no gametype but that of sv_mapRotationCurrent.
LEMMA AddsNoEntry ==
  ASSUME NEW b \in Seq(Command), NEW d \in Seq(Command), SamePlaces(b, d),
         NEW t \in Seq(Command), t = <<>> \/ \E c \in Command : t = <<c>> /\ c.pos = 0,
         entries \in Seq(Entry), index \in Nat, played \in Seq(Nat), Good(entries, b),
         buffer' = d \o t, UNCHANGED <<entries, index, wrapped, played, level>>,
         ~foreign' => ~foreign /\ gametype' = gametype
  PROVE  buffer' \in Seq(Command) /\ Good(entries, buffer)'
  <1> DEFINE n == Len(b)
             q == buffer'
             m == Len(q)
  <1>1. n \in Nat /\ m \in Nat
    <2>1. q \in Seq(Command)
      OBVIOUS
    <2>2. QED
      BY <2>1, LenProperties
  <1>2. DOMAIN b = 1 .. n
    OBVIOUS
  <1>3. buffer' \in Seq(Command) /\ DOMAIN buffer' = 1 .. m
    OBVIOUS
  <1>4. /\ \/ m = n
           \/ m = n + 1 /\ q[n + 1].pos = 0
        /\ \A i \in 1 .. n : q[i] = d[i]
    <2>1. Len(d) = n
      BY DEF SamePlaces
    <2>2. CASE t = <<>>
      <3>1. q = d
        BY <2>2
      <3>2. QED
        BY <2>1, <3>1
    <2>3. ASSUME NEW c \in Command, t = <<c>>, c.pos = 0
          PROVE  m = n + 1 /\ q[n + 1].pos = 0 /\ \A i \in 1 .. n : q[i] = d[i]
      <3>1. q = d \o <<c>>
        BY <2>3
      <3>2. d \o <<c>> \in Seq(Command) /\ Len(d \o <<c>>) = n + 1 /\ (d \o <<c>>)[n + 1] = c
            /\ \A i \in 1 .. n : (d \o <<c>>)[i] = d[i]
        BY <2>1, Appended
      <3>3. QED
        BY <2>3, <3>1, <3>2
    <2>4. QED
      BY <2>2, <2>3
  <1>5. \A i \in 1 .. n : q[i].pos = b[i].pos /\ q[i].cmd = b[i].cmd
                          /\ (q[i] = b[i] \/ (b[i].cmd = "map" => q[i].stale))
    BY <1>4 DEF SamePlaces
  <1> HIDE DEF m, n
  <1>6. MapsOf(entries)' = MapsOf(entries)
    BY DEF MapsOf
  <1>7. FromMaps(entries, buffer)'
    <2> SUFFICES ASSUME NEW i \in 1 .. m, q[i].pos # 0
                 PROVE  q[i].cmd = "map" /\ q[i].pos \in MapsOf(entries)
      BY <1>3, <1>6 DEF FromMaps
    <2>1. i \in 1 .. n
      <3>1. m = n \/ (m = n + 1 /\ i # n + 1)
        BY <1>4
      <3>2. QED
        BY <1>1, <3>1
    <2>2. b[i].pos # 0 /\ b[i].pos = q[i].pos /\ b[i].cmd = q[i].cmd
      BY <1>5, <2>1
    <2>3. QED
      BY <1>2, <2>1, <2>2 DEF Good, FromMaps
  <1>8. InOrder(entries, buffer)'
    <2> DEFINE P == Line(b)
               Q == Line(buffer)'
               first == IF played = <<>> THEN 0 ELSE played[Len(played)]
    <2>1. P = [i \in 0 .. n |-> IF i # 0 THEN b[i].pos ELSE first]
      BY DEF Line, n
    <2>2. Q = [i \in 0 .. m |-> IF i # 0 THEN q[i].pos ELSE first]
      BY DEF Line, m
    <2>3. first \in Nat
      BY EmptySeq, ElementOfSeq
    <2>4. ASSUME NEW i \in 1 .. n PROVE b[i].pos \in Nat
      <3>1. b[i] \in Command
        BY ElementOfSeq DEF n
      <3>2. QED
        BY <3>1 DEF Command
    <2>5. Orderly(entries, P, n, index)
      BY DEF Good, InOrder, n
    <2>6. InOrder(entries, buffer)' <=> Orderly(entries, Q, m, index)
      BY DEF InOrder, Orderly, NextMap, MapsOf, m
    <2> HIDE DEF P, Q, first
    <2>7. P \in [0 .. n -> Nat]
      BY <1>1, <2>1, <2>3, <2>4
    <2>8. ASSUME NEW i \in 0 .. n PROVE Q[i] = P[i]
      <3>1. i \in 0 .. m /\ (i # 0 => i \in 1 .. n)
        BY <1>1, <1>4
      <3>2. i # 0 => q[i].pos = b[i].pos
        BY <1>5, <3>1
      <3>3. QED
        BY <2>1, <2>2, <3>1, <3>2
    <2>9. CASE m = n
      <3>1. Q = P
        BY <2>1, <2>2, <2>8, <2>9
      <3>2. QED
        BY <2>5, <2>6, <2>9, <3>1
    <2>10. CASE m = n + 1 /\ q[n + 1].pos = 0
      <3>1. n + 1 \in 0 .. m /\ n + 1 # 0
        BY <1>1, <2>10
      <3>2. Q[n + 1] = 0
        BY <2>2, <2>10, <3>1
      <3>3. ASSUME NEW i \in 0 .. n + 1 PROVE Q[i] \in Nat
        <4>1. i \in 0 .. n \/ i = n + 1
          BY <1>1
        <4>2. i \in 0 .. n => Q[i] = P[i] /\ P[i] \in Nat
          BY <2>7, <2>8
        <4>3. QED
          BY <3>2, <4>1, <4>2
      <3>4. Q \in [0 .. n + 1 -> Nat]
        BY <2>2, <2>10, <3>3
      <3>5. Orderly(entries, Q, n + 1, index)
        BY <1>1, <2>5, <2>7, <2>8, <3>2, <3>4, OrderlyWithNone
      <3>6. QED
        BY <2>6, <2>10, <3>5
    <2>11. QED
      BY <1>4, <2>9, <2>10
  <1>9. Played(entries)'
    BY <1>6 DEF Good, Played, NextMap
  <1>10. Gametypes(entries, buffer)'
    <2> SUFFICES ASSUME ~foreign'
                 PROVE  /\ gametype = GametypeAt(entries, index + 1, wrapped)
                        /\ \A i \in 1 .. m :
                             q[i].pos # 0 /\ ~q[i].stale =>
                               gametype = GametypeAt(entries, q[i].pos, q[i].again)
      BY <1>3 DEF Gametypes, GametypeAt
    <2>1. Gametypes(entries, b) /\ ~foreign
      BY DEF Good
    <2>2. ASSUME NEW i \in 1 .. m, q[i].pos # 0, ~q[i].stale
          PROVE  gametype = GametypeAt(entries, q[i].pos, q[i].again)
      <3>1. i \in 1 .. n
        <4>1. m = n \/ (m = n + 1 /\ i # n + 1)
          BY <1>4, <2>2
        <4>2. QED
          BY <1>1, <4>1
      <3>2. b[i].pos # 0 /\ b[i].cmd = "map"
        BY <1>2, <1>5, <2>2, <3>1 DEF Good, FromMaps
      <3>3. q[i] = b[i]
        BY <1>5, <2>2, <3>1, <3>2
      <3>4. QED
        BY <1>2, <2>1, <2>2, <3>1, <3>3 DEF Gametypes
    <2>3. QED
      BY <2>1, <2>2 DEF Gametypes
  <1>11. LevelRight(entries)'
    BY <1>6 DEF Good, LevelRight, GametypeAt
  <1>12. QED
    BY <1>3, <1>7, <1>8, <1>9, <1>10, <1>11 DEF Good

\* A step that launches the next map keeps it as well, if the index and the
\* gametype move with it.
LEMMA AddsNext ==
  ASSUME NEW data \in Seq(Entry), NEW b \in Seq(Command), NEW d \in Seq(Command),
         SamePlaces(b, d), \A i \in 1 .. Len(b) : b[i].cmd = "map" => d[i].stale,
         NEW c \in Command, c.cmd = "map", c.pos \in MapsOf(data), c.pos # 0,
         index \in Nat, played \in Seq(Nat), Good(data, b),
         buffer' = d \o <<c>>, entries' = data, UNCHANGED <<played, level>>,
         c.pos = NextMap(data, index), NextMap(data, index') = NextMap(data, c.pos),
         ~foreign' => /\ gametype' = GametypeAt(data, index' + 1, wrapped')
                      /\ gametype' = GametypeAt(data, c.pos, c.again)
  PROVE  buffer' \in Seq(Command) /\ Good(entries, buffer)'
  <1> DEFINE n == Len(b)
             q == buffer'
  <1>1. n \in Nat /\ DOMAIN b = 1 .. n
    OBVIOUS
  <1>2. /\ q \in Seq(Command) /\ Len(q) = n + 1 /\ q[n + 1] = c
        /\ \A i \in 1 .. n : q[i] = d[i]
    <2>1. Len(d) = n
      BY DEF SamePlaces
    <2> DEFINE j == d \o <<c>>
    <2>2. j \in Seq(Command) /\ Len(j) = Len(d) + 1 /\ j[Len(d) + 1] = c
          /\ \A i \in 1 .. Len(d) : j[i] = d[i]
      BY Appended
    <2>3. q = j
      OBVIOUS
    <2> HIDE DEF q, j, n
    <2>4. QED
      BY <2>1, <2>2, <2>3
  <1>3. DOMAIN q = 1 .. n + 1
    BY <1>2, LenProperties
  <1>4. \A i \in 1 .. n : q[i].pos = b[i].pos /\ q[i].cmd = b[i].cmd
                          /\ (b[i].cmd = "map" => q[i].stale)
    BY <1>2 DEF SamePlaces
  <1>5. ASSUME NEW i \in 1 .. n + 1 PROVE i \in 1 .. n \/ i = n + 1
    BY <1>1
  <1> HIDE DEF n
  <1>6. FromMaps(entries, buffer)'
    <2>1. ASSUME NEW i \in 1 .. n, q[i].pos # 0
          PROVE  q[i].cmd = "map" /\ q[i].pos \in MapsOf(data)
      BY <1>1, <1>4, <2>1 DEF Good, FromMaps
    <2>2. \A i \in 1 .. n + 1 : q[i].pos # 0 => q[i].cmd = "map" /\ q[i].pos \in MapsOf(data)
      BY <1>2, <1>5, <2>1
    <2>3. QED
      BY <1>3, <2>2 DEF FromMaps, MapsOf
  <1>7. InOrder(entries, buffer)'
    <2> DEFINE P == Line(b)
               Q == Line(buffer)'
               first == IF played = <<>> THEN 0 ELSE played[Len(played)]
    <2>1. P = [i \in 0 .. n |-> IF i # 0 THEN b[i].pos ELSE first]
      BY DEF Line, n
    <2>2. Q = [i \in 0 .. n + 1 |-> IF i # 0 THEN q[i].pos ELSE first]
      BY <1>2 DEF Line
    <2>3. first \in Nat
      BY EmptySeq, ElementOfSeq
    <2>4. ASSUME NEW i \in 1 .. n PROVE b[i].pos \in Nat
      <3>1. b[i] \in Command
        BY ElementOfSeq DEF n
      <3>2. QED
        BY <3>1 DEF Command
    <2>5. Orderly(data, P, n, index)
      BY DEF Good, InOrder, n
    <2>6. InOrder(entries, buffer)' <=> Orderly(data, Q, n + 1, index')
      BY <1>2 DEF InOrder
    <2> HIDE DEF P, Q, first
    <2>7. P \in [0 .. n -> Nat]
      BY <1>1, <2>1, <2>3, <2>4
    <2>8. ASSUME NEW i \in 0 .. n PROVE Q[i] = P[i]
      <3>1. i \in 0 .. n + 1 /\ (i # 0 => i \in 1 .. n)
        BY <1>1
      <3>2. i # 0 => q[i].pos = b[i].pos
        BY <1>4, <3>1
      <3>3. QED
        BY <2>1, <2>2, <3>1, <3>2
    <2>9. Q[n + 1] = c.pos
      <3>1. n + 1 \in 0 .. n + 1 /\ n + 1 # 0
        BY <1>1
      <3>2. QED
        BY <1>2, <2>2, <3>1
    <2>10. ASSUME NEW i \in 0 .. n + 1 PROVE Q[i] \in Nat
      <3>1. i \in 0 .. n \/ i = n + 1
        BY <1>1
      <3>2. i \in 0 .. n => Q[i] = P[i] /\ P[i] \in Nat
        BY <2>7, <2>8
      <3>3. c.pos \in Nat
        BY DEF Command
      <3>4. QED
        BY <2>9, <3>1, <3>2, <3>3
    <2>11. Q \in [0 .. n + 1 -> Nat]
      BY <2>2, <2>10
    <2>12. Orderly(data, Q, n + 1, index')
      BY <1>1, <2>5, <2>7, <2>8, <2>9, <2>11, OrderlyWithNext
    <2>13. QED
      BY <2>6, <2>12
  <1>8. Played(entries)'
    BY DEF Good, Played
  <1>9. Gametypes(entries, buffer)'
    <2> SUFFICES ASSUME ~foreign'
                 PROVE  /\ gametype' = GametypeAt(data, index' + 1, wrapped')
                        /\ \A i \in 1 .. n + 1 :
                             q[i].pos # 0 /\ ~q[i].stale =>
                               gametype' = GametypeAt(data, q[i].pos, q[i].again)
      BY <1>3 DEF Gametypes, GametypeAt
    <2>1. ASSUME NEW i \in 1 .. n, q[i].pos # 0 PROVE q[i].stale
      BY <1>1, <1>4, <2>1 DEF Good, FromMaps
    <2>2. QED
      BY <1>2, <1>5, <2>1
  <1>10. LevelRight(entries)'
    BY DEF Good, LevelRight, MapsOf, GametypeAt
  <1>11. QED
    BY <1>2, <1>6, <1>7, <1>8, <1>9, <1>10 DEF Good

\* Before the rotation is read, any rotation is good: nothing has come from it.
LEMMA NothingRead ==
  ASSUME NEW data \in Seq(Entry), NEW b \in Seq(Command), played \in Seq(Nat),
         index = 0, ~wrapped, wrapped \in BOOLEAN, Good(<<>>, b)
  PROVE  Good(data, b)
  <1>1. MapsOf(<<>>) = {} /\ DOMAIN b = 1 .. Len(b) /\ Len(b) \in Nat
    BY DEF MapsOf
  <1>2. \A i \in 1 .. Len(b) : b[i].pos = 0
    BY <1>1 DEF Good, FromMaps
  <1>3. played = <<>>
    <2>1. DOMAIN played = {}
      BY <1>1 DEF Good, Played
    <2>2. QED
      BY <2>1
  <1>4. FromMaps(data, b)
    BY <1>1, <1>2 DEF FromMaps
  <1>5. InOrder(data, b)
    <2>1. \A i \in 0 .. Len(b) : Line(b)[i] = 0
      BY <1>1, <1>2, <1>3 DEF Line
    <2>2. QED
      BY <2>1 DEF InOrder, Orderly
  <1>6. Played(data)
    BY <1>3 DEF Played
  <1>7. Gametypes(data, b)
    <2>1. GametypeAt(<<>>, 1, FALSE) = Gametype
      BY DEF GametypeAt
    <2>2. GametypeAt(data, 1, FALSE) = Gametype
      <3>1. {i \in {k \in DOMAIN data : data[k].key = "gametype"} : i < 1} = {}
        <4>1. DOMAIN data = 1 .. Len(data) /\ Len(data) \in Nat
          OBVIOUS
        <4>2. \A i \in DOMAIN data : ~(i < 1)
          BY <4>1
        <4>3. QED
          BY <4>2
      <3>2. QED
        BY <3>1 DEF GametypeAt
    <2>3. wrapped = FALSE /\ index + 1 = 1
      OBVIOUS
    <2>4. QED
      BY <1>1, <1>2, <2>1, <2>2, <2>3 DEF Good, Gametypes
  <1>8. LevelRight(data)
    BY <1>1 DEF Good, LevelRight
  <1>9. QED
    BY <1>4, <1>5, <1>6, <1>7, <1>8 DEF Good

\* The line of t, which is left of b when its first command has been executed.
Behind(b, t) ==
  [i \in 0 .. Len(t) |->
    IF i # 0 THEN t[i].pos
    ELSE IF Head(b).pos # 0 THEN Head(b).pos
    ELSE IF played = <<>> THEN 0 ELSE played[Len(played)]]

\* It keeps the order, and the command that was executed was the next in it.
LEMMA BehindFirst ==
  ASSUME NEW b \in Seq(Command), b # <<>>, NEW data, played \in Seq(Nat), Good(data, b)
  PROVE  /\ Tail(b) \in Seq(Command)
         /\ FromMaps(data, Tail(b)) /\ Gametypes(data, Tail(b))
         /\ Orderly(data, Behind(b, Tail(b)), Len(Tail(b)), index)
         /\ Head(b).pos # 0 => Head(b).pos = NextMap(data, Line(b)[0])
  <1> DEFINE t == Tail(b)
             n == Len(t)
             first == IF played = <<>> THEN 0 ELSE played[Len(played)]
             P == Line(b)
             Q == Behind(b, t)
  <1>1. t \in Seq(Command) /\ n \in Nat /\ Len(b) = n + 1 /\ Head(b) = b[1]
        /\ \A i \in 1 .. n : t[i] = b[i + 1]
    OBVIOUS
  <1>2. DOMAIN b = 1 .. Len(b) /\ DOMAIN t = 1 .. n
    OBVIOUS
  <1> HIDE DEF t, n
  <1>3. ASSUME NEW i \in 1 .. n PROVE i + 1 \in 1 .. Len(b) /\ i + 1 \in 0 .. n + 1 /\ i + 1 # 0
    BY <1>1
  <1>4. FromMaps(data, t)
    <2>1. ASSUME NEW i \in 1 .. n, t[i].pos # 0
          PROVE  t[i].cmd = "map" /\ t[i].pos \in MapsOf(data)
      <3>1. i + 1 \in DOMAIN b /\ t[i] = b[i + 1]
        BY <1>1, <1>2, <1>3
      <3>2. QED
        BY <2>1, <3>1 DEF Good, FromMaps
    <2>2. QED
      BY <1>2, <2>1 DEF FromMaps
  <1>5. Gametypes(data, t)
    BY <1>1, <1>2, <1>3 DEF Good, Gametypes
  <1>6. ASSUME NEW i \in 1 .. n + 1 PROVE b[i].pos \in Nat
    <2>1. b[i] \in Command
      BY <1>1, ElementOfSeq
    <2>2. QED
      BY <2>1 DEF Command
  <1>7. first \in Nat
    BY EmptySeq, ElementOfSeq
  <1>8. P = [i \in 0 .. n + 1 |-> IF i # 0 THEN b[i].pos ELSE first]
    BY <1>1 DEF Line
  <1>9. Q = [i \in 0 .. n |-> IF i # 0 THEN t[i].pos ELSE IF b[1].pos # 0 THEN b[1].pos ELSE first]
    BY <1>1 DEF Behind, t, n
  <1>10. Orderly(data, P, n + 1, index)
    BY <1>1 DEF Good, InOrder
  <1> HIDE DEF P, Q, first
  <1>11. 0 \in 0 .. n + 1 /\ 1 \in 0 .. n + 1 /\ 1 \in 1 .. n + 1 /\ 0 \in 0 .. n
    BY <1>1
  <1>12. P[0] = first /\ P[1] = b[1].pos
    BY <1>8, <1>11
  <1>13. P \in [0 .. n + 1 -> Nat]
    <2>1. ASSUME NEW i \in 0 .. n + 1 PROVE P[i] \in Nat
      <3>1. i = 0 \/ i \in 1 .. n + 1
        BY <1>1
      <3>2. QED
        BY <1>6, <1>7, <1>8, <3>1
    <2>2. QED
      BY <1>8, <2>1
  <1>14. Q[0] = IF P[1] = 0 THEN P[0] ELSE P[1]
    BY <1>9, <1>11, <1>12
  <1>15. ASSUME NEW i \in 1 .. n PROVE Q[i] = P[i + 1]
    <2>1. i \in 0 .. n /\ i # 0 /\ t[i] = b[i + 1]
      BY <1>1
    <2>2. QED
      BY <1>3, <1>8, <1>9, <2>1
  <1>16. Q \in [0 .. n -> Nat]
    <2>1. ASSUME NEW i \in 0 .. n PROVE Q[i] \in Nat
      <3>1. i = 0 \/ i \in 1 .. n
        BY <1>1
      <3>2. QED
        BY <1>3, <1>11, <1>13, <1>14, <1>15, <3>1
    <2>2. QED
      BY <1>9, <2>1
  <1>17. Orderly(data, Q, n, index)
    BY <1>1, <1>10, <1>13, <1>14, <1>15, <1>16, OrderlyBehindFirst
  <1>18. b[1].pos # 0 => b[1].pos = NextMap(data, P[0])
    <2>1. Neighbours(P, 0, 1)
      BY DEF Neighbours
    <2>2. QED
      BY <1>10, <1>11, <1>12, <2>1 DEF Orderly
  <1>19. QED
    BY <1>1, <1>4, <1>5, <1>17, <1>18 DEF t, n, P, Q

\* A map_rotate comes from no entry.
LEMMA BehindRotate ==
  ASSUME NEW b \in Seq(Command), b # <<>>, Head(b).cmd = "map_rotate", NEW data,
         played \in Seq(Nat), Good(data, b)
  PROVE  Tail(b) \in Seq(Command) /\ Good(data, Tail(b))
  <1>1. Head(b).pos = 0
    <2>1. 1 \in DOMAIN b /\ Head(b) = b[1]
      OBVIOUS
    <2>2. QED
      BY <2>1 DEF Good, FromMaps
  <1>2. Behind(b, Tail(b)) = Line(Tail(b))
    BY <1>1 DEF Behind, Line
  <1>3. QED
    BY <1>2, BehindFirst DEF Good, InOrder

-----------------------------------------------------------------------------
(* The steps.                                                              *)

\* What the buffer is of, when a rotation is performed.
Ready(b) == ~random /\ TypeOK /\ b \in Seq(Command) /\ Good(entries, b)
Held == TypeOK /\ buffer \in Seq(Command) /\ Good(entries, buffer)

\* The types of sequences of no or one command.
LEMMA ShortSequences ==
  ASSUME NEW c \in Command
  PROVE  <<>> \in Seq(Command) /\ <<c>> \in Seq(Command)
  OBVIOUS

\* The places are the same, and the map commands are overtaken.
LEMMA OvertakenSame ==
  ASSUME NEW b \in Seq(Command)
  PROVE  /\ Overtaken(b) \in Seq(Command) /\ SamePlaces(b, Overtaken(b))
         /\ \A i \in 1 .. Len(b) : b[i].cmd = "map" => Overtaken(b)[i].stale
  BY OvertakenIs DEF SamePlaces

\* The buffer as it stood.
LEMMA SameAsItself ==
  ASSUME NEW b \in Seq(Command)
  PROVE  SamePlaces(b, b)
  BY DEF SamePlaces

\* launch_default_map.
LEMMA DefaultKeeps ==
  ASSUME NEW b, Ready(b), buffer' = Overtaken(b) \o <<MapCommand(Default, 0, FALSE)>>,
         UNCHANGED <<dvars, effect, mapname, level, played>>
  PROVE  Held'
  <1> DEFINE c == MapCommand(Default, 0, FALSE)
  <1>1. c \in Command /\ c.pos = 0
    BY DefaultType, CommandFromNone DEF Ready, TypeOK
  <1>2. <<c>> \in Seq(Command)
    BY <1>1, ShortSequences
  <1>3. TypeOK'
    BY DEF Ready, TypeOK, dvars, effect, dedicated, Name
  <1>4. buffer' \in Seq(Command) /\ Good(entries, buffer)'
    <2> HIDE DEF c
    <2>1. b \in Seq(Command) /\ entries \in Seq(Entry) /\ index \in Nat /\ played \in Seq(Nat)
          /\ Good(entries, b)
      BY DEF Ready, TypeOK
    <2>2. UNCHANGED <<entries, index, wrapped, played, level>>
          /\ (~foreign' => ~foreign /\ gametype' = gametype)
      BY DEF effect, dedicated
    <2>3. buffer' = Overtaken(b) \o <<c>>
      BY DEF c
    <2>4. Overtaken(b) \in Seq(Command) /\ SamePlaces(b, Overtaken(b))
      BY <2>1, OvertakenSame
    <2>5. QED
      BY <1>1, <1>2, <2>1, <2>2, <2>3, <2>4, AddsNoEntry
  <1>5. QED
    BY <1>3, <1>4 DEF Held

\* apply_map_rotation_current.
LEMMA CurrentKeeps ==
  ASSUME NEW b, Ready(b), ApplyCurrent(b), UNCHANGED <<dvars, mapname, level, played>>
  PROVE  Held'
  <1> DEFINE data == Parse(current)
             t == Launched(data, 0, 0, FALSE)
  <1>1. data \in Seq(Entry)
    BY ParseType DEF Ready, TypeOK
  <1>2. CASE data = <<>>
    <2>1. buffer' = Overtaken(b) \o <<MapCommand(Default, 0, FALSE)>>
          /\ UNCHANGED <<gametype, foreign, dedicated>>
      BY <1>2 DEF ApplyCurrent, Ready, TypeOK
    <2>2. QED
      BY <2>1, DefaultKeeps DEF effect
  <1>3. CASE data # <<>>
    <2>1. /\ buffer' = Overtaken(b) \o t
          /\ gametype' = GametypeAfter(data, 0)
          /\ foreign' = (foreign \/ OnTheWay(data, 0) # {})
          /\ UNCHANGED dedicated
      BY <1>3 DEF ApplyCurrent
    <2>2. ~foreign' => ~foreign /\ gametype' = gametype
      BY <2>1 DEF GametypeAfter
    <2>3. t = <<>> \/ \E c \in Command : t = <<c>> /\ c.pos = 0
      <3>1. 0 \in 0 .. Len(data) - 1
        BY <1>1, <1>3, EmptySeq
      <3>2. t = <<>> \/ \E m \in Name : t = <<MapCommand(m, 0, FALSE)>>
        BY <1>1, <1>3, <3>1, LaunchedIs DEF Ready, TypeOK
      <3>3. QED
        BY <3>2, CommandFromNone
    <2> HIDE DEF t, data
    <2>4. t \in Seq(Command)
      <3>1. CASE t = <<>>
        BY <3>1
      <3>2. ASSUME NEW e \in Command, t = <<e>> PROVE t \in Seq(Command)
        BY <3>2
      <3>3. QED
        BY <2>3, <3>1, <3>2
    <2>5. b \in Seq(Command) /\ entries \in Seq(Entry) /\ index \in Nat /\ played \in Seq(Nat)
          /\ Good(entries, b)
      BY DEF Ready, TypeOK
    <2>6. Overtaken(b) \in Seq(Command) /\ SamePlaces(b, Overtaken(b))
      BY <2>5, OvertakenSame
    <2>7. UNCHANGED <<entries, index, wrapped, played, level>>
      BY <2>1 DEF dedicated
    <2>8. buffer' \in Seq(Command) /\ Good(entries, buffer)'
      BY <2>1, <2>2, <2>3, <2>4, <2>5, <2>6, <2>7, AddsNoEntry
    <2>9. TypeOK'
      BY <2>1 DEF Ready, TypeOK, dvars, dedicated, Name
    <2>10. QED
      BY <2>8, <2>9 DEF Held
  <1>4. QED
    BY <1>2, <1>3

\* load_map_rotation and apply_rotation.
LEMMA DedicatedKeeps ==
  ASSUME NEW b, Ready(b), ApplyDedicated(b), UNCHANGED <<dvars, mapname, level, played>>
  PROVE  Held'
  <1> DEFINE read == IF loaded \/ rotation = <<>> THEN entries ELSE Parse(rotation)
             c == Calls(read, index)
             p == Position(read, index, c - 1)
             again == wrapped \/ index + c - 1 >= Len(read)
             t == Launched(read, index, p, again)
  <1>1. read \in Seq(Entry) /\ loaded' \in BOOLEAN
    BY ParseType DEF Ready, TypeOK, ApplyDedicated
  <1>2. b \in Seq(Command) /\ entries \in Seq(Entry) /\ index \in Nat /\ played \in Seq(Nat)
        /\ Good(entries, b) /\ wrapped \in BOOLEAN /\ foreign \in BOOLEAN /\ mapname \in Name
    BY DEF Ready, TypeOK
  <1>3. CASE read = <<>>
    <2>1. buffer' = Overtaken(b) \o <<MapCommand(Default, 0, FALSE)>>
          /\ UNCHANGED <<entries, index, wrapped, gametype, foreign>>
      BY <1>3 DEF ApplyDedicated
    <2>2. entries = <<>>
      BY <1>3 DEF Ready, TypeOK
    <2>3. TypeOK'
      BY <1>1, <2>1, <2>2 DEF Ready, TypeOK, dvars, Name
    <2> DEFINE d == MapCommand(Default, 0, FALSE)
    <2>4. d \in Command /\ d.pos = 0
      BY <1>2, DefaultType, CommandFromNone
    <2> HIDE DEF d, read
    <2>5. <<d>> \in Seq(Command)
      BY <2>4, ShortSequences
    <2>6. Overtaken(b) \in Seq(Command) /\ SamePlaces(b, Overtaken(b))
      BY <1>2, OvertakenSame
    <2>7. buffer' = Overtaken(b) \o <<d>>
      BY <2>1 DEF d
    <2>8. buffer' \in Seq(Command) /\ Good(entries, buffer)'
      BY <1>2, <2>1, <2>4, <2>5, <2>6, <2>7, AddsNoEntry
    <2>9. QED
      BY <2>3, <2>8 DEF Held
  <1>4. CASE read # <<>>
    <2>1. /\ loaded' /\ entries' = read
          /\ index' = IndexAfter(read, index)
          /\ wrapped' = (again \/ index + c - 1 + 1 = Len(read))
          /\ gametype' = GametypeAfter(read, index)
          /\ foreign' = (foreign /\ OnTheWay(read, index) = {})
          /\ buffer' = Overtaken(b) \o t
      BY <1>4 DEF ApplyDedicated, Ready, TypeOK
    <2>2. Good(read, b) /\ index \in 0 .. Len(read) - 1
      <3>1. CASE entries # <<>>
        <4>1. read = entries
          BY <3>1 DEF Ready, TypeOK
        <4>2. QED
          BY <1>2, <3>1, <4>1 DEF Ready, TypeOK
      <3>2. CASE entries = <<>>
        <4>1. index = 0 /\ ~wrapped
          BY <3>2 DEF Ready, TypeOK
        <4>2. Len(read) \in Nat \ {0}
          BY <1>1, <1>4, EmptySeq
        <4>3. Good(read, b)
          BY <1>1, <1>2, <3>2, <4>1, NothingRead
        <4>4. QED
          BY <4>1, <4>2, <4>3
      <3>3. QED
        BY <3>1, <3>2
    <2> HIDE DEF read
    <2>3. c \in 1 .. Len(read) /\ Len(read) \in Nat \ {0}
      BY <1>1, <1>4, <2>2, CallsAre, EmptySeq
    <2>4. p \in 1 .. Len(read)
      <3>1. c - 1 \in 0 .. Len(read) - 1
        BY <2>3
      <3>2. QED
        BY <1>1, <1>4, <2>2, <3>1, Positions
    <2>5. index' = (index + c) % Len(read) /\ index' \in 0 .. Len(read) - 1
      BY <1>1, <1>4, <2>1, <2>2, <2>3, IndexFollows DEF IndexAfter
    <2>6. wrapped' = (again \/ index + c = Len(read)) /\ again \in BOOLEAN
      <3>1. index + c - 1 + 1 = index + c
        BY <1>2, <2>3
      <3>2. QED
        BY <2>1, <3>1
    <2>7. ~foreign' => /\ gametype' = GametypeAt(read, index' + 1, wrapped')
                       /\ MapsOf(read) # {} => gametype' = GametypeAt(read, p, again)
      <3>1. SUFFICES ASSUME ~foreign'
                     PROVE  /\ gametype' = GametypeAt(read, index' + 1, wrapped')
                            /\ MapsOf(read) # {} => gametype' = GametypeAt(read, p, again)
        OBVIOUS
      <3>2. OnTheWay(read, index) # {} \/ gametype = GametypeAt(read, index + 1, wrapped)
        BY <2>1, <2>2, <3>1 DEF Good, Gametypes
      <3>3. QED
        BY <1>1, <1>2, <1>4, <2>1, <2>2, <2>6, <3>2, GametypeWalk
    <2>8. TypeOK'
      <3>1. index' \in Nat /\ index' < Len(read)
        BY <2>3, <2>5
      <3>2. wrapped' \in BOOLEAN /\ foreign' \in BOOLEAN
        BY <2>1
      <3>3. QED
        BY <1>1, <1>2, <1>4, <2>1, <3>1, <3>2 DEF Ready, TypeOK, dvars, Name
    <2>9. Overtaken(b) \in Seq(Command) /\ SamePlaces(b, Overtaken(b))
          /\ \A i \in 1 .. Len(b) : b[i].cmd = "map" => Overtaken(b)[i].stale
      BY <1>2, OvertakenSame
    <2>10. CASE MapsOf(read) # {}
      <3>1. p \in MapsOf(read) /\ p = NextMap(read, index)
        BY <1>1, <2>2, <2>10, ComesToNextMap
      <3>2. NextMap(read, index') = NextMap(read, p)
        <4>1. index' = p % Len(read)
          <5>1. /\ index + (c - 1) < Len(read) => p = index + (c - 1) + 1
                /\ index + (c - 1) >= Len(read) => p = index + (c - 1) + 1 - Len(read)
            <6>1. c - 1 \in 0 .. Len(read) - 1
              BY <2>3
            <6>2. QED
              BY <1>1, <1>4, <2>2, <6>1, Positions
          <5>2. index + c >= Len(read) => (index + c) % Len(read) = index + c - Len(read)
            BY <1>1, <1>4, <2>2, <2>3, IndexFollows
          <5> HIDE DEF c, p
          <5>3. CASE index + c <= Len(read)
            <6>1. p = index + c
              BY <2>2, <2>3, <5>1, <5>3
            <6>2. QED
              BY <2>5, <6>1
          <5>4. CASE index + c > Len(read)
            <6>1. p = index + c - Len(read) /\ p < Len(read) /\ p \in Nat
              BY <2>2, <2>3, <5>1, <5>4
            <6>2. p % Len(read) = p
              BY <2>3, <6>1, Remainders
            <6>3. index' = p
              BY <2>2, <2>3, <2>5, <5>2, <5>4, <6>1
            <6>4. QED
              BY <6>2, <6>3
          <5>5. QED
            BY <2>2, <2>3, <5>3, <5>4
        <4>2. QED
          BY <1>1, <2>4, <4>1, NextFromEnd
      <3>3. PICK m \in Name : t = <<MapCommand(m, p, again)>>
        <4>1. p \in Nat
          BY <2>3, <2>4
        <4> DEFINE r == p
                   w == again
        <4> HIDE DEF r, w
        <4>2. r \in Nat /\ w \in BOOLEAN
          BY <2>6, <4>1 DEF r, w
        <4>3. \E m \in Name : Launched(read, index, r, w) = <<MapCommand(m, r, w)>>
          BY <1>1, <1>2, <1>4, <2>2, <2>10, <4>2, LaunchedIs
        <4>4. QED
          BY <4>3 DEF r, w
      <3> DEFINE d == MapCommand(m, p, again)
      <3>4. d \in Command /\ d.cmd = "map" /\ d.pos = p /\ d.again = again /\ d.pos # 0
        BY <2>3, <2>4, <2>6 DEF MapCommand, Command
      <3>5. buffer' = Overtaken(b) \o <<d>>
        BY <2>1, <3>3
      <3> HIDE DEF d, p, again, c, t
      <3>6. buffer' \in Seq(Command) /\ Good(entries, buffer)'
        BY <1>1, <1>2, <2>1, <2>2, <2>7, <2>9, <2>10, <3>1, <3>2, <3>4, <3>5, AddsNext
      <3>7. QED
        BY <2>8, <3>6 DEF Held
    <2>11. CASE MapsOf(read) = {}
      <3>1. t = <<>>
        <4> DEFINE r == p
                   w == again
        <4>1. r \in Nat /\ w \in BOOLEAN
          BY <2>3, <2>4, <2>6
        <4> HIDE DEF r, w
        <4>2. Launched(read, index, r, w) = <<>>
          BY <1>1, <1>2, <1>4, <2>2, <2>11, <4>1, LaunchedIs
        <4>3. QED
          BY <4>2 DEF r, w
      <3>2. buffer' = Overtaken(b)
        BY <2>1, <2>9, <3>1
      <3>3. DOMAIN b = 1 .. Len(b) /\ DOMAIN buffer' = 1 .. Len(b) /\ Len(buffer') = Len(b)
            /\ Len(b) \in Nat
        BY <1>2, <2>9, <3>2, LenProperties DEF SamePlaces
      <3>4. \A i \in 1 .. Len(b) : buffer'[i].pos = 0
        <4>1. \A i \in 1 .. Len(b) : b[i].pos = 0
          BY <2>2, <2>11, <3>3 DEF Good, FromMaps
        <4>2. QED
          BY <2>9, <3>2, <4>1 DEF SamePlaces
      <3>5. played = <<>>
        <4>1. DOMAIN played = {}
          BY <2>2, <2>11 DEF Good, Played
        <4>2. QED
          BY <1>2, <4>1
      <3>6. FromMaps(entries, buffer)'
        BY <3>3, <3>4 DEF FromMaps
      <3>7. InOrder(entries, buffer)'
        <4>1. Line(buffer)' = [i \in 0 .. Len(b) |-> 0]
          BY <3>3, <3>4, <3>5 DEF Line
        <4>2. \A x, y : NextMap(read, x) = NextMap(read, y)
          BY <2>11 DEF NextMap
        <4>3. Orderly(read, [i \in 0 .. Len(b) |-> 0], Len(b), index')
          BY <4>2 DEF Orderly
        <4>4. QED
          BY <2>1, <3>3, <4>1, <4>3 DEF InOrder
      <3>8. Played(entries)'
        BY <3>5 DEF Played
      <3>9. Gametypes(entries, buffer)'
        BY <2>1, <2>7, <3>3, <3>4 DEF Gametypes
      <3>10. LevelRight(entries)'
        BY <2>1, <2>2, <2>11 DEF Good, LevelRight
      <3>11. Good(entries, buffer)'
        BY <3>6, <3>7, <3>8, <3>9, <3>10 DEF Good
      <3>12. QED
        BY <2>8, <2>9, <3>2, <3>11 DEF Held
    <2>12. QED
      BY <2>10, <2>11
  <1>5. QED
    BY <1>3, <1>4

\* A step that leaves the buffer as b, or appends a map_rotate to it.
LEMMA KeptAs ==
  ASSUME NEW b, Ready(b), buffer' = b \/ buffer' = Append(b, Rotate),
         UNCHANGED <<rotation, random, effect, mapname, level, played>>, current' \in Seq(Entry)
  PROVE  Held'
  <1>1. b \in Seq(Command) /\ entries \in Seq(Entry) /\ index \in Nat /\ played \in Seq(Nat)
        /\ Good(entries, b)
    BY DEF Ready, TypeOK
  <1>2. UNCHANGED <<entries, index, wrapped, played, level>>
        /\ (~foreign' => ~foreign /\ gametype' = gametype)
    BY DEF effect, dedicated
  <1>3. Rotate \in Command /\ Rotate.pos = 0
    BY DEF Rotate, Command, Name
  <1>4. PICK t \in Seq(Command) :
          /\ t = <<>> \/ \E c \in Command : t = <<c>> /\ c.pos = 0
          /\ buffer' = b \o t
    <2>1. CASE buffer' = b
      <3>1. b = b \o <<>> /\ <<>> \in Seq(Command)
        BY <1>1
      <3>2. QED
        BY <2>1, <3>1
    <2>2. CASE buffer' = Append(b, Rotate)
      <3>1. buffer' = b \o <<Rotate>> /\ <<Rotate>> \in Seq(Command)
        BY <1>1, <1>3, <2>2
      <3>2. QED
        BY <1>3, <3>1
    <2>3. QED
      BY <2>1, <2>2
  <1>5. buffer' \in Seq(Command) /\ Good(entries, buffer)'
    BY <1>1, <1>2, <1>4, SameAsItself, AddsNoEntry
  <1>6. TypeOK'
    BY DEF Ready, TypeOK, effect, dedicated, Name
  <1>7. QED
    BY <1>5, <1>6 DEF Held

\* perform_map_rotation.
LEMMA PerformKeeps ==
  ASSUME NEW t, NEW b, Ready(b), Perform(t, b), UNCHANGED <<dvars, mapname, level, played>>
  PROVE  Held'
  <1>1. CASE sync # "zero"
    <2>1. buffer' = b /\ UNCHANGED effect
      BY <1>1 DEF Perform
    <2>2. current' \in Seq(Entry)
      BY DEF Ready, TypeOK, dvars
    <2>3. QED
      BY <2>1, <2>2, KeptAs DEF dvars
  <1>2. CASE sync = "zero" /\ current # <<>>
    BY <1>2, CurrentKeeps DEF Perform
  <1>3. CASE sync = "zero" /\ current = <<>>
    BY <1>3, DedicatedKeeps DEF Perform
  <1>4. QED
    BY <1>1, <1>2, <1>3

\* The engine's map command: what was last played moves on with it.
LEMMA RunMapKeeps ==
  ASSUME Ready(buffer), RunMap
  PROVE  Held'
  <1> DEFINE c == Head(buffer)
             t == Tail(buffer)
  <1>1. /\ buffer \in Seq(Command) /\ buffer # <<>>
        /\ played \in Seq(Nat) /\ Good(entries, buffer)
    BY DEF Ready, TypeOK, RunMap
  <1>2. c \in Command /\ 1 \in DOMAIN buffer /\ c = buffer[1]
    BY <1>1
  <1>3. c.pos \in Nat /\ c.map \in Name
    BY <1>2 DEF Command
  <1>4. /\ mapname' = c.map /\ buffer' = t
        /\ level' = [map |-> c.map, pos |-> c.pos, again |-> c.again, stale |-> c.stale,
                     gametype |-> gametype, foreign |-> foreign]
        /\ played' = IF c.pos = 0 THEN played ELSE Append(played, c.pos)
        /\ UNCHANGED <<rotation, current, random, entries, index, loaded, wrapped, gametype, foreign>>
    BY DEF RunMap, dvars, effect, dedicated
  <1>5. /\ t \in Seq(Command) /\ FromMaps(entries, t) /\ Gametypes(entries, t)
        /\ Orderly(entries, Behind(buffer, t), Len(t), index)
        /\ c.pos # 0 => c.pos = NextMap(entries, Line(buffer)[0])
    BY <1>1, BehindFirst
  <1>6. c.pos # 0 => c.pos \in MapsOf(entries)
    BY <1>1, <1>2 DEF Good, FromMaps
  <1>7. c.pos # 0 /\ ~c.stale /\ ~foreign => gametype = GametypeAt(entries, c.pos, c.again)
    BY <1>1, <1>2 DEF Good, Gametypes
  <1> HIDE DEF c, t
  <1>8. TypeOK'
    <2>1. played' \in Seq(Nat)
      BY <1>1, <1>3, <1>4
    <2>2. QED
      BY <1>3, <1>4, <2>1 DEF Ready, TypeOK, Name
  <1>9. FromMaps(entries, buffer)'
    BY <1>4, <1>5 DEF FromMaps
  <1>10. InOrder(entries, buffer)'
    <2>1. Line(buffer)' = Behind(buffer, t)
      <3>1. c.pos # 0 => played' # <<>> /\ played'[Len(played')] = c.pos
        BY <1>1, <1>3, <1>4
      <3>2. QED
        BY <1>4, <3>1 DEF Line, Behind, c
    <2>2. QED
      BY <1>4, <1>5, <2>1 DEF InOrder
  <1>11. Played(entries)'
    <2>1. CASE c.pos = 0
      BY <1>1, <1>4, <2>1 DEF Good, Played
    <2>2. CASE c.pos # 0
      <3> DEFINE n == Len(played)
      <3>1. n \in Nat /\ DOMAIN played = 1 .. n /\ DOMAIN played' = 1 .. n + 1
        BY <1>1, <1>3, <1>4, <2>2
      <3>2. played'[n + 1] = c.pos /\ \A i \in 1 .. n : played'[i] = played[i]
        BY <1>1, <1>3, <1>4, <2>2
      <3>3. Line(buffer)[0] = IF n = 0 THEN 0 ELSE played[n]
        <4>1. Len(buffer) \in Nat /\ (n = 0 <=> played = <<>>)
          BY <1>1
        <4>2. 0 \in 0 .. Len(buffer)
          BY <4>1
        <4>3. QED
          BY <4>1, <4>2 DEF Line
      <3> HIDE DEF n
      <3>4. ASSUME NEW i \in 1 .. n + 1
            PROVE  /\ played'[i] \in MapsOf(entries)
                   /\ played'[i] = NextMap(entries, IF i = 1 THEN 0 ELSE played'[i - 1])
        <4>1. CASE i = n + 1
          <5>1. i = 1 <=> n = 0
            BY <3>1, <4>1
          <5>2. n # 0 => i - 1 = n /\ n \in 1 .. n
            BY <3>1, <4>1
          <5>3. (IF i = 1 THEN 0 ELSE played'[i - 1]) = Line(buffer)[0]
            BY <3>2, <3>3, <5>1, <5>2
          <5>4. QED
            BY <1>5, <1>6, <2>2, <3>2, <4>1, <5>3
        <4>2. CASE i # n + 1
          <5>1. i \in 1 .. n /\ (i # 1 => i - 1 \in 1 .. n)
            BY <3>1, <4>2
          <5>2. played'[i] = played[i] /\ (i # 1 => played'[i - 1] = played[i - 1])
            BY <3>2, <5>1
          <5>3. /\ played[i] \in MapsOf(entries)
                /\ played[i] = NextMap(entries, IF i = 1 THEN 0 ELSE played[i - 1])
            BY <1>1, <3>1, <5>1 DEF Good, Played
          <5>4. QED
            BY <5>2, <5>3
        <4>3. QED
          BY <4>1, <4>2
      <3>5. QED
        BY <1>4, <3>1, <3>4 DEF Played
    <2>3. QED
      BY <2>1, <2>2
  <1>12. Gametypes(entries, buffer)'
    BY <1>4, <1>5 DEF Gametypes
  <1>13. LevelRight(entries)'
    <2>1. level'.pos = c.pos /\ level'.stale = c.stale /\ level'.again = c.again
          /\ level'.gametype = gametype /\ level'.foreign = foreign /\ entries' = entries
      BY <1>4
    <2>2. QED
      BY <1>6, <1>7, <2>1 DEF LevelRight
  <1>14. QED
    BY <1>4, <1>5, <1>8, <1>9, <1>10, <1>11, <1>12, <1>13 DEF Good, Held

\* The invariant holds at the start.
LEMMA InitIInv == Init => IInv
  <1> SUFFICES ASSUME Init, ~random PROVE TypeOK /\ buffer \in Seq(Command) /\ Good(entries, buffer)
    BY DEF IInv
  <1>1. /\ entries = <<>> /\ index = 0 /\ loaded = FALSE /\ wrapped = FALSE
        /\ gametype = Gametype /\ foreign = FALSE /\ mapname = None /\ level = None
        /\ played = <<>> /\ buffer = <<>>
    BY DEF Init
  <1>2. rotation \in Seq(Entry) /\ current \in Seq(Entry)
    BY RotationAssumption DEF Init
  <1>3. TypeOK
    <2>1. entries \in Seq(Entry) /\ played \in Seq(Nat) /\ index \in Nat
      BY <1>1
    <2>2. loaded \in BOOLEAN /\ wrapped \in BOOLEAN /\ foreign \in BOOLEAN /\ ~wrapped
      BY <1>1
    <2>3. mapname \in Name
      BY <1>1 DEF Name
    <2>4. QED
      BY <1>1, <1>2, <2>1, <2>2, <2>3 DEF TypeOK
  <1>4. FromMaps(entries, buffer) /\ Played(entries) /\ LevelRight(entries)
    BY <1>1 DEF FromMaps, Played, LevelRight
  <1>5. InOrder(entries, buffer)
    <2>1. Line(buffer) = [i \in 0 .. 0 |-> 0] /\ Len(buffer) = 0
      BY <1>1 DEF Line
    <2>2. Orderly(entries, [i \in 0 .. 0 |-> 0], 0, 0)
      BY DEF Orderly, Neighbours
    <2>3. QED
      BY <1>1, <2>1, <2>2 DEF InOrder
  <1>6. Gametypes(entries, buffer)
    <2>1. GametypeAt(<<>>, 1, FALSE) = Gametype
      BY DEF GametypeAt
    <2>2. index + 1 = 1 /\ DOMAIN buffer = {}
      BY <1>1
    <2>3. GametypeAt(entries, index + 1, wrapped) = GametypeAt(<<>>, 1, FALSE)
      BY <1>1, <2>2
    <2>4. QED
      BY <1>1, <2>1, <2>2, <2>3 DEF Gametypes
  <1>7. QED
    BY <1>1, <1>3, <1>4, <1>5, <1>6 DEF Good

\* Every step keeps it.
LEMMA NextIInv == IInv /\ [Next]_vars => IInv'
  <1> SUFFICES ASSUME IInv, [Next]_vars, ~random' PROVE Held'
    BY DEF IInv, Held
  <1> USE DEF dvars
  <1>1. random' = random
    BY DEF Next, vars, RunRotate, RunMap, Watch, StartPrivate, Initialized, Start, RunStartup,
           PerformDue, RotateDue, LevelEnds, Error, Console, Startup, SetCurrent, SignedIn, CgameDown
  <1>2. Ready(buffer)
    BY <1>1 DEF IInv, Ready
  <1>3. current \in Seq(Entry)
    BY <1>2 DEF Ready, TypeOK
  <1>4. CASE RunRotate
    <2>1. buffer # <<>> /\ Head(buffer).cmd = "map_rotate" /\ Perform(tasks, Tail(buffer))
          /\ UNCHANGED <<dvars, mapname, level, played>>
      BY <1>4 DEF RunRotate, game
    <2>2. Ready(Tail(buffer))
      BY <1>2, <2>1, BehindRotate DEF Ready, TypeOK
    <2>3. QED
      BY <2>1, <2>2, PerformKeeps
  <1>5. CASE RunMap
    BY <1>2, <1>5, RunMapKeeps
  <1>6. CASE RunStartup
    BY <1>2, <1>6, PerformKeeps DEF RunStartup, game
  <1>7. CASE PerformDue
    BY <1>2, <1>7, PerformKeeps DEF PerformDue, game
  <1>8. CASE Startup
    <2>1. UNCHANGED <<dvars, mapname, level, played>>
      BY <1>8 DEF Startup, game
    <2>2. CASE sync = "zero"
      BY <1>2, <1>8, <2>1, <2>2, PerformKeeps DEF Startup
    <2>3. CASE sync # "zero"
      <3>1. buffer' = buffer /\ UNCHANGED effect
        BY <1>8, <2>3 DEF Startup
      <3>2. QED
        BY <1>2, <1>3, <2>1, <3>1, KeptAs
    <2>4. QED
      BY <2>2, <2>3
  <1>9. CASE RotateDue
    BY <1>2, <1>3, <1>9, KeptAs DEF RotateDue, game
  <1>10. CASE Console
    BY <1>2, <1>3, <1>10, KeptAs DEF Console, game
  <1>11. CASE SetCurrent
    <2>1. current' \in Seq(Entry) /\ buffer' = buffer
          /\ UNCHANGED <<rotation, random, effect, mapname, level, played>>
      BY <1>11, RotationAssumption DEF SetCurrent, game
    <2>2. QED
      BY <1>2, <2>1, KeptAs
  <1>12. CASE \/ Watch \/ StartPrivate \/ Initialized \/ Start \/ LevelEnds \/ Error
              \/ SignedIn \/ CgameDown \/ UNCHANGED vars
    <2>1. buffer' = buffer /\ UNCHANGED <<dvars, effect, mapname, level, played>>
      BY <1>12 DEF Watch, StartPrivate, Initialized, Start, LevelEnds, Error, SignedIn, CgameDown,
                   vars, game
    <2>2. QED
      BY <1>2, <1>3, <2>1, KeptAs
  <1>13. QED
    BY <1>4, <1>5, <1>6, <1>7, <1>8, <1>9, <1>10, <1>11, <1>12 DEF Next

\* The invariant holds in every behaviour: what the buffer holds, what was played
\* and what the index comes to next form one line through the rotation.
THEOREM Invariant == Spec => []IInv
  BY InitIInv, NextIInv, PTL DEF Spec

\* The maps of a rotation that is not shuffled are played in their order, round
\* and round, none left out (InTurn), however many rotations the levels that
\* end, errors, the console and the command line have asked for at once.
THEOREM MapsTakeTurns == Spec => []InTurn
  <1>1. IInv => InTurn
    BY DEF IInv, Good, Played, InTurn
  <1>2. QED
    BY <1>1, Invariant, PTL

\* A map of such a rotation is played with its own gametype (GametypeOfMap).
THEOREM GametypeIsRight == Spec => []GametypeOfMap
  <1>1. IInv => GametypeOfMap
    BY DEF IInv, Good, LevelRight, GametypeOfMap
  <1>2. QED
    BY <1>1, Invariant, PTL
====
