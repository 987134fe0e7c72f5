------------------------- MODULE ProgramOrderingProofs -------------------------
(***************************************************************************)
(* Proofs about ProgramOrdering, for any choreographies, schedules and     *)
(* days: the numbers are always unique positions, an ordering and a move   *)
(* leave what was announced alone, a move lands where it was dropped, and  *)
(* an ordering leaves the rows in its own order: repeated, it changes      *)
(* nothing, and the clashes that are left are forced.                      *)
(*                                                                         *)
(* Inv adds to TypeOK a bound on the numbers, without which there might be *)
(* no room beside the blocked positions.  Placed, a recursion, is shown to *)
(* be a sequence of turns: each row the next one when those before it have *)
(* the first free positions.  OInv adds what the last ordering left, with  *)
(* no word of the turns it took.  Where a proof would be by induction it   *)
(* takes the least counterexample, which LeastNatural says there is.       *)
(***************************************************************************)
EXTENDS ProgramOrdering, FiniteSetTheorems, WellFoundedInduction, TLAPS

-----------------------------------------------------------------------------
\* THE LEAST NATURAL

\* < on the naturals as a relation, which the library proves well founded.
Smaller == {e \in Nat \X Nat : e[1] < e[2]}

\* No sequence of naturals descends forever.
LEMMA SmallerWellFounded == IsWellFoundedOn(Smaller, Nat)
  BY NatLessThanWellFounded, Zenon DEF OpToRel, Smaller

\* A set of naturals with a member has a least one: the induction of this module.
LEMMA LeastNatural ==
    ASSUME NEW T \in SUBSET Nat, T # {}
    PROVE  \E n \in T : \A m \in T : n <= m
<1>1. PICK n \in T : \A m \in T : ~(<<m, n>> \in Smaller)
  BY WFMin, SmallerWellFounded
<1>2. ASSUME NEW m \in T PROVE n <= m
  <2>1. n \in Nat /\ m \in Nat
    OBVIOUS
  <2>2. ~(<<m, n>> \in Smaller)
    BY <1>1
  <2>3. ~(m < n)
    BY <2>1, <2>2 DEF Smaller
  <2>. QED  BY <2>1, <2>3
<1>. QED  BY <1>2

\* What Min returns.
LEMMA MinOfNaturals ==
    ASSUME NEW T \in SUBSET Nat, T # {}
    PROVE  Min(T) \in T /\ \A m \in T : Min(T) <= m
<1>1. \E n \in T : \A m \in T : n <= m
  BY LeastNatural
<1>. QED  BY <1>1 DEF Min

\* Whoever is least is the minimum.
LEMMA MinIs ==
    ASSUME NEW T \in SUBSET Nat, NEW n \in T, \A m \in T : n <= m
    PROVE  Min(T) = n
<1>1. Min(T) \in T /\ Min(T) <= n
  BY MinOfNaturals
<1>2. n <= Min(T) /\ Min(T) \in Nat /\ n \in Nat
  BY <1>1
<1>. QED  BY <1>1, <1>2

-----------------------------------------------------------------------------
\* FREE POSITIONS

\* How many positions up to p are not in b.
FreeUpTo(b, p) == Cardinality((1 .. p) \ b)

\* It counts: from none, one more at each position that is not in b.
LEMMA FreeUpToCounts ==
    ASSUME NEW b, NEW p \in Nat
    PROVE  /\ FreeUpTo(b, p) \in Nat
           /\ FreeUpTo(b, 0) = 0
           /\ p + 1 \notin b => FreeUpTo(b, p + 1) = FreeUpTo(b, p) + 1
           /\ p + 1 \in b => FreeUpTo(b, p + 1) = FreeUpTo(b, p)
<1>1. IsFiniteSet(1 .. p)
  BY FS_Interval
<1>2. IsFiniteSet((1 .. p) \ b)
  BY <1>1, FS_Difference
<1>3. FreeUpTo(b, p) \in Nat
  BY <1>2, FS_CardinalityType DEF FreeUpTo
<1>4. (1 .. 0) \ b = {}
  OBVIOUS
<1>5. FreeUpTo(b, 0) = 0
  BY <1>4, FS_EmptySet DEF FreeUpTo
<1>6. ASSUME p + 1 \notin b PROVE FreeUpTo(b, p + 1) = FreeUpTo(b, p) + 1
  <2>1. (1 .. p + 1) \ b = ((1 .. p) \ b) \cup {p + 1}
    BY <1>6
  <2>2. p + 1 \notin (1 .. p) \ b
    OBVIOUS
  <2>. QED  BY <2>1, <2>2, <1>2, FS_AddElement DEF FreeUpTo
<1>7. ASSUME p + 1 \in b PROVE FreeUpTo(b, p + 1) = FreeUpTo(b, p)
  <2>1. (1 .. p + 1) \ b = (1 .. p) \ b
    BY <1>7
  <2>. QED  BY <2>1 DEF FreeUpTo
<1>. QED  BY <1>3, <1>5, <1>6, <1>7

\* It never falls, and a position that is not in b raises it.
LEMMA FreeUpToGrows ==
    ASSUME NEW b, NEW p \in Nat, NEW q \in Nat, p < q
    PROVE  /\ FreeUpTo(b, p) <= FreeUpTo(b, q)
           /\ q \notin b => FreeUpTo(b, p) < FreeUpTo(b, q)
<1>1. IsFiniteSet(1 .. q)
  BY FS_Interval
<1>2. IsFiniteSet((1 .. q) \ b)
  BY <1>1, FS_Difference
<1>3. (1 .. p) \ b \subseteq (1 .. q) \ b
  OBVIOUS
<1>4. FreeUpTo(b, p) <= FreeUpTo(b, q)
  BY <1>2, <1>3, FS_Subset DEF FreeUpTo
<1>5. ASSUME q \notin b PROVE FreeUpTo(b, p) < FreeUpTo(b, q)
  <2>1. q \in (1 .. q) \ b /\ q \notin (1 .. p) \ b
    BY <1>5
  <2>2. Cardinality((1 .. p) \ b) # Cardinality((1 .. q) \ b)
    BY <1>2, <1>3, <2>1, FS_Subset
  <2>3. FreeUpTo(b, p) \in Nat /\ FreeUpTo(b, q) \in Nat
    BY FreeUpToCounts
  <2>. QED  BY <1>4, <2>2, <2>3 DEF FreeUpTo
<1>. QED  BY <1>4, <1>5

\* Only the members of b are missing from it.
LEMMA FreeUpToMisses ==
    ASSUME NEW b, IsFiniteSet(b), NEW p \in Nat
    PROVE  p <= FreeUpTo(b, p) + Cardinality(b)
<1>1. IsFiniteSet(1 .. p) /\ Cardinality(1 .. p) = p
  BY FS_Interval
<1>2. Cardinality((1 .. p) \ b) = Cardinality(1 .. p) - Cardinality((1 .. p) \cap b)
  BY <1>1, FS_Difference
<1>3. (1 .. p) \cap b \subseteq b
  OBVIOUS
<1>4. Cardinality((1 .. p) \cap b) <= Cardinality(b) /\ IsFiniteSet((1 .. p) \cap b)
  BY <1>3, FS_Subset
<1>5. Cardinality((1 .. p) \cap b) \in Nat /\ Cardinality(b) \in Nat
  BY <1>4, FS_CardinalityType
<1>. QED  BY <1>1, <1>2, <1>4, <1>5 DEF FreeUpTo

\* There are at most Cardinality(Choreographies) + 1 positions.
LEMMA PositionsAreNumbers ==
    /\ Cardinality(Choreographies) \in Nat
    /\ Positions \subseteq Nat \ {0}
    /\ Cardinality(Choreographies) + 1 \in Positions
<1>1. Cardinality(Choreographies) \in Nat
  BY NumberAssumption, FS_CardinalityType
<1>. QED  BY <1>1 DEF Positions

\* A position that is not in b is the free position its count says.
LEMMA FreePositionIs ==
    ASSUME NEW b, NEW p \in Positions, p \notin b
    PROVE  FreePosition(b, FreeUpTo(b, p)) = p
<1> DEFINE i == FreeUpTo(b, p)
<1>1. \A q \in Positions : q \notin b /\ FreeUpTo(b, q) = i => q = p
  <2> SUFFICES ASSUME NEW q \in Positions, q \notin b, FreeUpTo(b, q) = i PROVE q = p
    OBVIOUS
  <2>1. p \in Nat /\ q \in Nat
    BY PositionsAreNumbers
  <2>2. i \in Nat
    BY <2>1, FreeUpToCounts
  <2>3. ~(p < q)
    BY <2>1, <2>2, FreeUpToGrows
  <2>4. ~(q < p)
    BY <2>1, <2>2, FreeUpToGrows
  <2>. QED  BY <2>1, <2>3, <2>4
<1>2. FreePosition(b, i) = CHOOSE q \in Positions : q \notin b /\ FreeUpTo(b, q) = i
  BY DEF FreePosition, FreeUpTo
<1>. QED  BY <1>1, <1>2, Zenon

\* The i-th free position, when b leaves room for it.
LEMMA FreePositionExists ==
    ASSUME NEW b, IsFiniteSet(b), NEW i \in Nat, 1 <= i,
           i + Cardinality(b) <= Cardinality(Choreographies) + 1
    PROVE  /\ FreePosition(b, i) \in Positions
           /\ FreePosition(b, i) \notin b
           /\ FreeUpTo(b, FreePosition(b, i)) = i
           /\ FreePosition(b, i) <= i + Cardinality(b)
<1> DEFINE N == Cardinality(Choreographies) + 1
           T == {p \in Nat : p <= N /\ FreeUpTo(b, p) >= i}
<1>1. N \in Nat /\ Cardinality(b) \in Nat
  BY PositionsAreNumbers, FS_CardinalityType
<1>2. FreeUpTo(b, N) \in Nat /\ N <= FreeUpTo(b, N) + Cardinality(b)
  BY <1>1, FreeUpToCounts, FreeUpToMisses
<1>3. N \in T
  BY <1>1, <1>2
<1>4. PICK p \in T : \A q \in T : p <= q
  BY <1>3, LeastNatural
<1>5. p \in Nat /\ p <= N /\ FreeUpTo(b, p) >= i /\ FreeUpTo(b, p) \in Nat
  BY FreeUpToCounts
<1>6. p # 0
  BY <1>5, FreeUpToCounts
<1>7. p - 1 \in Nat /\ (p - 1) + 1 = p
  BY <1>5, <1>6
<1>8. FreeUpTo(b, p - 1) \in Nat /\ ~(FreeUpTo(b, p - 1) >= i)
  BY <1>1, <1>4, <1>5, <1>7, FreeUpToCounts
<1>9. p \notin b => FreeUpTo(b, p) = FreeUpTo(b, p - 1) + 1
  BY <1>7, FreeUpToCounts
<1>10. p \in b => FreeUpTo(b, p) = FreeUpTo(b, p - 1)
  BY <1>7, FreeUpToCounts
<1>11. p \notin b /\ FreeUpTo(b, p) = i
  BY <1>5, <1>8, <1>9, <1>10
<1>12. p \in Positions
  BY <1>1, <1>5, <1>6 DEF Positions
<1>13. FreePosition(b, i) = p
  BY <1>11, <1>12, FreePositionIs
<1>14. p <= i + Cardinality(b)
  BY <1>5, <1>11, FreeUpToMisses
<1>. QED  BY <1>11, <1>12, <1>13, <1>14

\* Free positions come in order.
LEMMA FreePositionsInOrder ==
    ASSUME NEW b, IsFiniteSet(b), NEW i \in Nat, NEW j \in Nat, 1 <= i, i < j,
           j + Cardinality(b) <= Cardinality(Choreographies) + 1
    PROVE  FreePosition(b, i) < FreePosition(b, j)
<1>1. Cardinality(b) \in Nat /\ Cardinality(Choreographies) \in Nat
  BY PositionsAreNumbers, FS_CardinalityType
<1>2. FreePosition(b, i) \in Positions /\ FreeUpTo(b, FreePosition(b, i)) = i
  BY <1>1, FreePositionExists
<1>3. FreePosition(b, j) \in Positions /\ FreeUpTo(b, FreePosition(b, j)) = j
  BY <1>1, FreePositionExists
<1>4. FreePosition(b, i) \in Nat /\ FreePosition(b, j) \in Nat
  BY <1>2, <1>3, PositionsAreNumbers
<1>5. ~(FreePosition(b, j) < FreePosition(b, i))
  BY <1>2, <1>3, <1>4, FreeUpToGrows
<1>6. FreePosition(b, j) # FreePosition(b, i)
  BY <1>2, <1>3
<1>. QED  BY <1>4, <1>5, <1>6

-----------------------------------------------------------------------------
\* THE INVARIANT

Deleted == {x \in Choreographies : row[x].stage = "deleted"}

\* Only a deletion leaves a number that nobody has below one that somebody has.
NumbersBounded ==
    \A x \in Numbered : row[x].number <= Cardinality(Numbered) + Cardinality(Deleted)

Inv == TypeOK /\ NumbersBounded

\* The fields of a row.
LEMMA RowFields ==
    ASSUME TypeOK, NEW x \in Choreographies
    PROVE  /\ row[x].stage \in {"none", "on", "withdrawn", "deleted"}
           /\ row[x].kind \in Kinds \cup {None}
           /\ row[x].number \in Nat
           /\ row[x].number <= Cardinality(Choreographies)
<1>1. row[x] \in [stage : {"none", "on", "withdrawn", "deleted"},
                  kind : Kinds \cup {None},
                  number : 0 .. Cardinality(Choreographies)]
  BY DEF TypeOK
<1>2. Cardinality(Choreographies) \in Nat
  BY PositionsAreNumbers
<1>. QED  BY <1>1, <1>2

\* The set of numbers of some numbered rows.
NumbersOf(S) == {row[x].number : x \in S}

\* The parts an ordering divides the rows in, and what a numbered row has.
LEMMA Parts ==
    ASSUME TypeOK
    PROVE  /\ Numbered \subseteq Registered /\ Registered \subseteq Choreographies
           /\ Frozen \subseteq Numbered /\ Held \subseteq Numbered /\ Frozen \subseteq Held
           /\ Movable \subseteq Registered /\ Movable \cap Held = {}
           /\ Numbered = Held \cup (Movable \cap Numbered)
           /\ Deleted \subseteq Choreographies /\ Deleted \cap Registered = {}
           /\ Withdrawn \subseteq Registered
           /\ evaluated \subseteq Numbered /\ evaluated \cap Withdrawn = {}
<1>1. Registered \subseteq Choreographies /\ Numbered \subseteq Registered
  BY DEF Registered, Numbered
<1>2. Frozen \subseteq Numbered /\ Held \subseteq Numbered /\ Frozen \subseteq Held
  BY DEF Frozen, Held
<1>3. Movable \subseteq Registered /\ Movable \cap Held = {}
  BY DEF Movable, Held
<1>4. Numbered = Held \cup (Movable \cap Numbered)
  BY <1>1 DEF Movable, Held
<1>5. Deleted \subseteq Choreographies /\ Deleted \cap Registered = {}
  BY DEF Deleted, Registered
<1>6. Withdrawn \subseteq Registered
  BY DEF Withdrawn, Registered
<1>7. evaluated \subseteq Numbered /\ evaluated \cap Withdrawn = {}
  BY DEF TypeOK
<1>. QED  BY <1>1, <1>2, <1>3, <1>4, <1>5, <1>6, <1>7

\* A numbered row's number is a position, and only its own.
LEMMA NumbersAreApart ==
    ASSUME TypeOK
    PROVE  /\ \A x \in Numbered : row[x].number \in 1 .. Cardinality(Choreographies)
           /\ \A x, y \in Numbered : row[x].number = row[y].number => x = y
<1>1. ASSUME NEW x \in Numbered PROVE row[x].number \in 1 .. Cardinality(Choreographies)
  <2>1. x \in Choreographies /\ row[x].number # 0
    BY DEF Numbered, Registered, Unnumbered
  <2>2. row[x].number \in Nat /\ row[x].number <= Cardinality(Choreographies)
    BY <2>1, RowFields
  <2>3. Cardinality(Choreographies) \in Nat
    BY PositionsAreNumbers
  <2>. QED  BY <2>1, <2>2, <2>3
<1>2. \A x, y \in Numbered : row[x].number = row[y].number => x = y
  BY DEF TypeOK
<1>. QED  BY <1>1, <1>2

\* Sets of rows are finite.
LEMMA RowsAreFinite ==
    ASSUME NEW S \in SUBSET Choreographies
    PROVE  /\ IsFiniteSet(S) /\ Cardinality(S) \in Nat
           /\ Cardinality(S) <= Cardinality(Choreographies)
<1>1. IsFiniteSet(Choreographies)
  BY NumberAssumption
<1>2. IsFiniteSet(S) /\ Cardinality(S) <= Cardinality(Choreographies)
  BY <1>1, FS_Subset
<1>. QED  BY <1>2, FS_CardinalityType

\* There are as many numbers as numbered rows.
LEMMA AsManyNumbers ==
    ASSUME TypeOK, NEW S \in SUBSET Numbered
    PROVE  /\ IsFiniteSet(NumbersOf(S))
           /\ Cardinality(NumbersOf(S)) = Cardinality(S)
<1> DEFINE f == [x \in S |-> row[x].number]
<1>1. f \in [S -> NumbersOf(S)]
  BY DEF NumbersOf
<1>2. \A x, y \in S : f[x] = f[y] => x = y
  BY NumbersAreApart
<1>3. \A n \in NumbersOf(S) : \E x \in S : f[x] = n
  BY DEF NumbersOf
<1>4. f \in Bijection(S, NumbersOf(S))
  BY <1>1, <1>2, <1>3 DEF Bijection, Injection, Surjection, IsInjective
<1>5. ExistsBijection(S, NumbersOf(S))
  BY <1>4 DEF ExistsBijection
<1>6. IsFiniteSet(S)
  BY RowsAreFinite, Parts
<1>. QED  BY <1>5, <1>6, FS_Bijection

\* What is blocked is held or, one number for each deletion at most, empty.
LEMMA BlockedIsBounded ==
    ASSUME Inv
    PROVE  /\ IsFiniteSet(Blocked)
           /\ Cardinality(Blocked) <= Cardinality(Held) + Cardinality(Deleted)
<1> DEFINE L == Cardinality(Numbered) + Cardinality(Deleted)
           Empty == (1 .. L) \ NumbersOf(Numbered)
<1>0. TypeOK /\ NumbersBounded
  BY DEF Inv
<1>1. Numbered \subseteq Choreographies /\ Deleted \subseteq Choreographies
      /\ Held \subseteq Numbered /\ Frozen \subseteq Numbered
  BY <1>0, Parts
<1>2. Cardinality(Numbered) \in Nat /\ Cardinality(Deleted) \in Nat /\ Cardinality(Held) \in Nat
  BY <1>1, RowsAreFinite
<1>3. \A x \in Numbered : row[x].number \in 1 .. L
  <2>1. \A x \in Numbered : row[x].number \in Nat /\ row[x].number # 0
    BY <1>0, <1>1, NumbersAreApart, PositionsAreNumbers
  <2>. QED  BY <2>1, <1>0, <1>2 DEF NumbersBounded
<1>4. (1 .. L) \cap NumbersOf(Numbered) = NumbersOf(Numbered)
  BY <1>3 DEF NumbersOf
<1>5. Cardinality(NumbersOf(Numbered)) = Cardinality(Numbered)
  BY <1>0, AsManyNumbers
<1>d. L \in Nat /\ L = Cardinality(Numbered) + Cardinality(Deleted)
  BY <1>2
<1> HIDE DEF L
<1>6. IsFiniteSet(1 .. L) /\ Cardinality(1 .. L) = L
  <2>1. 1 \in Int /\ L \in Int
    BY <1>d
  <2>. QED  BY <2>1, <1>d, FS_Interval
<1>7. IsFiniteSet(Empty) /\ Cardinality(Empty) = Cardinality(1 .. L) - Cardinality((1 .. L) \cap NumbersOf(Numbered))
  BY <1>6, FS_Difference
<1>8. Cardinality(Empty) = Cardinality(Deleted)
  <2>1. Cardinality((1 .. L) \cap NumbersOf(Numbered)) = Cardinality(Numbered)
    BY <1>4, <1>5, Zenon
  <2> HIDE DEF Empty
  <2>. QED  BY <2>1, <1>2, <1>d, <1>6, <1>7
<1>9. Blocked \subseteq NumbersOf(Held) \cup Empty
  <2> SUFFICES ASSUME NEW p \in Blocked, p \notin NumbersOf(Held) PROVE p \in Empty
    OBVIOUS
  <2>1. PICK x, y \in Frozen : Neighbours(x, y) /\ row[x].number < p /\ p < row[y].number /\ p \in Positions
    BY DEF Blocked, NumbersOf
  <2>2. p \in Nat /\ p # 0
    BY <2>1, PositionsAreNumbers
  <2>3. row[x].number \in 1 .. L /\ row[y].number \in 1 .. L
    BY <1>1, <1>3
  <2>4. p \in 1 .. L
    BY <2>1, <2>2, <2>3, <1>d
  <2>5. p \notin NumbersOf(Numbered)
    BY <2>1 DEF Neighbours, NumbersOf
  <2>. QED  BY <2>4, <2>5
<1> HIDE DEF Empty
<1>10. IsFiniteSet(NumbersOf(Held)) /\ Cardinality(NumbersOf(Held)) = Cardinality(Held)
  BY <1>0, <1>1, AsManyNumbers
<1>11. IsFiniteSet(NumbersOf(Held) \cup Empty)
       /\ Cardinality(NumbersOf(Held) \cup Empty)
            = Cardinality(NumbersOf(Held)) + Cardinality(Empty) - Cardinality(NumbersOf(Held) \cap Empty)
  BY <1>7, <1>10, FS_Union
<1>12. Cardinality(NumbersOf(Held) \cap Empty) \in Nat
  BY <1>10, FS_Intersection, FS_CardinalityType
<1>13. IsFiniteSet(Blocked) /\ Cardinality(Blocked) <= Cardinality(NumbersOf(Held) \cup Empty)
  BY <1>9, <1>11, FS_Subset
<1>14. Cardinality(Blocked) \in Nat /\ Cardinality(NumbersOf(Held) \cup Empty) \in Nat
  BY <1>11, <1>13, FS_CardinalityType
<1>. QED  BY <1>2, <1>8, <1>10, <1>11, <1>12, <1>13, <1>14

\* So whatever is not held has room.
LEMMA RoomForAll ==
    ASSUME Inv, NEW S \in SUBSET Registered, S \cap Held = {}
    PROVE  /\ Cardinality(S) \in Nat /\ Cardinality(Blocked) \in Nat
           /\ Cardinality(S) + Cardinality(Held) + Cardinality(Deleted) <= Cardinality(Choreographies)
           /\ Cardinality(S) + Cardinality(Blocked) <= Cardinality(Choreographies)
<1>0. TypeOK
  BY DEF Inv
<1>1. Held \subseteq Registered /\ Registered \subseteq Choreographies
      /\ Deleted \subseteq Choreographies /\ Deleted \cap Registered = {}
  BY <1>0, Parts
<1>2. IsFiniteSet(S) /\ IsFiniteSet(Held) /\ IsFiniteSet(Deleted)
  BY <1>1, RowsAreFinite
<1>3. Cardinality(S) \in Nat /\ Cardinality(Held) \in Nat /\ Cardinality(Deleted) \in Nat
  BY <1>2, FS_CardinalityType
<1>4. IsFiniteSet(S \cup Held)
      /\ Cardinality(S \cup Held) = Cardinality(S) + Cardinality(Held) - Cardinality(S \cap Held)
  BY <1>2, FS_Union
<1>5. IsFiniteSet((S \cup Held) \cup Deleted)
      /\ Cardinality((S \cup Held) \cup Deleted)
           = Cardinality(S \cup Held) + Cardinality(Deleted) - Cardinality((S \cup Held) \cap Deleted)
  BY <1>2, <1>4, FS_Union
<1>6. S \cap Held = {} /\ (S \cup Held) \cap Deleted = {}
  BY <1>1
<1>7. Cardinality((S \cup Held) \cup Deleted) = Cardinality(S) + Cardinality(Held) + Cardinality(Deleted)
  <2>1. Cardinality(S \cap Held) = 0 /\ Cardinality((S \cup Held) \cap Deleted) = 0
    BY <1>6, FS_EmptySet, Zenon
  <2>. QED  BY <2>1, <1>3, <1>4, <1>5
<1>8. Cardinality((S \cup Held) \cup Deleted) <= Cardinality(Choreographies)
  BY <1>1, RowsAreFinite
<1>9. IsFiniteSet(Blocked) /\ Cardinality(Blocked) <= Cardinality(Held) + Cardinality(Deleted)
  BY BlockedIsBounded
<1>10. Cardinality(Blocked) \in Nat
  BY <1>9, FS_CardinalityType
<1>11. Cardinality(Choreographies) \in Nat
  BY PositionsAreNumbers
<1>. QED  BY <1>3, <1>7, <1>8, <1>9, <1>10, <1>11

\* Nobody who may be moved stands on a blocked position.
LEMMA MovableOffBlocked ==
    ASSUME TypeOK, NEW x \in Movable \cap Numbered
    PROVE  row[x].number \notin Blocked
<1>1. x \in Numbered /\ x \notin Held /\ Held \subseteq Numbered /\ Frozen \subseteq Numbered
  BY Parts
<1>2. \A y \in Held : row[x].number # row[y].number
  BY <1>1, NumbersAreApart
<1>3. ~\E u, v \in Frozen : Neighbours(u, v) /\ row[u].number < row[x].number /\ row[x].number < row[v].number
  BY <1>1 DEF Neighbours
<1>. QED  BY <1>2, <1>3 DEF Blocked

-----------------------------------------------------------------------------
\* WHO IS NEXT

\* The rows an ordering of these days places.
ToPlace(days) == Chosen(days) \cup Kept(days)

\* They are registered, not held, and all the numbered rows that may move.
LEMMA WhoIsPlaced ==
    ASSUME TypeOK, NEW days
    PROVE  /\ ToPlace(days) \subseteq Movable /\ ToPlace(days) \subseteq Registered
           /\ ToPlace(days) \subseteq Choreographies /\ ToPlace(days) \cap Held = {}
           /\ Movable \cap Numbered \subseteq ToPlace(days)
           /\ IsFiniteSet(ToPlace(days)) /\ Cardinality(ToPlace(days)) \in Nat
<1>1. ToPlace(days) \subseteq Movable
  BY DEF ToPlace, Chosen, Kept
<1>2. ToPlace(days) \subseteq Registered /\ ToPlace(days) \subseteq Choreographies
      /\ ToPlace(days) \cap Held = {}
  BY <1>1, Parts
<1>3. Movable \cap Numbered \subseteq ToPlace(days)
  BY DEF ToPlace, Chosen, Kept
<1>. QED  BY <1>1, <1>2, <1>3, RowsAreFinite

\* What the order of the blocks compares are naturals.
LEMMA RowKeys ==
    ASSUME TypeOK, NEW x \in Registered
    PROVE  /\ Schedule(x) \in Schedules /\ Schedule(x) \in Nat
           /\ Day(x) \in Nat /\ Day(x) \in Days
           /\ row[x].kind.block \in Nat /\ row[x].number \in Nat
<1>1. x \in Choreographies
  BY DEF Registered
<1>2. row[x].kind \in Kinds
  BY <1>1, RowFields DEF TypeOK
<1>3. Schedule(x) \in Schedules /\ row[x].kind.block \in Nat
  BY <1>2, KindAssumption DEF Schedule
<1>4. Schedule(x) \in Nat
  BY <1>3, NumberAssumption
<1>5. Day(x) \in Nat
  BY <1>3, DayAssumption DEF Day
<1>6. Day(x) \in Days
  BY <1>3 DEF Day, Days
<1>7. row[x].number \in Nat
  BY <1>1, RowFields
<1>. QED  BY <1>3, <1>4, <1>5, <1>6, <1>7

\* Somebody of those pending comes after nobody.
LEMMA SomeoneIsFirst ==
    ASSUME TypeOK, NEW days, NEW P \in SUBSET Registered, P # {}
    PROVE  \E x \in P : \A y \in P : ~Precedes(y, x, days)
<1> DEFINE D == {Day(x) : x \in P}
<1>1. D \subseteq Nat /\ D # {}
  BY RowKeys
<1>2. PICK d \in D : \A e \in D : d <= e
  BY <1>1, LeastNatural
<1> DEFINE PD == {x \in P : Day(x) = d}
<1>3. PD # {} /\ PD \subseteq P /\ \A x \in PD : Day(x) = d
  BY <1>2
<1>4. \A x \in P : d <= Day(x) /\ Day(x) \in Nat /\ d \in Nat
  BY <1>1, <1>2, RowKeys
<1>5. CASE d \in days
  <2> DEFINE S == {Schedule(x) : x \in PD}
  <2>1. S \subseteq Nat /\ S # {}
    BY <1>3, RowKeys
  <2>2. PICK s \in S : \A t \in S : s <= t
    BY <2>1, LeastNatural
  <2> DEFINE B == {row[x].kind.block : x \in {y \in PD : Schedule(y) = s}}
  <2>3. B \subseteq Nat /\ B # {}
    BY <1>3, <2>2, RowKeys
  <2>4. PICK k \in B : \A l \in B : k <= l
    BY <2>3, LeastNatural
  <2>5. PICK x \in PD : Schedule(x) = s /\ row[x].kind.block = k
    BY <2>4
  <2>6. ASSUME NEW y \in P PROVE ~Precedes(y, x, days)
    <3>1. Day(x) = d /\ d <= Day(y) /\ Day(y) \in Nat /\ d \in Nat
      BY <1>3, <1>4, <2>5
    <3>2. Schedule(y) \in Nat /\ row[y].kind.block \in Nat /\ s \in Nat /\ k \in Nat
      BY RowKeys, <2>1, <2>2, <2>3, <2>4
    <3>3. Day(y) = d => s <= Schedule(y)
      BY <2>2
    <3>4. Day(y) = d /\ Schedule(y) = s => k <= row[y].kind.block
      BY <2>4
    <3>. QED  BY <1>5, <2>5, <3>1, <3>2, <3>3, <3>4 DEF Precedes
  <2>. QED  BY <2>5, <2>6, <1>3
<1>6. CASE d \notin days
  <2> DEFINE S == {row[x].number : x \in PD}
  <2>1. S \subseteq Nat /\ S # {}
    BY <1>3, RowKeys
  <2>2. PICK s \in S : \A t \in S : s <= t
    BY <2>1, LeastNatural
  <2>3. PICK x \in PD : row[x].number = s
    BY <2>2
  <2>4. ASSUME NEW y \in P PROVE ~Precedes(y, x, days)
    <3>1. Day(x) = d /\ d <= Day(y) /\ Day(y) \in Nat /\ d \in Nat
      BY <1>3, <1>4, <2>3
    <3>2. row[y].number \in Nat /\ s \in Nat
      BY RowKeys, <2>1, <2>2
    <3>3. Day(y) = d => s <= row[y].number
      BY <2>2
    <3>. QED  BY <1>6, <2>3, <3>1, <3>2, <3>3 DEF Precedes
  <2>. QED  BY <2>3, <2>4, <1>3
<1>. QED  BY <1>5, <1>6

\* The first block of those pending, and those of it who rest.
FirstBlock(P, days) == {x \in P : \A y \in P : ~Precedes(y, x, days)}
Apart(P, p, at, days) == {x \in FirstBlock(P, days) : ~Conflicts(x, p, at)}

\* The next row is the lowest of the first block that rests, or the lowest of it.
LEMMA NextRowIs ==
    ASSUME TypeOK, NEW days, NEW P \in SUBSET Registered, P # {}, NEW p, NEW at,
           NEW x, x = NextRow(P, p, at, days)
    PROVE  /\ x \in P /\ x \in FirstBlock(P, days)
           /\ Apart(P, p, at, days) # {} => x \in Apart(P, p, at, days)
           /\ Apart(P, p, at, days) # {} => \A y \in Apart(P, p, at, days) : x <= y
           /\ Apart(P, p, at, days) = {} => \A y \in FirstBlock(P, days) : x <= y
<1> DEFINE A == Apart(P, p, at, days)
           F == FirstBlock(P, days)
<1>1. x = Min(IF A # {} THEN A ELSE F)
  BY DEF NextRow, Apart, FirstBlock
<1>2. F \subseteq P /\ A \subseteq F
  BY DEF FirstBlock, Apart
<1>3. F # {}
  BY SomeoneIsFirst DEF FirstBlock
<1>4. P \subseteq Nat
  BY NumberAssumption DEF Registered
<1>5. F \subseteq Nat /\ A \subseteq Nat
  BY <1>2, <1>4
<1> HIDE DEF A, F
<1>6. CASE A # {}
  <2>1. x = Min(A)
    BY <1>1, <1>6
  <2>2. Min(A) \in A /\ \A y \in A : Min(A) <= y
    BY <1>5, <1>6, MinOfNaturals
  <2>3. x \in A /\ x \in F /\ x \in P /\ \A y \in A : x <= y
    BY <2>1, <2>2, <1>2
  <2>. QED  BY <2>3, <1>6 DEF A, F
<1>7. CASE A = {}
  <2>1. x = Min(F)
    BY <1>1, <1>7
  <2>2. Min(F) \in F /\ \A y \in F : Min(F) <= y
    BY <1>3, <1>5, MinOfNaturals
  <2>3. x \in F /\ x \in P /\ \A y \in F : x <= y
    BY <2>1, <2>2, <1>2
  <2>. QED  BY <2>3, <1>7 DEF A, F
<1>. QED  BY <1>6, <1>7

\* It is one of those pending, of the first block.
LEMMA NextRowIsPending ==
    ASSUME TypeOK, NEW days, NEW P \in SUBSET Registered, P # {}, NEW p, NEW at
    PROVE  NextRow(P, p, at, days) \in P /\ NextRow(P, p, at, days) \in FirstBlock(P, days)
BY NextRowIs

\* And only that row is.
LEMMA NextRowOnly ==
    ASSUME TypeOK, NEW days, NEW P \in SUBSET Registered, NEW p, NEW at,
           NEW x \in FirstBlock(P, days),
           Apart(P, p, at, days) # {} =>
              x \in Apart(P, p, at, days) /\ \A y \in Apart(P, p, at, days) : x <= y,
           Apart(P, p, at, days) = {} => \A y \in FirstBlock(P, days) : x <= y
    PROVE  NextRow(P, p, at, days) = x
<1> DEFINE A == Apart(P, p, at, days)
           F == FirstBlock(P, days)
<1>1. NextRow(P, p, at, days) = Min(IF A # {} THEN A ELSE F)
  BY DEF NextRow, Apart, FirstBlock
<1>2. F \subseteq Nat /\ A \subseteq Nat
  BY NumberAssumption DEF Registered, FirstBlock, Apart
<1>3. x \in F /\ (A # {} => x \in A /\ \A y \in A : x <= y) /\ (A = {} => \A y \in F : x <= y)
  OBVIOUS
<1> HIDE DEF A, F
<1>4. CASE A # {}
  <2>1. Min(A) = x
    BY <1>2, <1>3, <1>4, MinIs
  <2>. QED  BY <1>1, <1>4, <2>1
<1>5. CASE A = {}
  <2>1. Min(F) = x
    BY <1>2, <1>3, <1>5, MinIs
  <2>. QED  BY <1>1, <1>5, <2>1
<1>. QED  BY <1>4, <1>5

\* Resting depends only on who stands before the position.
LEMMA ConflictsLookBack ==
    ASSUME NEW x, NEW p \in Nat, NEW at, NEW other,
           \A q \in 1 .. p - 1 : q \in DOMAIN at <=> q \in DOMAIN other,
           \A q \in 1 .. p - 1 : q \in DOMAIN at => at[q] = other[q]
    PROVE  Conflicts(x, p, at) <=> Conflicts(x, p, other)
<1> DEFINE danced(f) == {q \in 1 .. p - 1 : q \in DOMAIN f => f[q] \notin Withdrawn}
<1>1. danced(at) = danced(other)
  OBVIOUS
<1>2. Recent(p, at) = {q \in danced(at) : Cardinality({r \in danced(at) : r > q}) < Gap}
  BY DEF Recent
<1>3. Recent(p, other) = {q \in danced(other) : Cardinality({r \in danced(other) : r > q}) < Gap}
  BY DEF Recent
<1>4. Recent(p, at) = Recent(p, other)
  BY <1>1, <1>2, <1>3, Zenon
<1>5. Recent(p, at) \subseteq 1 .. p - 1
  BY <1>2
<1>6. Recent(p, at) \cap DOMAIN at = Recent(p, other) \cap DOMAIN other
  BY <1>4, <1>5
<1>7. \A q \in Recent(p, at) \cap DOMAIN at : at[q] = other[q]
  BY <1>5
<1>. QED  BY <1>6, <1>7 DEF Conflicts

-----------------------------------------------------------------------------
\* WHAT Placed RETURNS

\* Who holds the positions that stay.
HeldAt == [p \in {row[x].number : x \in Held} |-> CHOOSE x \in Held : row[x].number = p]

\* One position filled: the body of computeAutomaticOrder's loop.
PlaceNext(at, i, days) ==
    LET p == FreePosition(Blocked, i)
        next == NextRow((Chosen(days) \cup Kept(days)) \ Range(at), p, at, days)
    IN  [q \in DOMAIN at \cup {p} |-> IF q = p THEN next ELSE at[q]]

\* The recursion has a solution up to any position.
LEMMA PlacingExists ==
    ASSUME NEW days, NEW N \in Nat
    PROVE  \E f : f = [i \in 0 .. N |-> IF i = 0 THEN HeldAt ELSE PlaceNext(f[i - 1], i, days)]
<1> DEFINE Solves(g, n) == g = [i \in 0 .. n |-> IF i = 0 THEN HeldAt ELSE PlaceNext(g[i - 1], i, days)]
           T == {n \in Nat : ~\E g : Solves(g, n)}
<1> SUFFICES ASSUME T # {} PROVE FALSE
  OBVIOUS
<1>1. PICK n \in T : \A m \in T : n <= m
  BY LeastNatural
<1>2. n \in Nat /\ ~\E g : Solves(g, n)
  OBVIOUS
<1>3. CASE n = 0
  <2> DEFINE g == [i \in 0 .. 0 |-> HeldAt]
  <2>1. g = [i \in 0 .. 0 |-> IF i = 0 THEN HeldAt ELSE PlaceNext(g[i - 1], i, days)]
    OBVIOUS
  <2>. QED  BY <1>2, <1>3, <2>1
<1>4. CASE n # 0
  <2>1. n - 1 \in Nat /\ n - 1 \notin T
    <3>1. n - 1 \in Nat /\ ~(n <= n - 1)
      BY <1>2, <1>4
    <3> HIDE DEF T
    <3>. QED  BY <1>1, <3>1
  <2>2. PICK g : Solves(g, n - 1)
    BY <2>1
  <2> DEFINE h == [i \in 0 .. n |-> IF i = n THEN PlaceNext(g[n - 1], n, days) ELSE g[i]]
             k == [i \in 0 .. n |-> IF i = 0 THEN HeldAt ELSE PlaceNext(h[i - 1], i, days)]
  <2>3. ASSUME NEW i \in 0 .. n PROVE h[i] = k[i]
    <3>1. CASE i = n
      <4>1. h[i] = PlaceNext(g[n - 1], n, days) /\ h[n - 1] = g[n - 1]
        BY <1>2, <1>4, <2>1, <3>1
      <4>2. k[i] = PlaceNext(h[n - 1], n, days)
        BY <1>4, <3>1
      <4>. QED  BY <4>1, <4>2
    <3>2. CASE i # n /\ i # 0
      <4>1. i \in 0 .. n - 1 /\ i - 1 \in 0 .. n - 1 /\ i - 1 \in 0 .. n /\ i - 1 # n
        BY <1>2, <3>2
      <4>2. h[i] = g[i] /\ h[i - 1] = g[i - 1]
        BY <3>2, <4>1
      <4>3. k[i] = PlaceNext(h[i - 1], i, days)
        BY <3>2
      <4>4. g[i] = PlaceNext(g[i - 1], i, days)
        BY <2>2, <3>2, <4>1
      <4>. QED  BY <4>2, <4>3, <4>4
    <3>3. CASE i = 0
      <4>1. 0 \in 0 .. n - 1
        BY <2>1
      <4>2. g[0] = HeldAt
        BY <2>2, <4>1
      <4>3. h[0] = g[0] /\ k[0] = HeldAt
        BY <1>2, <1>4
      <4>. QED  BY <3>3, <4>2, <4>3
    <3>. QED  BY <3>1, <3>2, <3>3
  <2>4. Solves(h, n)
    <3> HIDE DEF k
    <3>1. h = k
      <4>1. DOMAIN h = 0 .. n /\ DOMAIN k = 0 .. n /\ h = [i \in 0 .. n |-> h[i]] /\ k = [i \in 0 .. n |-> k[i]]
        BY DEF k
      <4> HIDE DEF h
      <4>. QED  BY <4>1, <2>3
    <3> HIDE DEF h
    <3>. QED  BY <3>1 DEF k
  <2>. QED  BY <1>2, <2>4
<1>. QED  BY <1>3, <1>4

\* The placement, position by position.
LEMMA PlacedStepByStep ==
    ASSUME NEW days, Cardinality(ToPlace(days)) \in Nat
    PROVE  \E f : /\ f[0] = HeldAt
                  /\ \A i \in 1 .. Cardinality(ToPlace(days)) : f[i] = PlaceNext(f[i - 1], i, days)
                  /\ Placed(days) = f[Cardinality(ToPlace(days))]
<1> DEFINE N == Cardinality(Chosen(days) \cup Kept(days))
           f == CHOOSE f : f = [i \in 0 .. N |->
                   IF i = 0 THEN [p \in {row[x].number : x \in Held} |-> CHOOSE x \in Held : row[x].number = p]
                   ELSE LET at == f[i - 1]
                            p == FreePosition(Blocked, i)
                            next == NextRow((Chosen(days) \cup Kept(days)) \ Range(at), p, at, days)
                        IN  [q \in DOMAIN at \cup {p} |-> IF q = p THEN next ELSE at[q]]]
<1>0. N \in Nat /\ N = Cardinality(ToPlace(days))
  BY DEF ToPlace
<1>1. \E g : g = [i \in 0 .. N |-> IF i = 0 THEN HeldAt ELSE PlaceNext(g[i - 1], i, days)]
  BY <1>0, PlacingExists
<1>2. \E g : g = [i \in 0 .. N |->
                   IF i = 0 THEN [p \in {row[x].number : x \in Held} |-> CHOOSE x \in Held : row[x].number = p]
                   ELSE LET at == g[i - 1]
                            p == FreePosition(Blocked, i)
                            next == NextRow((Chosen(days) \cup Kept(days)) \ Range(at), p, at, days)
                        IN  [q \in DOMAIN at \cup {p} |-> IF q = p THEN next ELSE at[q]]]
  BY <1>1, Zenon DEF HeldAt, PlaceNext
<1>3. f = [i \in 0 .. N |-> IF i = 0 THEN HeldAt ELSE PlaceNext(f[i - 1], i, days)]
  BY <1>2, Zenon DEF HeldAt, PlaceNext
<1>4. Placed(days) = f[N]
  BY Zenon DEF Placed
<1> HIDE DEF f
<1>5. f[0] = HeldAt
  BY <1>0, <1>3
<1>6. ASSUME NEW i \in 1 .. N PROVE f[i] = PlaceNext(f[i - 1], i, days)
  <2>1. i \in 0 .. N /\ i # 0
    BY <1>0
  <2>. QED  BY <1>3, <2>1
<1>. QED  BY <1>0, <1>4, <1>5, <1>6

\* Who holds the positions that stay, by the rows.
LEMMA HeldAtIs ==
    ASSUME TypeOK
    PROVE  /\ DOMAIN HeldAt = NumbersOf(Held)
           /\ \A p \in NumbersOf(Held) : HeldAt[p] \in Held /\ row[HeldAt[p]].number = p
           /\ \A x \in Held : HeldAt[row[x].number] = x
<1>1. DOMAIN HeldAt = NumbersOf(Held)
  BY DEF HeldAt, NumbersOf
<1>2. ASSUME NEW p \in NumbersOf(Held) PROVE HeldAt[p] \in Held /\ row[HeldAt[p]].number = p
  <2>1. \E x \in Held : row[x].number = p
    BY DEF NumbersOf
  <2>2. HeldAt[p] = CHOOSE x \in Held : row[x].number = p
    BY DEF HeldAt, NumbersOf
  <2>. QED  BY <2>1, <2>2
<1>3. ASSUME NEW x \in Held PROVE HeldAt[row[x].number] = x
  <2>1. row[x].number \in NumbersOf(Held)
    BY DEF NumbersOf
  <2>2. HeldAt[row[x].number] \in Held /\ row[HeldAt[row[x].number]].number = row[x].number
    BY <1>2, <2>1
  <2>3. Held \subseteq Numbered
    BY Parts
  <2>. QED  BY <2>2, <2>3, NumbersAreApart
<1>. QED  BY <1>1, <1>2, <1>3

\* The free positions an ordering uses exist, in order, and nobody holds them.
LEMMA FreeForAll ==
    ASSUME Inv, NEW S \in SUBSET Registered, S \cap Held = {}, NEW i \in 1 .. Cardinality(S)
    PROVE  /\ FreePosition(Blocked, i) \in Positions
           /\ FreePosition(Blocked, i) \notin Blocked
           /\ FreePosition(Blocked, i) \notin NumbersOf(Held)
           /\ FreeUpTo(Blocked, FreePosition(Blocked, i)) = i
           /\ FreePosition(Blocked, i) <= i + Cardinality(Blocked)
           /\ FreePosition(Blocked, i) <= Cardinality(Choreographies)
           /\ \A j \in 1 .. Cardinality(S) : i < j => FreePosition(Blocked, i) < FreePosition(Blocked, j)
<1>1. Cardinality(S) \in Nat /\ Cardinality(Blocked) \in Nat /\ Cardinality(Choreographies) \in Nat
      /\ Cardinality(S) + Cardinality(Blocked) <= Cardinality(Choreographies)
  BY RoomForAll, PositionsAreNumbers
<1>2. IsFiniteSet(Blocked)
  BY BlockedIsBounded
<1>3. i \in Nat /\ 1 <= i /\ i + Cardinality(Blocked) <= Cardinality(Choreographies)
  BY <1>1
<1>4. /\ FreePosition(Blocked, i) \in Positions
      /\ FreePosition(Blocked, i) \notin Blocked
      /\ FreeUpTo(Blocked, FreePosition(Blocked, i)) = i
      /\ FreePosition(Blocked, i) <= i + Cardinality(Blocked)
  BY <1>1, <1>2, <1>3, FreePositionExists
<1>5. FreePosition(Blocked, i) \notin NumbersOf(Held)
  BY <1>4 DEF Blocked, NumbersOf
<1>6. ASSUME NEW j \in 1 .. Cardinality(S), i < j
      PROVE  FreePosition(Blocked, i) < FreePosition(Blocked, j)
  <2>1. j \in Nat /\ j + Cardinality(Blocked) <= Cardinality(Choreographies) + 1
    BY <1>1
  <2>. QED  BY <1>2, <1>3, <1>6, <2>1, FreePositionsInOrder
<1>7. FreePosition(Blocked, i) <= Cardinality(Choreographies)
  <2>1. FreePosition(Blocked, i) \in Nat
    BY <1>4, PositionsAreNumbers
  <2>. QED  BY <2>1, <1>1, <1>3, <1>4
<1>. QED  BY <1>4, <1>5, <1>6, <1>7

\* The first i free positions, and the first i rows of c.
FirstFree(i) == {FreePosition(Blocked, k) : k \in 1 .. i}
Taken(c, i) == {c[k] : k \in 1 .. i}

\* The lineup when the first i rows of c have gone to the first i free positions.
At(c, i) ==
    [q \in NumbersOf(Held) \cup FirstFree(i) |->
        IF q \in NumbersOf(Held) THEN HeldAt[q] ELSE c[FreeUpTo(Blocked, q)]]

\* Whom it has, and where.
LEMMA AtIs ==
    ASSUME Inv, NEW S \in SUBSET Registered, S \cap Held = {},
           NEW i \in 0 .. Cardinality(S), NEW c
    PROVE  /\ DOMAIN At(c, i) = NumbersOf(Held) \cup FirstFree(i)
           /\ \A q \in NumbersOf(Held) : At(c, i)[q] = HeldAt[q]
           /\ \A k \in 1 .. i : At(c, i)[FreePosition(Blocked, k)] = c[k]
           /\ Range(At(c, i)) = Held \cup Taken(c, i)
<1>0. Cardinality(S) \in Nat
  BY RoomForAll
<1>1. DOMAIN At(c, i) = NumbersOf(Held) \cup FirstFree(i)
  BY DEF At
<1>2. \A q \in NumbersOf(Held) : At(c, i)[q] = HeldAt[q]
  BY DEF At
<1>3. ASSUME NEW k \in 1 .. i PROVE At(c, i)[FreePosition(Blocked, k)] = c[k]
  <2>1. k \in 1 .. Cardinality(S)
    BY <1>0
  <2>2. FreePosition(Blocked, k) \notin NumbersOf(Held) /\ FreeUpTo(Blocked, FreePosition(Blocked, k)) = k
    BY <2>1, FreeForAll
  <2>3. FreePosition(Blocked, k) \in FirstFree(i)
    BY DEF FirstFree
  <2>. QED  BY <2>2, <2>3 DEF At
<1>4. TypeOK
  BY DEF Inv
<1>5. Range(At(c, i)) = {At(c, i)[q] : q \in DOMAIN At(c, i)}
  BY DEF Range
<1>6. ASSUME NEW x \in Range(At(c, i)) PROVE x \in Held \cup Taken(c, i)
  <2>1. PICK q \in DOMAIN At(c, i) : x = At(c, i)[q]
    BY <1>5
  <2>2. CASE q \in NumbersOf(Held)
    BY <2>1, <2>2, <1>2, <1>4, HeldAtIs
  <2>3. CASE q \in FirstFree(i)
    <3>1. PICK k \in 1 .. i : q = FreePosition(Blocked, k)
      BY <2>3 DEF FirstFree
    <3>2. x = c[k]
      BY <1>3, <2>1, <3>1
    <3>. QED  BY <3>2 DEF Taken
  <2>. QED  BY <1>1, <2>2, <2>3
<1>7. ASSUME NEW x \in Held PROVE x \in Range(At(c, i))
  <2>1. row[x].number \in NumbersOf(Held) /\ HeldAt[row[x].number] = x
    BY <1>4, HeldAtIs DEF NumbersOf
  <2>. QED  BY <1>1, <1>2, <1>5, <2>1
<1>8. ASSUME NEW k \in 1 .. i PROVE c[k] \in Range(At(c, i))
  <2>1. FreePosition(Blocked, k) \in DOMAIN At(c, i)
    BY <1>1 DEF FirstFree
  <2>. QED  BY <1>3, <1>5, <2>1
<1>9. Range(At(c, i)) = Held \cup Taken(c, i)
  BY <1>6, <1>7, <1>8 DEF Taken
<1>. QED  BY <1>1, <1>2, <1>3, <1>9

\* c is the sequence of rows an ordering of these days places, each the next one.
Turns(c, days) ==
    /\ c \in [1 .. Cardinality(ToPlace(days)) -> ToPlace(days)]
    /\ \A i \in 1 .. Cardinality(ToPlace(days)) :
          c[i] = NextRow(ToPlace(days) \ Taken(c, i - 1),
                         FreePosition(Blocked, i), At(c, i - 1), days)

\* After fewer turns than rows, somebody is pending.
LEMMA SomeonePending ==
    ASSUME NEW S, IsFiniteSet(S), NEW n \in Nat, n < Cardinality(S), NEW c
    PROVE  S \ Taken(c, n) # {}
<1> DEFINE I == {c[k] : k \in 1 .. n}
           g == [k \in 1 .. n |-> c[k]]
<1>1. g \in Surjection(1 .. n, I)
  BY DEF Surjection
<1>2. IsFiniteSet(1 .. n) /\ Cardinality(1 .. n) = n
  BY FS_Interval
<1>3. IsFiniteSet(I) /\ Cardinality(I) <= n
  BY <1>1, <1>2, FS_Surjection
<1>4. Cardinality(S) \in Nat /\ Cardinality(I) \in Nat
  BY <1>3, FS_CardinalityType
<1> HIDE DEF I
<1>5. ASSUME S \subseteq I PROVE FALSE
  <2>1. Cardinality(S) <= Cardinality(I)
    BY <1>3, <1>5, FS_Subset
  <2>. QED  BY <2>1, <1>3, <1>4
<1>. QED  BY <1>5 DEF I, Taken

\* The lineup of an ordering in progress.
LEMMA AtOrdering ==
    ASSUME Inv, NEW days, NEW i \in 0 .. Cardinality(ToPlace(days)), NEW c
    PROVE  /\ DOMAIN At(c, i) = NumbersOf(Held) \cup FirstFree(i)
           /\ \A q \in NumbersOf(Held) : At(c, i)[q] = HeldAt[q]
           /\ \A k \in 1 .. i : At(c, i)[FreePosition(Blocked, k)] = c[k]
           /\ Range(At(c, i)) = Held \cup Taken(c, i)
<1>1. ToPlace(days) \in SUBSET Registered /\ ToPlace(days) \cap Held = {}
  BY WhoIsPlaced DEF Inv
<1> DEFINE S == ToPlace(days)
<1>2. S \in SUBSET Registered /\ S \cap Held = {} /\ i \in 0 .. Cardinality(S)
  BY <1>1
<1> HIDE DEF S
<1>3. DOMAIN At(c, i) = NumbersOf(Held) \cup FirstFree(i)
  BY <1>2, AtIs
<1>4. \A q \in NumbersOf(Held) : At(c, i)[q] = HeldAt[q]
  BY <1>2, AtIs
<1>5. ASSUME NEW k \in 1 .. i PROVE At(c, i)[FreePosition(Blocked, k)] = c[k]
  <2>1. k \in 1 .. Cardinality(S)
    <3>1. Cardinality(S) \in Nat
      BY <1>2, RoomForAll
    <3>. QED  BY <1>2, <3>1
  <2>2. FreePosition(Blocked, k) \notin NumbersOf(Held)
        /\ FreeUpTo(Blocked, FreePosition(Blocked, k)) = k
    BY <1>2, <2>1, FreeForAll
  <2>3. FreePosition(Blocked, k) \in FirstFree(i)
    BY DEF FirstFree
  <2>. QED  BY <2>2, <2>3 DEF At
<1>6. Range(At(c, i)) = Held \cup Taken(c, i)
  BY <1>2, AtIs
<1>. QED  BY <1>3, <1>4, <1>5, <1>6

\* One more row: what the loop's body does to a lineup of the first i - 1.
LEMMA PlaceNextIs ==
    ASSUME Inv, NEW days, NEW c, NEW i \in 1 .. Cardinality(ToPlace(days)),
           \A k \in 1 .. i - 1 : c[k] \in ToPlace(days),
           PlaceNext(At(c, i - 1), i, days)[FreePosition(Blocked, i)] = c[i]
    PROVE  /\ c[i] = NextRow(ToPlace(days) \ Taken(c, i - 1),
                             FreePosition(Blocked, i), At(c, i - 1), days)
           /\ c[i] \in ToPlace(days) \ Taken(c, i - 1)
           /\ PlaceNext(At(c, i - 1), i, days) = At(c, i)
<1> DEFINE p == FreePosition(Blocked, i)
           at == At(c, i - 1)
           P == ToPlace(days) \ Taken(c, i - 1)
<1>0. TypeOK
  BY DEF Inv
<1>1. ToPlace(days) \subseteq Registered /\ ToPlace(days) \cap Held = {}
      /\ Cardinality(ToPlace(days)) \in Nat /\ IsFiniteSet(ToPlace(days))
  BY <1>0, WhoIsPlaced
<1>2. i \in Nat /\ i - 1 \in Nat /\ i - 1 \in 0 .. Cardinality(ToPlace(days))
      /\ i \in 0 .. Cardinality(ToPlace(days)) /\ i - 1 < Cardinality(ToPlace(days))
  BY <1>1
<1> HIDE DEF at
<1>3. /\ DOMAIN at = NumbersOf(Held) \cup FirstFree(i - 1)
      /\ \A q \in NumbersOf(Held) : at[q] = HeldAt[q]
      /\ \A k \in 1 .. i - 1 : at[FreePosition(Blocked, k)] = c[k]
      /\ Range(at) = Held \cup Taken(c, i - 1)
  BY <1>1, <1>2, AtOrdering DEF at
<1>4. /\ DOMAIN At(c, i) = NumbersOf(Held) \cup FirstFree(i)
      /\ \A q \in NumbersOf(Held) : At(c, i)[q] = HeldAt[q]
      /\ \A k \in 1 .. i : At(c, i)[FreePosition(Blocked, k)] = c[k]
  <2>1. DOMAIN At(c, i) = NumbersOf(Held) \cup FirstFree(i)
    BY <1>2, AtOrdering
  <2>2. \A q \in NumbersOf(Held) : At(c, i)[q] = HeldAt[q]
    BY <1>2, AtOrdering
  <2>3. ASSUME NEW k \in 1 .. i PROVE At(c, i)[FreePosition(Blocked, k)] = c[k]
    <3>1. k \in 1 .. Cardinality(ToPlace(days))
      BY <1>1, <1>2
    <3>2. FreePosition(Blocked, k) \notin NumbersOf(Held)
          /\ FreeUpTo(Blocked, FreePosition(Blocked, k)) = k
      BY <1>1, <3>1, FreeForAll
    <3>3. FreePosition(Blocked, k) \in FirstFree(i)
      BY DEF FirstFree
    <3>. QED  BY <3>2, <3>3 DEF At
  <2>. QED  BY <2>1, <2>2, <2>3
<1>5. ToPlace(days) \ Range(at) = P
  BY <1>1, <1>3
<1>6. P # {} /\ P \subseteq Registered
  BY <1>1, <1>2, SomeonePending
<1>7. p \notin NumbersOf(Held)
  BY <1>1, FreeForAll
<1> HIDE DEF p, at, P
<1>8. PlaceNext(at, i, days)
        = [q \in DOMAIN at \cup {p} |-> IF q = p THEN NextRow(P, p, at, days) ELSE at[q]]
  <2>1. PlaceNext(at, i, days)
          = [q \in DOMAIN at \cup {p} |->
               IF q = p THEN NextRow(ToPlace(days) \ Range(at), p, at, days) ELSE at[q]]
    BY Zenon DEF PlaceNext, ToPlace, p
  <2>. QED  BY <2>1, <1>5, Zenon
<1>9. PlaceNext(at, i, days)[p] = NextRow(P, p, at, days)
  BY <1>8
<1>10. c[i] = NextRow(P, p, at, days)
  BY <1>9 DEF at, p
<1>11. c[i] \in P
  BY <1>0, <1>6, <1>10, NextRowIsPending
<1>12. DOMAIN at \cup {p} = DOMAIN At(c, i)
  <2>1. FirstFree(i) = FirstFree(i - 1) \cup {p}
    <3>1. \A k : k \in 1 .. i <=> k \in 1 .. i - 1 \/ k = i
      BY <1>2
    <3>. QED  BY <3>1 DEF p, FirstFree
  <2>. QED  BY <2>1, <1>3, <1>4
<1>13. ASSUME NEW q \in DOMAIN At(c, i)
       PROVE  At(c, i)[q] = IF q = p THEN NextRow(P, p, at, days) ELSE at[q]
  <2>1. CASE q \in NumbersOf(Held)
    BY <2>1, <1>3, <1>4, <1>7
  <2>2. CASE q = p
    <3>1. i \in 1 .. i
      BY <1>2
    <3>. QED  BY <2>2, <3>1, <1>4, <1>10 DEF p
  <2>3. ASSUME NEW k \in 1 .. i, q = FreePosition(Blocked, k), q # p
        PROVE  At(c, i)[q] = at[q]
    <3>1. k \in 1 .. i - 1
      BY <2>3, <1>2 DEF p
    <3>. QED  BY <2>3, <3>1, <1>3, <1>4
  <2>. QED  BY <2>1, <2>2, <2>3, <1>4 DEF FirstFree
<1>14. PlaceNext(at, i, days) = At(c, i)
  <2>1. At(c, i) = [q \in DOMAIN At(c, i) |-> At(c, i)[q]]
    BY DEF At
  <2>. QED  BY <2>1, <1>8, <1>12, <1>13
<1>. QED  BY <1>10, <1>11, <1>14 DEF P, p, at

\* The placement is a sequence of turns.
LEMMA PlacedInTurns ==
    ASSUME Inv, NEW days
    PROVE  \E c : /\ Turns(c, days)
                  /\ Placed(days) = At(c, Cardinality(ToPlace(days)))
<1> DEFINE N == Cardinality(ToPlace(days))
<1>0. TypeOK
  BY DEF Inv
<1>1. ToPlace(days) \subseteq Registered /\ ToPlace(days) \cap Held = {} /\ N \in Nat
  BY <1>0, WhoIsPlaced
<1>2. PICK f : /\ f[0] = HeldAt
               /\ \A i \in 1 .. N : f[i] = PlaceNext(f[i - 1], i, days)
               /\ Placed(days) = f[N]
  BY <1>1, PlacedStepByStep
<1> DEFINE c == [k \in 1 .. N |-> f[k][FreePosition(Blocked, k)]]
           Next1(k) == c[k] = NextRow(ToPlace(days) \ Taken(c, k - 1),
                                      FreePosition(Blocked, k), At(c, k - 1), days)
           Good(n) == /\ f[n] = At(c, n)
                      /\ \A k \in 1 .. n : c[k] \in ToPlace(days) /\ Next1(k)
           T == {n \in 0 .. N : ~Good(n)}
<1>3. \A k \in 1 .. N : c[k] = f[k][FreePosition(Blocked, k)]
  OBVIOUS
<1>d. c = [k \in 1 .. N |-> c[k]]
  OBVIOUS
<1> HIDE DEF c
<1>4. T = {}
  <2> SUFFICES ASSUME T # {} PROVE FALSE
    OBVIOUS
  <2>0. T \subseteq Nat
    BY <1>1
  <2>1. PICK n \in T : \A m \in T : n <= m
    BY <2>0, LeastNatural
  <2>2. n \in 0 .. N /\ n \in Nat /\ ~Good(n)
    BY <2>0
  <2>3. CASE n = 0
    <3>1. At(c, 0) = HeldAt
      <4>1. DOMAIN HeldAt = NumbersOf(Held)
        BY <1>0, HeldAtIs
      <4>2. HeldAt = [q \in DOMAIN HeldAt |-> HeldAt[q]]
        BY DEF HeldAt
      <4>3. NumbersOf(Held) \cup FirstFree(0) = NumbersOf(Held)
        BY DEF FirstFree
      <4>4. At(c, 0) = [q \in NumbersOf(Held) |-> HeldAt[q]]
        BY <4>3 DEF At
      <4>. QED  BY <4>1, <4>2, <4>4
    <3>2. \A k \in 1 .. 0 : FALSE
      OBVIOUS
    <3>. QED  BY <1>2, <2>2, <2>3, <3>1, <3>2
  <2>4. CASE n # 0
    <3>1. n \in 1 .. N /\ n - 1 \in 0 .. N /\ ~(n <= n - 1)
      BY <2>2, <2>4, <1>1
    <3>2. Good(n - 1)
      <4> HIDE DEF Good
      <4>. QED  BY <2>1, <3>1
    <3>3. f[n - 1] = At(c, n - 1) /\ \A k \in 1 .. n - 1 : c[k] \in ToPlace(days) /\ Next1(k)
      BY <3>2
    <3>4. f[n] = PlaceNext(At(c, n - 1), n, days)
      BY <1>2, <3>1, <3>3
    <3>5. PlaceNext(At(c, n - 1), n, days)[FreePosition(Blocked, n)] = c[n]
      BY <1>3, <3>1, <3>4
    <3>6. /\ Next1(n)
          /\ c[n] \in ToPlace(days)
          /\ f[n] = At(c, n)
      BY <3>1, <3>3, <3>4, <3>5, PlaceNextIs
    <3>7. \A k \in 1 .. n : k \in 1 .. n - 1 \/ k = n
      BY <2>2
    <3> HIDE DEF Next1
    <3>8. Good(n)
      BY <3>3, <3>6, <3>7
    <3>. QED  BY <2>2, <3>8
  <2>. QED  BY <2>3, <2>4
<1>5. Good(N)
  <2>1. N \in 0 .. N
    BY <1>1
  <2> HIDE DEF Good
  <2>. QED  BY <1>4, <2>1
<1>6. Turns(c, days)
  BY <1>5, <1>d DEF Turns
<1>. QED  BY <1>2, <1>5, <1>6

\* In its turns everyone is placed once, and who is placed is the first of those left.
LEMMA TurnsAre ==
    ASSUME Inv, NEW days, NEW c, Turns(c, days)
    PROVE  /\ \A i, j \in 1 .. Cardinality(ToPlace(days)) : c[i] = c[j] => i = j
           /\ \A x \in ToPlace(days) : \E i \in 1 .. Cardinality(ToPlace(days)) : c[i] = x
<1> DEFINE N == Cardinality(ToPlace(days))
<1>0. TypeOK
  BY DEF Inv
<1>1. ToPlace(days) \subseteq Registered /\ N \in Nat /\ IsFiniteSet(ToPlace(days))
  BY <1>0, WhoIsPlaced
<1>2. ASSUME NEW i \in 1 .. N PROVE c[i] \notin Taken(c, i - 1)
  <2> DEFINE P == ToPlace(days) \ Taken(c, i - 1)
  <2>1. i - 1 \in Nat /\ i - 1 < N
    BY <1>1
  <2>2. P # {} /\ P \subseteq Registered
    BY <1>1, <2>1, SomeonePending
  <2>3. c[i] = NextRow(P, FreePosition(Blocked, i), At(c, i - 1), days)
    BY DEF Turns
  <2> HIDE DEF P
  <2>4. c[i] \in P
    BY <1>0, <2>2, <2>3, NextRowIsPending
  <2>. QED  BY <2>4 DEF P
<1>3. \A i, j \in 1 .. N : i < j => c[i] # c[j]
  <2> SUFFICES ASSUME NEW i \in 1 .. N, NEW j \in 1 .. N, i < j PROVE c[i] # c[j]
    OBVIOUS
  <2>1. i \in 1 .. j - 1
    BY <1>1
  <2>. QED  BY <1>2, <2>1 DEF Taken
<1>4. \A i, j \in 1 .. N : c[i] = c[j] => i = j
  <2> SUFFICES ASSUME NEW i \in 1 .. N, NEW j \in 1 .. N, c[i] = c[j] PROVE i = j
    OBVIOUS
  <2>1. i < j \/ j < i \/ i = j
    BY <1>1
  <2>. QED  BY <1>3, <2>1
<1>5. c \in Injection(1 .. N, ToPlace(days))
  BY <1>4 DEF Turns, Injection, IsInjective
<1>6. IsFiniteSet(1 .. N) /\ Cardinality(1 .. N) = N
  BY <1>1, FS_Interval
<1>7. c \in Surjection(1 .. N, ToPlace(days))
  BY <1>1, <1>5, <1>6, FS_Injection
<1>. QED  BY <1>4, <1>7 DEF Surjection

\* The numbers of an ordering: the free positions in turn; everyone else keeps his.
LEMMA AutomaticIs ==
    ASSUME Inv, NEW days, NEW c, Turns(c, days),
           Placed(days) = At(c, Cardinality(ToPlace(days)))
    PROVE  /\ DOMAIN Automatic(days) = Choreographies
           /\ \A i \in 1 .. Cardinality(ToPlace(days)) : Automatic(days)[c[i]] = FreePosition(Blocked, i)
           /\ \A x \in Choreographies \ ToPlace(days) : Automatic(days)[x] = row[x].number
<1> DEFINE N == Cardinality(ToPlace(days))
           at == At(c, N)
<1>0. TypeOK
  BY DEF Inv
<1>1. ToPlace(days) \subseteq Registered /\ ToPlace(days) \cap Held = {} /\ N \in Nat
      /\ ToPlace(days) \subseteq Choreographies
  BY <1>0, WhoIsPlaced
<1>2. N \in 0 .. N
  BY <1>1
<1>3. DOMAIN at = NumbersOf(Held) \cup FirstFree(N)
  BY <1>2, AtOrdering
<1>4. \A q \in NumbersOf(Held) : at[q] = HeldAt[q]
  BY <1>2, AtOrdering
<1>5. ASSUME NEW k \in 1 .. N PROVE at[FreePosition(Blocked, k)] = c[k] /\ FreePosition(Blocked, k) \in DOMAIN at
  <2>1. FreePosition(Blocked, k) \notin NumbersOf(Held)
        /\ FreeUpTo(Blocked, FreePosition(Blocked, k)) = k
    BY <1>1, FreeForAll
  <2>2. FreePosition(Blocked, k) \in FirstFree(N)
    BY DEF FirstFree
  <2>. QED  BY <2>1, <2>2 DEF At
<1>6. Range(at) = Held \cup Taken(c, N)
  BY <1>2, AtOrdering
<1>7. Taken(c, N) = ToPlace(days)
  <2>1. \A k \in 1 .. N : c[k] \in ToPlace(days)
    BY DEF Turns
  <2>2. \A x \in ToPlace(days) : \E i \in 1 .. N : c[i] = x
    BY TurnsAre
  <2>. QED  BY <2>1, <2>2 DEF Taken
<1>8. \A q \in NumbersOf(Held) : at[q] \in Held /\ row[at[q]].number = q
  BY <1>0, <1>4, HeldAtIs
<1>9. \A x \in Choreographies :
        Automatic(days)[x] = IF x \in Range(at) THEN CHOOSE p \in DOMAIN at : at[p] = x ELSE row[x].number
  BY DEF Automatic
<1>10. DOMAIN Automatic(days) = Choreographies
  BY DEF Automatic
<1> HIDE DEF at
<1>11. ASSUME NEW i \in 1 .. N PROVE Automatic(days)[c[i]] = FreePosition(Blocked, i)
  <2>1. c[i] \in ToPlace(days) /\ c[i] \in Range(at) /\ c[i] \in Choreographies
    BY <1>1, <1>6, <1>7 DEF Turns
  <2>2. ASSUME NEW p \in DOMAIN at, at[p] = c[i] PROVE p = FreePosition(Blocked, i)
    <3>1. p \notin NumbersOf(Held)
      BY <1>1, <1>8, <2>1, <2>2
    <3>2. PICK k \in 1 .. N : p = FreePosition(Blocked, k)
      BY <1>3, <3>1 DEF FirstFree
    <3>3. c[k] = c[i]
      BY <1>5, <2>2, <3>2
    <3>. QED  BY <3>2, <3>3, TurnsAre
  <2>3. FreePosition(Blocked, i) \in DOMAIN at /\ at[FreePosition(Blocked, i)] = c[i]
    BY <1>5
  <2>4. (CHOOSE p \in DOMAIN at : at[p] = c[i]) = FreePosition(Blocked, i)
    BY <2>2, <2>3
  <2>. QED  BY <1>9, <2>1, <2>4
<1>12. ASSUME NEW x \in Held PROVE Automatic(days)[x] = row[x].number
  <2>1. x \in Range(at) /\ x \in Choreographies /\ x \notin ToPlace(days)
    BY <1>0, <1>1, <1>6, Parts
  <2>2. row[x].number \in DOMAIN at /\ at[row[x].number] = x
    BY <1>0, <1>3, <1>4, HeldAtIs DEF NumbersOf
  <2>3. ASSUME NEW p \in DOMAIN at, at[p] = x PROVE p = row[x].number
    <3>1. CASE p \in NumbersOf(Held)
      BY <1>8, <2>3, <3>1
    <3>2. CASE p \notin NumbersOf(Held)
      <4>1. PICK k \in 1 .. N : p = FreePosition(Blocked, k)
        BY <1>3, <3>2 DEF FirstFree
      <4>2. x = c[k] /\ c[k] \in ToPlace(days)
        BY <1>5, <2>3, <4>1 DEF Turns
      <4>. QED  BY <2>1, <4>2
    <3>. QED  BY <3>1, <3>2
  <2>4. (CHOOSE p \in DOMAIN at : at[p] = x) = row[x].number
    BY <2>2, <2>3
  <2>. QED  BY <1>9, <2>1, <2>4
<1>13. ASSUME NEW x \in Choreographies \ ToPlace(days) PROVE Automatic(days)[x] = row[x].number
  <2>1. CASE x \in Held
    BY <1>12, <2>1
  <2>2. CASE x \notin Held
    <3>1. x \notin Range(at)
      BY <1>6, <1>7, <2>2
    <3>. QED  BY <1>9, <3>1
  <2>. QED  BY <2>1, <2>2
<1>. QED  BY <1>10, <1>11, <1>13

-----------------------------------------------------------------------------
\* THE INVARIANT IS KEPT

\* num gives the rows of T, all that are numbered and may move among them, numbers
\* of their own that nobody holds, as low as what is blocked allows.
Renumbers(num, T) ==
    /\ T \subseteq Movable /\ Movable \cap Numbered \subseteq T
    /\ \A x \in T : /\ num[x] \in 1 .. Cardinality(Choreographies)
                    /\ num[x] <= Cardinality(T) + Cardinality(Blocked)
                    /\ num[x] \notin NumbersOf(Held)
    /\ \A x, y \in T : num[x] = num[y] => x = y
    /\ \A x \in Choreographies \ T : num[x] = row[x].number

\* What such a Write changes.
LEMMA AfterWrite ==
    ASSUME TypeOK, NEW num, NEW T, Renumbers(num, T), Write(num), evaluated' = evaluated
    PROVE  /\ \A x \in Choreographies : /\ row'[x].stage = row[x].stage
                                        /\ row'[x].kind = row[x].kind
                                        /\ row'[x].number = num[x]
           /\ Registered' = Registered /\ Withdrawn' = Withdrawn /\ Deleted' = Deleted
           /\ Numbered' = Held \cup T /\ Numbered \subseteq Numbered'
<1>1. row' = [x \in Choreographies |-> [row[x] EXCEPT !.number = num[x]]]
  BY DEF Write
<1>2. ASSUME NEW x \in Choreographies
      PROVE  /\ row'[x].stage = row[x].stage
             /\ row'[x].kind = row[x].kind
             /\ row'[x].number = num[x]
  <2>1. row[x] \in [stage : {"none", "on", "withdrawn", "deleted"},
                    kind : Kinds \cup {None},
                    number : 0 .. Cardinality(Choreographies)]
    BY DEF TypeOK
  <2>. QED  BY <1>1, <2>1
<1>3. Registered' = Registered
  BY <1>2 DEF Registered
<1>4. Withdrawn' = Withdrawn /\ Deleted' = Deleted
  BY <1>2 DEF Withdrawn, Deleted
<1>5. Held \subseteq Registered /\ T \subseteq Registered /\ Registered \subseteq Choreographies
      /\ Held \cap T = {} /\ Held \subseteq Numbered /\ Numbered = Held \cup (Movable \cap Numbered)
  BY Parts DEF Renumbers
<1>6. Numbered' = {x \in Registered : num[x] # 0}
  BY <1>2, <1>3, <1>5 DEF Numbered, Unnumbered
<1>7. \A x \in Held : num[x] = row[x].number /\ num[x] # 0
  BY <1>5 DEF Renumbers, Numbered, Unnumbered
<1>8. \A x \in T : num[x] # 0
  <2>1. 0 \notin 1 .. Cardinality(Choreographies)
    BY PositionsAreNumbers
  <2>. QED  BY <2>1 DEF Renumbers
<1>9. \A x \in Registered : num[x] # 0 => x \in Held \cup T
  BY <1>5 DEF Renumbers, Numbered, Unnumbered
<1>10. Numbered' = Held \cup T
  BY <1>5, <1>6, <1>7, <1>8, <1>9
<1>11. Numbered \subseteq Held \cup T
  BY <1>5 DEF Renumbers
<1>. QED  BY <1>2, <1>3, <1>4, <1>10, <1>11

\* It keeps the invariant.
LEMMA WriteKeepsInv ==
    ASSUME Inv, NEW num, NEW T, Renumbers(num, T), Write(num), evaluated' = evaluated,
           fresh' \in SUBSET Days
    PROVE  Inv'
<1>0. TypeOK /\ NumbersBounded
  BY DEF Inv
<1>1. \A x \in Choreographies : /\ row'[x].stage = row[x].stage
                                /\ row'[x].kind = row[x].kind
                                /\ row'[x].number = num[x]
  BY <1>0, AfterWrite
<1>2. Registered' = Registered /\ Withdrawn' = Withdrawn /\ Deleted' = Deleted
  BY <1>0, AfterWrite
<1>3. Numbered' = Held \cup T /\ Numbered \subseteq Numbered'
  BY <1>0, AfterWrite
<1>4. Held \subseteq Registered /\ T \subseteq Registered /\ Registered \subseteq Choreographies
      /\ Held \cap T = {} /\ Held \subseteq Numbered /\ Numbered \subseteq Choreographies
      /\ evaluated \subseteq Numbered /\ evaluated \cap Withdrawn = {}
  BY <1>0, Parts DEF Renumbers
<1>5. \A x \in Held : num[x] = row[x].number /\ num[x] \in NumbersOf(Held)
  BY <1>4 DEF Renumbers, NumbersOf
<1>6. \A x \in Choreographies : num[x] \in 0 .. Cardinality(Choreographies)
  <2>1. \A x \in Choreographies : row[x].number \in 0 .. Cardinality(Choreographies)
    BY <1>0, RowFields, PositionsAreNumbers
  <2>2. 1 .. Cardinality(Choreographies) \subseteq 0 .. Cardinality(Choreographies)
    BY PositionsAreNumbers
  <2>. QED  BY <2>1, <2>2 DEF Renumbers
<1>7. TypeOK'
  <2>1. row' \in [Choreographies -> [stage : {"none", "on", "withdrawn", "deleted"},
                                     kind : Kinds \cup {None},
                                     number : 0 .. Cardinality(Choreographies)]]
    <3>1. row' = [x \in Choreographies |-> [row[x] EXCEPT !.number = num[x]]]
      BY DEF Write
    <3>2. ASSUME NEW x \in Choreographies
          PROVE  [row[x] EXCEPT !.number = num[x]]
                   \in [stage : {"none", "on", "withdrawn", "deleted"},
                        kind : Kinds \cup {None}, number : 0 .. Cardinality(Choreographies)]
      <4>1. row[x] \in [stage : {"none", "on", "withdrawn", "deleted"},
                        kind : Kinds \cup {None}, number : 0 .. Cardinality(Choreographies)]
        BY <1>0 DEF TypeOK
      <4>2. num[x] \in 0 .. Cardinality(Choreographies)
        BY <1>6
      <4>. QED  BY <4>1, <4>2
    <3>. QED  BY <3>1, <3>2
  <2>2. \A x \in Choreographies : x \in Registered' <=> row'[x].kind # None
    BY <1>0, <1>1, <1>2 DEF TypeOK
  <2>3. evaluated' \subseteq Numbered' \ Withdrawn'
    BY <1>2, <1>3, <1>4
  <2>4. \A x, y \in Numbered' : x # y => row'[x].number # row'[y].number
    <3> SUFFICES ASSUME NEW x \in Held \cup T, NEW y \in Held \cup T, num[x] = num[y] PROVE x = y
      BY <1>1, <1>3, <1>4
    <3>1. CASE x \in Held /\ y \in Held
      BY <3>1, <1>0, <1>4, <1>5, NumbersAreApart
    <3>2. CASE x \in T /\ y \in T
      BY <3>2 DEF Renumbers
    <3>3. CASE x \in Held /\ y \in T
      BY <3>3, <1>5 DEF Renumbers
    <3>4. CASE x \in T /\ y \in Held
      BY <3>4, <1>5 DEF Renumbers
    <3>. QED  BY <3>1, <3>2, <3>3, <3>4
  <2>5. fresh' \subseteq Days'
    BY DEF Days
  <2>. QED  BY <2>1, <2>2, <2>3, <2>4, <2>5 DEF TypeOK
<1>8. NumbersBounded'
  <2>1. IsFiniteSet(Held) /\ IsFiniteSet(T)
        /\ Cardinality(Held) \in Nat /\ Cardinality(T) \in Nat /\ Cardinality(Numbered) \in Nat
    BY <1>4, RowsAreFinite
  <2>2. Deleted \subseteq Choreographies
    BY DEF Deleted
  <2>3. Cardinality(Deleted) \in Nat
    BY <2>2, RowsAreFinite
  <2>4. Cardinality(Held \cup T) = Cardinality(Held) + Cardinality(T)
    <3>1. Cardinality(Held \cup T) = Cardinality(Held) + Cardinality(T) - Cardinality(Held \cap T)
      BY <2>1, FS_Union
    <3>2. Cardinality(Held \cap T) = 0
      BY <1>4, FS_EmptySet, Zenon
    <3>. QED  BY <2>1, <3>1, <3>2
  <2>5. Cardinality(Numbered) <= Cardinality(Held \cup T)
    <3>1. Held \cup T \subseteq Choreographies
      BY <1>4
    <3>2. IsFiniteSet(Held \cup T)
      BY <3>1, RowsAreFinite
    <3>. QED  BY <1>3, <3>2, FS_Subset
  <2>6. IsFiniteSet(Blocked) /\ Cardinality(Blocked) <= Cardinality(Held) + Cardinality(Deleted)
    BY BlockedIsBounded
  <2>7. Cardinality(Blocked) \in Nat
    BY <2>6, FS_CardinalityType
  <2> DEFINE L == Cardinality(Held) + Cardinality(T) + Cardinality(Deleted)
  <2>8. ASSUME NEW x \in T PROVE num[x] <= L
    <3>1. num[x] \in 1 .. Cardinality(Choreographies) /\ num[x] <= Cardinality(T) + Cardinality(Blocked)
      BY DEF Renumbers
    <3>2. num[x] \in Nat
      BY <3>1, PositionsAreNumbers
    <3>. QED  BY <2>1, <2>3, <2>6, <2>7, <3>1, <3>2
  <2>9. ASSUME NEW x \in Held PROVE num[x] <= L
    <3>1. x \in Numbered /\ num[x] = row[x].number /\ x \in Choreographies
      BY <1>4, <1>5
    <3>2. row[x].number <= Cardinality(Numbered) + Cardinality(Deleted) /\ row[x].number \in Nat
      BY <1>0, <3>1, RowFields DEF NumbersBounded
    <3>. QED  BY <2>1, <2>3, <2>4, <2>5, <3>1, <3>2
  <2>10. \A x \in Numbered' : row'[x].number <= L
    BY <1>1, <1>3, <1>4, <2>8, <2>9
  <2>11. Cardinality(Numbered)' + Cardinality(Deleted)' = L
    BY <1>2, <1>3, <2>4
  <2>. QED  BY <2>10, <2>11 DEF NumbersBounded
<1>. QED  BY <1>7, <1>8 DEF Inv

\* An ordering renumbers the rows it places.
LEMMA AutomaticRenumbers ==
    ASSUME Inv, NEW days
    PROVE  Renumbers(Automatic(days), ToPlace(days))
<1> DEFINE N == Cardinality(ToPlace(days))
           num == Automatic(days)
<1>0. TypeOK
  BY DEF Inv
<1>1. ToPlace(days) \subseteq Registered /\ ToPlace(days) \cap Held = {} /\ N \in Nat
      /\ ToPlace(days) \subseteq Choreographies /\ ToPlace(days) \subseteq Movable
      /\ Movable \cap Numbered \subseteq ToPlace(days)
  BY <1>0, WhoIsPlaced
<1>2. PICK c : Turns(c, days) /\ Placed(days) = At(c, N)
  BY PlacedInTurns
<1>3. \A i \in 1 .. N : num[c[i]] = FreePosition(Blocked, i)
  BY <1>2, AutomaticIs
<1>4. \A x \in Choreographies \ ToPlace(days) : num[x] = row[x].number
  BY <1>2, AutomaticIs
<1>5. \A x \in ToPlace(days) : \E i \in 1 .. N : c[i] = x
  BY <1>2, TurnsAre
<1> HIDE DEF num
<1>6. ASSUME NEW x \in ToPlace(days)
      PROVE  /\ num[x] \in 1 .. Cardinality(Choreographies)
             /\ num[x] <= N + Cardinality(Blocked)
             /\ num[x] \notin NumbersOf(Held)
  <2>1. PICK i \in 1 .. N : c[i] = x
    BY <1>5
  <2>2. num[x] = FreePosition(Blocked, i)
    BY <1>3, <2>1
  <2>3. FreePosition(Blocked, i) \in Positions
    BY <1>1, FreeForAll
  <2>4. FreePosition(Blocked, i) \notin NumbersOf(Held)
    BY <1>1, FreeForAll
  <2>5. FreePosition(Blocked, i) <= Cardinality(Choreographies)
    BY <1>1, FreeForAll
  <2>6. FreePosition(Blocked, i) <= i + Cardinality(Blocked)
    BY <1>1, FreeForAll
  <2>7. FreePosition(Blocked, i) \in Nat /\ FreePosition(Blocked, i) # 0
    BY <2>3, PositionsAreNumbers
  <2>8. Cardinality(Blocked) \in Nat /\ Cardinality(Choreographies) \in Nat
    BY <1>1, RoomForAll, PositionsAreNumbers
  <2>. QED  BY <1>1, <2>2, <2>4, <2>5, <2>6, <2>7, <2>8
<1>7. ASSUME NEW x \in ToPlace(days), NEW y \in ToPlace(days), num[x] = num[y] PROVE x = y
  <2>1. PICK i \in 1 .. N : c[i] = x
    BY <1>5
  <2>2. PICK j \in 1 .. N : c[j] = y
    BY <1>5
  <2>3. FreePosition(Blocked, i) = FreePosition(Blocked, j)
    BY <1>3, <1>7, <2>1, <2>2
  <2>4. FreeUpTo(Blocked, FreePosition(Blocked, i)) = i
    BY <1>1, FreeForAll
  <2>5. FreeUpTo(Blocked, FreePosition(Blocked, j)) = j
    BY <1>1, FreeForAll
  <2>. QED  BY <2>1, <2>2, <2>3, <2>4, <2>5
<1>. QED  BY <1>1, <1>4, <1>6, <1>7 DEF Renumbers, num

-----------------------------------------------------------------------------
\* MOVES

\* The rows that close up around x, and how many of them stand before y.
Others(x) == (Movable \cap Numbered) \ {x}
Before(x, y) == Cardinality({z \in Others(x) : row[z].number < row[y].number})

\* Where a move takes everyone, as an index into the free positions.
Target(x, to) ==
    Min({Cardinality(Others(x)),
         Cardinality({i \in 1 .. Cardinality(Others(x)) + 1 : FreePosition(Blocked, i) < to})})
Place(x, to, y) ==
    IF y = x THEN Target(x, to) + 1
    ELSE Before(x, y) + (IF Before(x, y) < Target(x, to) THEN 1 ELSE 2)

\* What Moved does, by those indexes.
LEMMA MovedIs ==
    ASSUME NEW x, NEW to
    PROVE  /\ \A y \in Choreographies : y = x \/ y \in Others(x) =>
                 Moved(x, to)[y] = FreePosition(Blocked, Place(x, to, y))
           /\ \A y \in Choreographies : y # x /\ y \notin Others(x) => Moved(x, to)[y] = row[y].number
<1>1. ASSUME NEW y \in Choreographies
      PROVE  Moved(x, to)[y] =
               IF y = x THEN FreePosition(Blocked, Target(x, to) + 1)
               ELSE IF y \in Others(x)
                    THEN FreePosition(Blocked, Before(x, y) + (IF Before(x, y) < Target(x, to) THEN 1 ELSE 2))
                    ELSE row[y].number
  BY DEF Moved, Target, Before, Others
<1>2. ASSUME NEW y \in Choreographies, y = x \/ y \in Others(x)
      PROVE  Moved(x, to)[y] = FreePosition(Blocked, Place(x, to, y))
  BY <1>1, <1>2, Zenon DEF Place
<1>3. ASSUME NEW y \in Choreographies, y # x /\ y \notin Others(x)
      PROVE  Moved(x, to)[y] = row[y].number
  BY <1>1, <1>3
<1>. QED  BY <1>2, <1>3

\* The others stand in the order of their numbers, before their number.
LEMMA BeforeIs ==
    ASSUME TypeOK, NEW x, NEW y \in Others(x)
    PROVE  /\ Before(x, y) \in 0 .. Cardinality(Others(x)) - 1
           /\ \A z \in Others(x) : row[y].number < row[z].number => Before(x, y) < Before(x, z)
<1> DEFINE B(z) == {w \in Others(x) : row[w].number < row[z].number}
<1>1. Others(x) \subseteq Choreographies /\ Others(x) \subseteq Numbered
  BY Parts DEF Others
<1>2. IsFiniteSet(Others(x)) /\ Cardinality(Others(x)) \in Nat
  BY <1>1, RowsAreFinite
<1>3. \A z \in Others(x) : row[z].number \in Nat
  BY <1>1, RowFields
<1>4. \A z : B(z) \subseteq Others(x) /\ Before(x, z) = Cardinality(B(z))
  BY DEF Before
<1>5. \A z : IsFiniteSet(B(z)) /\ Cardinality(B(z)) \in Nat
  <2> SUFFICES ASSUME NEW z PROVE IsFiniteSet(B(z)) /\ Cardinality(B(z)) \in Nat
    OBVIOUS
  <2>1. B(z) \subseteq Choreographies
    BY <1>1, <1>4
  <2> HIDE DEF B
  <2>. QED  BY <2>1, RowsAreFinite
<1>6. y \notin B(y)
  BY <1>3
<1>7. ASSUME NEW z \in Others(x), row[y].number < row[z].number PROVE Before(x, y) < Before(x, z)
  <2>1. B(y) \subseteq B(z) /\ y \in B(z)
    BY <1>3, <1>7
  <2> HIDE DEF B
  <2>2. Cardinality(B(y)) <= Cardinality(B(z)) /\ Cardinality(B(y)) # Cardinality(B(z))
    BY <1>5, <1>6, <2>1, FS_Subset
  <2>. QED  BY <1>4, <1>5, <2>2
<1>8. Before(x, y) \in 0 .. Cardinality(Others(x)) - 1
  <2> HIDE DEF B
  <2>1. Cardinality(B(y)) <= Cardinality(Others(x)) /\ Cardinality(B(y)) # Cardinality(Others(x))
    BY <1>2, <1>4, <1>6, FS_Subset
  <2>. QED  BY <1>2, <1>4, <1>5, <2>1
<1>. QED  BY <1>7, <1>8

\* The rows a move renumbers.
LEMMA WhoMoves ==
    ASSUME TypeOK, NEW x \in Movable
    PROVE  /\ Others(x) \cup {x} \subseteq Movable /\ Others(x) \cup {x} \subseteq Registered
           /\ (Others(x) \cup {x}) \cap Held = {}
           /\ Others(x) \cup {x} \subseteq Choreographies
           /\ Movable \cap Numbered \subseteq Others(x) \cup {x}
           /\ Cardinality(Others(x)) \in Nat
           /\ Cardinality(Others(x) \cup {x}) = Cardinality(Others(x)) + 1
<1>1. Others(x) \cup {x} \subseteq Movable /\ x \notin Others(x)
      /\ Movable \cap Numbered \subseteq Others(x) \cup {x}
  BY DEF Others
<1>2. Others(x) \cup {x} \subseteq Registered /\ (Others(x) \cup {x}) \cap Held = {}
      /\ Others(x) \cup {x} \subseteq Choreographies /\ Others(x) \subseteq Choreographies
  BY <1>1, Parts
<1>3. IsFiniteSet(Others(x)) /\ Cardinality(Others(x)) \in Nat
  BY <1>2, RowsAreFinite
<1>4. Cardinality(Others(x) \cup {x}) = Cardinality(Others(x)) + 1
  BY <1>1, <1>3, FS_AddElement
<1>. QED  BY <1>1, <1>2, <1>3, <1>4

\* x is put among the others, or after them.
LEMMA TargetIs ==
    ASSUME Inv, NEW x \in Movable, NEW to
    PROVE  Target(x, to) \in 0 .. Cardinality(Others(x))
<1> DEFINE n == Cardinality(Others(x))
           m == Cardinality({i \in 1 .. n + 1 : FreePosition(Blocked, i) < to})
<1>0. TypeOK
  BY DEF Inv
<1>1. n \in Nat
  BY <1>0, WhoMoves
<1>2. m \in Nat
  <2>1. IsFiniteSet(1 .. n + 1)
    BY <1>1, FS_Interval
  <2>2. IsFiniteSet({i \in 1 .. n + 1 : FreePosition(Blocked, i) < to})
    BY <2>1, FS_Subset
  <2>. QED  BY <2>2, FS_CardinalityType
<1>3. Target(x, to) = Min({n, m})
  BY Zenon DEF Target
<1> HIDE DEF n, m
<1>4. Min({n, m}) \in {n, m} /\ Min({n, m}) <= n
  <2>1. {n, m} \in SUBSET Nat /\ {n, m} # {}
    BY <1>1, <1>2
  <2>2. Min({n, m}) \in {n, m} /\ \A k \in {n, m} : Min({n, m}) <= k
    BY <2>1, MinOfNaturals
  <2>. QED  BY <2>2
<1>5. Target(x, to) \in 0 .. n
  BY <1>1, <1>2, <1>3, <1>4
<1>. QED  BY <1>5 DEF n

\* Everyone gets a place of his own, the others in their order, x's place apart.
LEMMA PlacesAre ==
    ASSUME Inv, NEW x \in Movable, NEW to
    PROVE  /\ \A y \in Others(x) \cup {x} : Place(x, to, y) \in 1 .. Cardinality(Others(x)) + 1
           /\ \A y, z \in Others(x) :
                 row[y].number < row[z].number => Place(x, to, y) < Place(x, to, z)
           /\ \A y \in Others(x) : Place(x, to, y) # Place(x, to, x)
           /\ \A y, z \in Others(x) \cup {x} : Place(x, to, y) = Place(x, to, z) => y = z
<1> DEFINE n == Cardinality(Others(x))
           t == Target(x, to)
<1>0. TypeOK
  BY DEF Inv
<1>1. n \in Nat /\ t \in 0 .. n
  BY <1>0, WhoMoves, TargetIs
<1>2. x \notin Others(x)
  BY DEF Others
<1>3. \A y \in Others(x) : Before(x, y) \in 0 .. n - 1
  BY <1>0, BeforeIs
<1>4. \A y, z \in Others(x) : row[y].number < row[z].number => Before(x, y) < Before(x, z)
  BY <1>0, BeforeIs
<1>5. Place(x, to, x) = t + 1
  BY DEF Place
<1>6. \A y \in Others(x) : Place(x, to, y) = Before(x, y) + (IF Before(x, y) < t THEN 1 ELSE 2)
  BY <1>2 DEF Place
<1> HIDE DEF t, n
<1>7. \A y \in Others(x) : Place(x, to, y) \in 1 .. n + 1 /\ Place(x, to, y) # t + 1
  BY <1>1, <1>3, <1>6
<1>8. ASSUME NEW y \in Others(x), NEW z \in Others(x), row[y].number < row[z].number
      PROVE  Place(x, to, y) < Place(x, to, z)
  <2>1. Before(x, y) < Before(x, z)
    BY <1>4, <1>8
  <2>. QED  BY <1>1, <1>3, <1>6, <2>1
<1>9. ASSUME NEW y \in Others(x), NEW z \in Others(x), Place(x, to, y) = Place(x, to, z) PROVE y = z
  <2>1. y \in Numbered /\ z \in Numbered /\ row[y].number \in Nat /\ row[z].number \in Nat
    BY <1>0, Parts, RowFields DEF Others
  <2>2. Place(x, to, y) \in 1 .. n + 1
    BY <1>7
  <2>3. ~(row[y].number < row[z].number) /\ ~(row[z].number < row[y].number)
    BY <1>1, <1>8, <1>9, <2>2
  <2>. QED  BY <1>0, <2>1, <2>3, NumbersAreApart
<1>10. \A y \in Others(x) \cup {x} : Place(x, to, y) \in 1 .. n + 1
  BY <1>1, <1>5, <1>7
<1>11. \A y, z \in Others(x) \cup {x} : Place(x, to, y) = Place(x, to, z) => y = z
  BY <1>5, <1>7, <1>9
<1>. QED  BY <1>5, <1>7, <1>8, <1>10, <1>11 DEF n

\* A move renumbers the rows it moves.
LEMMA MovedRenumbers ==
    ASSUME Inv, NEW x \in Movable, NEW to
    PROVE  Renumbers(Moved(x, to), Others(x) \cup {x})
<1> DEFINE S == Others(x) \cup {x}
           num == Moved(x, to)
<1>0. TypeOK
  BY DEF Inv
<1>1. S \subseteq Movable /\ S \subseteq Registered /\ S \cap Held = {} /\ S \subseteq Choreographies
      /\ Movable \cap Numbered \subseteq S /\ Cardinality(S) \in Nat
      /\ Cardinality(S) = Cardinality(Others(x)) + 1
  BY <1>0, WhoMoves
<1>2. \A y \in S : num[y] = FreePosition(Blocked, Place(x, to, y))
  BY <1>1, MovedIs
<1>3. \A y \in Choreographies \ S : num[y] = row[y].number
  BY MovedIs
<1>4. \A y \in S : Place(x, to, y) \in 1 .. Cardinality(S)
  BY <1>1, PlacesAre
<1>5. \A y, z \in S : Place(x, to, y) = Place(x, to, z) => y = z
  BY PlacesAre
<1> HIDE DEF num, S
<1>6. ASSUME NEW y \in S
      PROVE  /\ num[y] \in 1 .. Cardinality(Choreographies)
             /\ num[y] <= Cardinality(S) + Cardinality(Blocked)
             /\ num[y] \notin NumbersOf(Held)
  <2> DEFINE i == Place(x, to, y)
  <2>1. i \in 1 .. Cardinality(S) /\ num[y] = FreePosition(Blocked, i)
    BY <1>2, <1>4
  <2> HIDE DEF i
  <2>2. FreePosition(Blocked, i) \in Positions
    BY <1>1, <2>1, FreeForAll
  <2>3. FreePosition(Blocked, i) \notin NumbersOf(Held)
    BY <1>1, <2>1, FreeForAll
  <2>4. FreePosition(Blocked, i) <= Cardinality(Choreographies)
    BY <1>1, <2>1, FreeForAll
  <2>5. FreePosition(Blocked, i) <= i + Cardinality(Blocked)
    BY <1>1, <2>1, FreeForAll
  <2>6. FreePosition(Blocked, i) \in Nat /\ FreePosition(Blocked, i) # 0
    BY <2>2, PositionsAreNumbers
  <2>7. Cardinality(Blocked) \in Nat /\ Cardinality(Choreographies) \in Nat
    BY <1>1, RoomForAll, PositionsAreNumbers
  <2>. QED  BY <1>1, <2>1, <2>3, <2>4, <2>5, <2>6, <2>7
<1>7. ASSUME NEW y \in S, NEW z \in S, num[y] = num[z] PROVE y = z
  <2>1. FreePosition(Blocked, Place(x, to, y)) = FreePosition(Blocked, Place(x, to, z))
    BY <1>2, <1>7
  <2>2. Place(x, to, y) \in 1 .. Cardinality(S) /\ Place(x, to, z) \in 1 .. Cardinality(S)
    BY <1>4
  <2>3. FreeUpTo(Blocked, FreePosition(Blocked, Place(x, to, y))) = Place(x, to, y)
    BY <1>1, <2>2, FreeForAll
  <2>4. FreeUpTo(Blocked, FreePosition(Blocked, Place(x, to, z))) = Place(x, to, z)
    BY <1>1, <2>2, FreeForAll
  <2>. QED  BY <1>5, <2>1, <2>3, <2>4
<1>. QED  BY <1>1, <1>3, <1>6, <1>7 DEF Renumbers, num, S

\* Before anything is registered.
LEMMA InitInv == Init => Inv
<1> SUFFICES ASSUME Init PROVE Inv
  OBVIOUS
<1>1. row = [x \in Choreographies |-> NoRow] /\ evaluated = {} /\ fresh = {}
  BY DEF Init
<1>2. NoRow \in [stage : {"none", "on", "withdrawn", "deleted"},
                 kind : Kinds \cup {None}, number : 0 .. Cardinality(Choreographies)]
      /\ NoRow.stage = "none" /\ NoRow.kind = None
  BY PositionsAreNumbers DEF NoRow, Unnumbered
<1>3. Registered = {} /\ Numbered = {}
  BY <1>1, <1>2 DEF Registered, Numbered
<1>4. TypeOK
  BY <1>1, <1>2, <1>3 DEF TypeOK
<1>5. NumbersBounded
  BY <1>3 DEF NumbersBounded
<1>. QED  BY <1>4, <1>5 DEF Inv

\* A registration adds a row without a number.
LEMMA RegisterKeepsInv ==
    ASSUME Inv, NEW x \in Choreographies, NEW kind \in Kinds, Register(x, kind)
    PROVE  Inv'
<1> DEFINE Rows == [stage : {"none", "on", "withdrawn", "deleted"},
                    kind : Kinds \cup {None}, number : 0 .. Cardinality(Choreographies)]
           new == [NoRow EXCEPT !.stage = "on", !.kind = kind]
<1>0. TypeOK /\ NumbersBounded
  BY DEF Inv
<1>1. /\ row[x].stage = "none" /\ row' = [row EXCEPT ![x] = new]
      /\ fresh' = {} /\ evaluated' = evaluated
  BY DEF Register
<1>2. new \in Rows /\ new.stage = "on" /\ new.kind = kind /\ new.number = 0
  <2> DEFINE bare == [stage |-> "none", kind |-> None, number |-> 0]
             on == [bare EXCEPT !.stage = "on"]
  <2>0. on = [stage |-> "on", kind |-> None, number |-> 0]
    OBVIOUS
  <2>a. new = [on EXCEPT !.kind = kind]
    BY DEF NoRow, Unnumbered
  <2> HIDE DEF on
  <2>b. [on EXCEPT !.kind = kind] = [stage |-> "on", kind |-> kind, number |-> 0]
    BY <2>0
  <2>1. new = [stage |-> "on", kind |-> kind, number |-> 0]
    BY <2>a, <2>b
  <2>2. kind \in Kinds \cup {None} /\ 0 \in 0 .. Cardinality(Choreographies)
    BY PositionsAreNumbers
  <2> HIDE DEF new
  <2>. QED  BY <2>1, <2>2
<1>3. row \in [Choreographies -> Rows]
  BY <1>0 DEF TypeOK
<1> HIDE DEF new, Rows
<1>4. row' \in [Choreographies -> Rows] /\ row'[x] = new
      /\ \A y \in Choreographies \ {x} : row'[y] = row[y]
  BY <1>1, <1>2, <1>3
<1>5. Registered' = Registered \cup {x} /\ x \notin Registered
  BY <1>1, <1>2, <1>4 DEF Registered
<1>6. Withdrawn' = Withdrawn
  BY <1>1, <1>2, <1>4 DEF Withdrawn
<1>7. Deleted' = Deleted
  BY <1>1, <1>2, <1>4 DEF Deleted
<1>8. Numbered' = Numbered /\ x \notin Numbered
  BY <1>2, <1>4, <1>5 DEF Numbered, Unnumbered, Registered
<1>9. \A y \in Numbered : row'[y] = row[y] /\ y \in Choreographies
  BY <1>4, <1>8 DEF Numbered, Registered
<1>10. TypeOK'
  <2>1. \A y \in Choreographies : y \in Registered' <=> row'[y].kind # None
    BY <1>0, <1>2, <1>4, <1>5, KindAssumption DEF TypeOK
  <2>2. evaluated' \subseteq Numbered' \ Withdrawn'
    BY <1>0, <1>1, <1>6, <1>8 DEF TypeOK
  <2>3. \A y, z \in Numbered' : y # z => row'[y].number # row'[z].number
    BY <1>0, <1>8, <1>9 DEF TypeOK
  <2>. QED  BY <1>1, <1>4, <2>1, <2>2, <2>3 DEF TypeOK, Rows
<1>11. NumbersBounded'
  BY <1>0, <1>7, <1>8, <1>9 DEF NumbersBounded
<1>. QED  BY <1>10, <1>11 DEF Inv

\* A correction changes a kind and no number.
LEMMA CorrectKeepsInv ==
    ASSUME Inv, NEW x \in Choreographies, NEW kind \in Kinds, Correct(x, kind)
    PROVE  Inv'
<1> DEFINE Rows == [stage : {"none", "on", "withdrawn", "deleted"},
                    kind : Kinds \cup {None}, number : 0 .. Cardinality(Choreographies)]
<1>0. TypeOK /\ NumbersBounded
  BY DEF Inv
<1>1. /\ row[x].stage = "on" /\ row' = [row EXCEPT ![x].kind = kind]
      /\ fresh' = {} /\ evaluated' = evaluated
  BY DEF Correct
<1>2. row \in [Choreographies -> Rows]
  BY <1>0 DEF TypeOK
<1>3. row' \in [Choreographies -> Rows] /\ row'[x].kind = kind
      /\ \A y \in Choreographies \ {x} : row'[y] = row[y]
  BY <1>1, <1>2
<1>4. \A y \in Choreographies : row'[y].stage = row[y].stage /\ row'[y].number = row[y].number
  BY <1>1, <1>2
<1>5. Registered' = Registered /\ x \in Registered
  BY <1>1, <1>4 DEF Registered
<1>6. Withdrawn' = Withdrawn /\ Deleted' = Deleted
  BY <1>4 DEF Withdrawn, Deleted
<1>7. Numbered' = Numbered /\ Numbered \subseteq Choreographies
  BY <1>4, <1>5 DEF Numbered, Registered
<1>8. TypeOK'
  <2>1. \A y \in Choreographies : y \in Registered' <=> row'[y].kind # None
    BY <1>0, <1>3, <1>5, KindAssumption DEF TypeOK
  <2>2. evaluated' \subseteq Numbered' \ Withdrawn'
    BY <1>0, <1>1, <1>6, <1>7 DEF TypeOK
  <2>3. \A y, z \in Numbered' : y # z => row'[y].number # row'[z].number
    BY <1>0, <1>4, <1>7 DEF TypeOK
  <2>. QED  BY <1>1, <1>3, <2>1, <2>2, <2>3 DEF TypeOK
<1>9. NumbersBounded'
  BY <1>0, <1>4, <1>6, <1>7 DEF NumbersBounded
<1>. QED  BY <1>8, <1>9 DEF Inv

\* A withdrawal keeps the number; a deletion leaves one empty at most.
LEMMA RemoveKeepsInv ==
    ASSUME Inv, NEW x \in Choreographies, Remove(x)
    PROVE  Inv'
<1> DEFINE Rows == [stage : {"none", "on", "withdrawn", "deleted"},
                    kind : Kinds \cup {None}, number : 0 .. Cardinality(Choreographies)]
           gone == [NoRow EXCEPT !.stage = "deleted"]
<1>0. TypeOK /\ NumbersBounded
  BY DEF Inv
<1>1. /\ row[x].stage = "on" /\ x \notin evaluated
      /\ \/ row' = [row EXCEPT ![x].stage = "withdrawn"]
         \/ row' = [row EXCEPT ![x] = gone]
      /\ fresh' = {} /\ evaluated' = evaluated
  BY DEF Remove
<1>2. row \in [Choreographies -> Rows]
  BY <1>0 DEF TypeOK
<1>3. x \in Registered /\ x \notin Withdrawn /\ x \notin Deleted
  BY <1>1 DEF Registered, Withdrawn, Deleted
<1>4. CASE row' = [row EXCEPT ![x].stage = "withdrawn"]
  <2>1. row' \in [Choreographies -> Rows] /\ row'[x].stage = "withdrawn"
        /\ \A y \in Choreographies \ {x} : row'[y] = row[y]
    BY <1>2, <1>4
  <2>2. \A y \in Choreographies : row'[y].kind = row[y].kind /\ row'[y].number = row[y].number
    BY <1>2, <1>4
  <2>3. Registered' = Registered
    BY <1>3, <2>1 DEF Registered
  <2>4. Withdrawn' = Withdrawn \cup {x}
    BY <1>3, <2>1 DEF Withdrawn
  <2>5. Deleted' = Deleted
    BY <1>3, <2>1 DEF Deleted
  <2>6. Numbered' = Numbered /\ Numbered \subseteq Choreographies
    BY <2>2, <2>3 DEF Numbered, Registered
  <2>7. TypeOK'
    <3>1. \A y \in Choreographies : y \in Registered' <=> row'[y].kind # None
      BY <1>0, <2>2, <2>3 DEF TypeOK
    <3>2. evaluated' \subseteq Numbered' \ Withdrawn'
      BY <1>0, <1>1, <2>4, <2>6 DEF TypeOK
    <3>3. \A y, z \in Numbered' : y # z => row'[y].number # row'[z].number
      BY <1>0, <2>2, <2>6 DEF TypeOK
    <3>. QED  BY <1>1, <2>1, <3>1, <3>2, <3>3 DEF TypeOK
  <2>8. NumbersBounded'
    BY <1>0, <2>2, <2>5, <2>6 DEF NumbersBounded
  <2>. QED  BY <2>7, <2>8 DEF Inv
<1>5. CASE row' = [row EXCEPT ![x] = gone]
  <2>0. gone \in Rows /\ gone.stage = "deleted" /\ gone.kind = None /\ gone.number = 0
    BY PositionsAreNumbers DEF NoRow, Unnumbered
  <2> HIDE DEF gone
  <2>1. row' \in [Choreographies -> Rows] /\ row'[x] = gone
        /\ \A y \in Choreographies \ {x} : row'[y] = row[y]
    <3> HIDE DEF Rows
    <3>. QED  BY <1>2, <1>5, <2>0
  <2>3. Registered' = Registered \ {x}
    BY <1>3, <2>0, <2>1 DEF Registered
  <2>4. Withdrawn' = Withdrawn
    BY <1>3, <2>0, <2>1 DEF Withdrawn
  <2>5. Deleted' = Deleted \cup {x}
    BY <1>3, <2>0, <2>1 DEF Deleted
  <2>6. Numbered' = Numbered \ {x} /\ Numbered \subseteq Choreographies
    BY <2>1, <2>3 DEF Numbered, Registered
  <2>7. TypeOK'
    <3>1. \A y \in Choreographies : y \in Registered' <=> row'[y].kind # None
      BY <1>0, <2>0, <2>1, <2>3 DEF TypeOK
    <3>2. evaluated' \subseteq Numbered' \ Withdrawn'
      BY <1>0, <1>1, <2>4, <2>6 DEF TypeOK
    <3>3. \A y, z \in Numbered' : y # z => row'[y].number # row'[z].number
      BY <1>0, <2>1, <2>6 DEF TypeOK
    <3>. QED  BY <1>1, <2>1, <3>1, <3>2, <3>3 DEF TypeOK
  <2>8. NumbersBounded'
    <3>1. IsFiniteSet(Numbered) /\ Cardinality(Numbered) \in Nat
      BY <2>6, RowsAreFinite
    <3>2. Deleted \subseteq Choreographies
      BY DEF Deleted
    <3>3. IsFiniteSet(Deleted) /\ Cardinality(Deleted) \in Nat
      BY <3>2, RowsAreFinite
    <3>4. Cardinality(Deleted \cup {x}) = Cardinality(Deleted) + 1
      BY <1>3, <3>3, FS_AddElement
    <3>5. Cardinality(Numbered \ {x}) = Cardinality(Numbered) - 1
          \/ Cardinality(Numbered \ {x}) = Cardinality(Numbered)
      BY <3>1, FS_RemoveElement
    <3>6. ASSUME NEW y \in Numbered \ {x}
          PROVE  row'[y].number <= Cardinality(Numbered \ {x}) + Cardinality(Deleted \cup {x})
      <4>1. row'[y].number = row[y].number /\ row[y].number \in Nat
            /\ row[y].number <= Cardinality(Numbered) + Cardinality(Deleted)
        BY <1>0, <2>1, <2>6, RowFields DEF NumbersBounded
      <4>. QED  BY <3>1, <3>3, <3>4, <3>5, <4>1
    <3>. QED  BY <2>5, <2>6, <3>6 DEF NumbersBounded
  <2>. QED  BY <2>7, <2>8 DEF Inv
<1>. QED  BY <1>1, <1>4, <1>5

\* An ordering keeps the invariant.
LEMMA OrderKeepsInv ==
    ASSUME Inv, NEW days \in SUBSET Days, Order(days)
    PROVE  Inv'
<1>1. Write(Automatic(days)) /\ evaluated' = evaluated /\ fresh' \in SUBSET Days
  BY DEF Order
<1>2. Renumbers(Automatic(days), ToPlace(days))
  BY AutomaticRenumbers
<1>. QED  BY <1>1, <1>2, WriteKeepsInv

\* Every step keeps the invariant.
LEMMA NextInv == Inv /\ [Next]_vars => Inv'
<1> SUFFICES ASSUME Inv, [Next]_vars PROVE Inv'
  OBVIOUS
<1>0. TypeOK /\ NumbersBounded
  BY DEF Inv
<1>1. ASSUME NEW days \in SUBSET Days, Order(days) PROVE Inv'
  BY <1>1, OrderKeepsInv
<1>2. ASSUME NEW x \in Choreographies, NEW to \in Positions, Move(x, to) PROVE Inv'
  <2>1. Write(Moved(x, to)) /\ evaluated' = evaluated /\ fresh' \in SUBSET Days /\ x \in Movable
    BY <1>2 DEF Move, MoveAllowed
  <2>2. Renumbers(Moved(x, to), Others(x) \cup {x})
    BY <2>1, MovedRenumbers
  <2>. QED  BY <2>1, <2>2, WriteKeepsInv
<1>3. ASSUME NEW x \in Choreographies, Evaluate(x) PROVE Inv'
  <2>1. /\ x \in Numbered \ Withdrawn /\ evaluated' = evaluated \cup {x} /\ fresh' = {} /\ row' = row
    BY <1>3 DEF Evaluate
  <2>2. Registered' = Registered /\ Withdrawn' = Withdrawn /\ Numbered' = Numbered /\ Deleted' = Deleted
    BY <2>1 DEF Registered, Withdrawn, Numbered, Deleted
  <2>3. TypeOK'
    BY <1>0, <2>1, <2>2 DEF TypeOK
  <2>4. NumbersBounded'
    BY <1>0, <2>1, <2>2 DEF NumbersBounded
  <2>. QED  BY <2>3, <2>4 DEF Inv
<1>4. ASSUME NEW x \in Choreographies, Reinstate(x) PROVE Inv'
  <2>1. /\ evaluated' = evaluated \ {x} /\ fresh' = {} /\ row' = row
    BY <1>4 DEF Reinstate
  <2>2. Registered' = Registered /\ Withdrawn' = Withdrawn /\ Numbered' = Numbered /\ Deleted' = Deleted
    BY <2>1 DEF Registered, Withdrawn, Numbered, Deleted
  <2>3. TypeOK'
    BY <1>0, <2>1, <2>2 DEF TypeOK
  <2>4. NumbersBounded'
    BY <1>0, <2>1, <2>2 DEF NumbersBounded
  <2>. QED  BY <2>3, <2>4 DEF Inv
<1>5. CASE UNCHANGED vars
  <2>1. row' = row /\ evaluated' = evaluated /\ fresh' = fresh
    BY <1>5 DEF vars
  <2>2. Registered' = Registered /\ Withdrawn' = Withdrawn /\ Numbered' = Numbered /\ Deleted' = Deleted
    BY <2>1 DEF Registered, Withdrawn, Numbered, Deleted
  <2>3. TypeOK'
    BY <1>0, <2>1, <2>2 DEF TypeOK, Days
  <2>4. NumbersBounded'
    BY <1>0, <2>1, <2>2 DEF NumbersBounded
  <2>. QED  BY <2>3, <2>4 DEF Inv
<1>6. ASSUME Next PROVE Inv'
  BY <1>1, <1>2, <1>3, <1>4, <1>6, RegisterKeepsInv, CorrectKeepsInv, RemoveKeepsInv DEF Next
<1>. QED  BY <1>5, <1>6

\* TypeOK, uniqueness of the numbers included, holds in every reachable state.
THEOREM TypeCorrect == Spec => []TypeOK
<1>1. Inv => TypeOK
  BY DEF Inv
<1>. QED  BY InitInv, NextInv, <1>1, PTL DEF Spec

\* The numbers stay within the event's rows and deletions.
THEOREM NumbersStayBounded == Spec => []NumbersBounded
<1>1. Inv => NumbersBounded
  BY DEF Inv
<1>. QED  BY InitInv, NextInv, <1>1, PTL DEF Spec

-----------------------------------------------------------------------------
\* ANNOUNCED NUMBERS

\* What was announced is never renumbered, for any rows, days and gap: who is
\* withdrawn or of a started schedule is held, and both algorithms write only
\* rows that are not (computeAutomaticOrder, computeManualMove).
THEOREM AnnouncedStay == Spec => AnnouncedNumbersStay
<1> DEFINE Keeps == \A x \in Numbered :
                       /\ x \in Withdrawn \/ \E y \in evaluated : Schedule(y) = Schedule(x)
                       /\ x \in Registered'
                       => row'[x].number = row[x].number
<1>1. Inv /\ [Next]_vars => [Keeps]_vars
  <2> SUFFICES ASSUME Inv, Next,
                      NEW x \in Numbered,
                      x \in Withdrawn \/ \E y \in evaluated : Schedule(y) = Schedule(x),
                      x \in Registered'
               PROVE  row'[x].number = row[x].number
    OBVIOUS
  <2>0. TypeOK
    BY DEF Inv
  <2>1. x \in Held
    BY DEF Held, Frozen
  <2>2. x \in Choreographies /\ x \in Registered /\ row[x].stage # "none"
    BY DEF Numbered, Registered
  <2>3. \A num, T : Renumbers(num, T) /\ Write(num) /\ evaluated' = evaluated
                      => row'[x].number = row[x].number
    <3> SUFFICES ASSUME NEW num, NEW T, Renumbers(num, T), Write(num), evaluated' = evaluated
                 PROVE  row'[x].number = row[x].number
      OBVIOUS
    <3>1. row'[x].number = num[x]
      BY <2>0, <2>2, AfterWrite
    <3>2. x \notin T
      BY <2>0, <2>1, Parts DEF Renumbers
    <3>. QED  BY <2>2, <3>1, <3>2 DEF Renumbers
  <2>4. ASSUME NEW days \in SUBSET Days, Order(days) PROVE row'[x].number = row[x].number
    <3>1. Write(Automatic(days)) /\ evaluated' = evaluated
      BY <2>4 DEF Order
    <3>2. Renumbers(Automatic(days), ToPlace(days))
      BY AutomaticRenumbers
    <3>. QED  BY <2>3, <3>1, <3>2
  <2>5. ASSUME NEW y \in Choreographies, NEW to \in Positions, Move(y, to)
        PROVE  row'[x].number = row[x].number
    <3>1. Write(Moved(y, to)) /\ evaluated' = evaluated /\ y \in Movable
      BY <2>5 DEF Move, MoveAllowed
    <3>2. Renumbers(Moved(y, to), Others(y) \cup {y})
      BY <3>1, MovedRenumbers
    <3>. QED  BY <2>3, <3>1, <3>2
  <2>6. row \in [Choreographies -> [stage : {"none", "on", "withdrawn", "deleted"},
                                    kind : Kinds \cup {None},
                                    number : 0 .. Cardinality(Choreographies)]]
    BY <2>0 DEF TypeOK
  <2>7. ASSUME NEW y \in Choreographies, NEW kind \in Kinds, Register(y, kind)
        PROVE  row'[x].number = row[x].number
    <3>1. x # y
      BY <2>2, <2>7 DEF Register
    <3>. QED  BY <2>2, <2>6, <2>7, <3>1 DEF Register
  <2>8. ASSUME NEW y \in Choreographies, NEW kind \in Kinds, Correct(y, kind)
        PROVE  row'[x].number = row[x].number
    BY <2>2, <2>6, <2>8 DEF Correct
  <2>9. ASSUME NEW y \in Choreographies, Remove(y) PROVE row'[x].number = row[x].number
    <3>1. CASE row' = [row EXCEPT ![y].stage = "withdrawn"]
      BY <2>2, <2>6, <3>1
    <3>2. CASE row' = [row EXCEPT ![y] = [NoRow EXCEPT !.stage = "deleted"]]
      <4>1. CASE x = y
        <5>1. row'[x].stage = "deleted"
          BY <2>2, <2>6, <3>2, <4>1 DEF NoRow
        <5>. QED  BY <5>1 DEF Registered
      <4>2. CASE x # y
        BY <2>2, <2>6, <3>2, <4>2
      <4>. QED  BY <4>1, <4>2
    <3>. QED  BY <2>9, <3>1, <3>2 DEF Remove
  <2>10. ASSUME NEW y \in Choreographies, Evaluate(y) \/ Reinstate(y)
         PROVE  row'[x].number = row[x].number
    BY <2>10 DEF Evaluate, Reinstate
  <2>. QED  BY <2>4, <2>5, <2>7, <2>8, <2>9, <2>10 DEF Next
<1>2. Spec => []Inv
  BY InitInv, NextInv, PTL DEF Spec
<1>3. AnnouncedNumbersStay <=> [][Keeps]_vars
  BY DEF AnnouncedNumbersStay
<1>. QED  BY <1>1, <1>2, <1>3, PTL DEF Spec

-----------------------------------------------------------------------------
\* WHERE A MOVE LANDS

\* A free position's place among the free ones tells who comes before it.
LEMMA FreeBefore ==
    ASSUME Inv, NEW S \in SUBSET Registered, S \cap Held = {}, NEW i \in 1 .. Cardinality(S),
           NEW to \in Positions, to \notin Blocked
    PROVE  /\ FreePosition(Blocked, i) < to <=> i < FreeUpTo(Blocked, to)
           /\ FreeUpTo(Blocked, to) \in Nat /\ FreeUpTo(Blocked, to) >= 1
<1> DEFINE p == FreePosition(Blocked, i)
<1>1. p \in Positions /\ p \notin Blocked
  BY FreeForAll
<1>2. FreeUpTo(Blocked, p) = i
  BY FreeForAll
<1>3. p \in Nat /\ to \in Nat /\ to # 0
  BY <1>1, PositionsAreNumbers
<1> HIDE DEF p
<1>4. FreeUpTo(Blocked, to) \in Nat /\ i \in Nat
  BY <1>3, FreeUpToCounts
<1>5. ASSUME p < to PROVE i < FreeUpTo(Blocked, to)
  BY <1>2, <1>3, <1>5, FreeUpToGrows
<1>6. ASSUME ~(p < to) PROVE ~(i < FreeUpTo(Blocked, to))
  <2>1. p = to \/ to < p
    BY <1>3, <1>6
  <2>2. CASE p = to
    BY <1>2, <1>4, <2>2
  <2>3. CASE to < p
    <3>1. FreeUpTo(Blocked, to) <= FreeUpTo(Blocked, p)
      BY <1>3, <2>3, FreeUpToGrows
    <3>. QED  BY <1>2, <1>4, <3>1
  <2>. QED  BY <2>1, <2>2, <2>3
<1>7. FreeUpTo(Blocked, 0) = 0 /\ FreeUpTo(Blocked, 0) < FreeUpTo(Blocked, to)
  BY <1>3, FreeUpToGrows, FreeUpToCounts
<1>. QED  BY <1>4, <1>5, <1>6, <1>7 DEF p

\* The target counts the free positions before `to`, up to the number of others.
LEMMA TargetCounts ==
    ASSUME Inv, NEW x \in Movable, NEW to \in Positions, to \notin Blocked
    PROVE  Target(x, to) = IF FreeUpTo(Blocked, to) - 1 <= Cardinality(Others(x))
                           THEN FreeUpTo(Blocked, to) - 1 ELSE Cardinality(Others(x))
<1> DEFINE n == Cardinality(Others(x))
           k == FreeUpTo(Blocked, to)
           S == Others(x) \cup {x}
           I == {i \in 1 .. n + 1 : FreePosition(Blocked, i) < to}
<1>0. TypeOK
  BY DEF Inv
<1>1. S \in SUBSET Registered /\ S \cap Held = {} /\ Cardinality(S) = n + 1 /\ n \in Nat
  BY <1>0, WhoMoves
<1>2. \A i \in 1 .. Cardinality(S) : FreePosition(Blocked, i) < to <=> i < k
  <2> HIDE DEF S
  <2>. QED  BY <1>1, FreeBefore
<1>3. k \in Nat /\ k >= 1
  <2>1. 1 \in 1 .. Cardinality(S)
    BY <1>1
  <2> HIDE DEF S
  <2>. QED  BY <1>1, <2>1, FreeBefore
<1>4. Target(x, to) = Min({n, Cardinality(I)})
  BY Zenon DEF Target
<1>5. I = {i \in 1 .. n + 1 : i < k}
  BY <1>1, <1>2
<1> HIDE DEF I, S, k, n
<1>6. CASE k - 1 <= n
  <2>1. I = 1 .. k - 1
    BY <1>1, <1>3, <1>5, <1>6
  <2>2. Cardinality(I) = k - 1
    <3>1. 1 \in Int /\ k - 1 \in Int /\ ~(1 > k - 1) => (k - 1) - 1 + 1 = k - 1
      BY <1>3
    <3>2. Cardinality(1 .. k - 1) = IF 1 > k - 1 THEN 0 ELSE (k - 1) - 1 + 1
      BY <1>3, FS_Interval
    <3>. QED  BY <1>3, <2>1, <3>2
  <2>3. {n, k - 1} \in SUBSET Nat /\ k - 1 \in {n, k - 1} /\ \A m \in {n, k - 1} : k - 1 <= m
    BY <1>1, <1>3, <1>6
  <2>4. Min({n, k - 1}) = k - 1
    BY <2>3, MinIs
  <2>. QED  BY <1>4, <1>6, <2>2, <2>4 DEF n, k
<1>7. CASE ~(k - 1 <= n)
  <2>1. I = 1 .. n + 1
    BY <1>1, <1>3, <1>5, <1>7
  <2>2. Cardinality(I) = n + 1
    <3>1. Cardinality(1 .. n + 1) = IF 1 > n + 1 THEN 0 ELSE (n + 1) - 1 + 1
      BY <1>1, FS_Interval
    <3>. QED  BY <1>1, <2>1, <3>1
  <2>3. {n, n + 1} \in SUBSET Nat /\ n \in {n, n + 1} /\ \A m \in {n, n + 1} : n <= m
    BY <1>1
  <2>4. Min({n, n + 1}) = n
    BY <2>3, MinIs
  <2>. QED  BY <1>4, <1>7, <2>2, <2>4 DEF n, k
<1>. QED  BY <1>6, <1>7

\* A presentation moved by hand lands where it was dropped, or last, in every
\* reachable state, and nobody passes anybody.
LEMMA MovesLand == Inv => MovesLandWhereDropped
<1> SUFFICES ASSUME Inv, NEW x \in Movable, NEW to \in Positions, MoveAllowed(x, to)
             PROVE  LET after == Moved(x, to)
                        others == (Movable \cap Numbered) \ {x}
                    IN  /\ after[x] = to \/ (after[x] < to /\ \A y \in others : after[y] < after[x])
                        /\ \A y, z \in others : row[y].number < row[z].number <=> after[y] < after[z]
                        /\ \A y \in Numbered \ {x} : after[y] # after[x]
  BY DEF MovesLandWhereDropped
<1> DEFINE after == Moved(x, to)
           n == Cardinality(Others(x))
           k == FreeUpTo(Blocked, to)
           S == Others(x) \cup {x}
           place(y) == Place(x, to, y)
<1>0. TypeOK
  BY DEF Inv
<1>1. S \subseteq Registered /\ S \cap Held = {} /\ S \subseteq Choreographies
      /\ Cardinality(S) = n + 1 /\ n \in Nat
  BY <1>0, WhoMoves
<1>2. to \notin Blocked
  BY DEF MoveAllowed
<1>3. \A y \in S : after[y] = FreePosition(Blocked, place(y)) /\ place(y) \in 1 .. Cardinality(S)
  BY <1>1, MovedIs, PlacesAre
<1>4. \A y \in Choreographies \ S : after[y] = row[y].number
  BY MovedIs
<1>5. \A i, j \in 1 .. Cardinality(S) : i < j => FreePosition(Blocked, i) < FreePosition(Blocked, j)
  <2> HIDE DEF S
  <2>. QED  BY <1>1, FreeForAll
<1>6. \A y, z \in Others(x) : row[y].number < row[z].number => place(y) < place(z)
  BY PlacesAre
<1>7. \A y \in S : after[y] \in Nat /\ after[y] \notin NumbersOf(Held)
  <2> SUFFICES ASSUME NEW y \in S PROVE after[y] \in Nat /\ after[y] \notin NumbersOf(Held)
    OBVIOUS
  <2> DEFINE i == place(y)
  <2>1. after[y] = FreePosition(Blocked, i) /\ i \in 1 .. Cardinality(S)
    BY <1>3
  <2> HIDE DEF S, i, after
  <2>2. FreePosition(Blocked, i) \in Positions
    BY <1>1, <2>1, FreeForAll
  <2>3. FreePosition(Blocked, i) \notin NumbersOf(Held)
    BY <1>1, <2>1, FreeForAll
  <2>. QED  BY <2>1, <2>2, <2>3, PositionsAreNumbers
<1>8. x \in S /\ Others(x) \subseteq S /\ x \notin Others(x)
  BY DEF Others
<1>9. place(x) = Target(x, to) + 1
  BY DEF Place
<1>10. Target(x, to) = IF k - 1 <= n THEN k - 1 ELSE n
  BY <1>2, TargetCounts
<1>11. k \in Nat /\ k >= 1
  <2>1. 1 \in 1 .. Cardinality(S)
    BY <1>1
  <2> HIDE DEF S
  <2>. QED  BY <1>1, <1>2, <2>1, FreeBefore
<1>12. FreePosition(Blocked, k) = to
  BY <1>2, FreePositionIs
<1>13. \A i \in 1 .. Cardinality(S) : FreePosition(Blocked, i) < to <=> i < k
  <2> HIDE DEF S
  <2>. QED  BY <1>1, <1>2, FreeBefore
<1>14. \A y \in Others(x) : place(y) # place(x)
  BY PlacesAre
<1> HIDE DEF after, n, k, S, place
<1>15. after[x] = to \/ (after[x] < to /\ \A y \in Others(x) : after[y] < after[x])
  <2>1. CASE k - 1 <= n
    <3>1. place(x) = k
      BY <1>9, <1>10, <1>11, <2>1
    <3>. QED  BY <1>3, <1>8, <1>12, <3>1
  <2>2. CASE ~(k - 1 <= n)
    <3>1. place(x) = n + 1 /\ n + 1 < k /\ n + 1 \in 1 .. Cardinality(S)
      BY <1>1, <1>9, <1>10, <1>11, <2>2
    <3>2. after[x] < to
      BY <1>3, <1>8, <1>13, <3>1
    <3>3. ASSUME NEW y \in Others(x) PROVE after[y] < after[x]
      <4>1. place(y) \in 1 .. Cardinality(S) /\ place(y) < place(x)
        BY <1>1, <1>3, <1>8, <1>14, <3>1
      <4>. QED  BY <1>3, <1>5, <1>8, <4>1
    <3>. QED  BY <3>2, <3>3
  <2>. QED  BY <2>1, <2>2
<1>16. ASSUME NEW y \in Others(x), NEW z \in Others(x), row[y].number < row[z].number
       PROVE  after[y] < after[z]
  <2>1. place(y) < place(z)
    BY <1>6, <1>16
  <2>. QED  BY <1>3, <1>5, <1>8, <2>1
<1>17. ASSUME NEW y \in Others(x), NEW z \in Others(x), after[y] < after[z]
       PROVE  row[y].number < row[z].number
  <2>1. y \in Numbered /\ z \in Numbered /\ row[y].number \in Nat /\ row[z].number \in Nat
    BY <1>0, Parts, RowFields DEF Others
  <2>2. after[y] \in Nat /\ after[z] \in Nat
    BY <1>7, <1>8
  <2>3. ~(row[z].number < row[y].number)
    BY <1>16, <1>17, <2>2
  <2>4. y # z
    BY <1>17, <2>2
  <2>5. row[y].number # row[z].number
    BY <1>0, <2>1, <2>4, NumbersAreApart
  <2>. QED  BY <2>1, <2>3, <2>5
<1>18. ASSUME NEW y \in Numbered \ {x} PROVE after[y] # after[x]
  <2>1. CASE y \in Others(x)
    <3>1. place(y) < place(x) \/ place(x) < place(y)
      BY <1>1, <1>3, <1>8, <1>14, <2>1
    <3>2. after[y] < after[x] \/ after[x] < after[y]
      BY <1>3, <1>5, <1>8, <2>1, <3>1
    <3>. QED  BY <1>7, <1>8, <2>1, <3>2
  <2>2. CASE y \notin Others(x)
    <3>1. y \in Held /\ y \in Choreographies
      BY <1>0, <2>2, Parts DEF Others
    <3>2. y \notin S
      BY <1>1, <3>1
    <3>3. after[y] \in NumbersOf(Held)
      BY <1>4, <3>1, <3>2 DEF NumbersOf
    <3>. QED  BY <1>7, <1>8, <3>3
  <2>. QED  BY <2>1, <2>2
<1>. QED  BY <1>15, <1>16, <1>17, <1>18 DEF after, Others

\* MovesLandWhereDropped holds in every reachable state (computeManualMove).
THEOREM MovesLandCorrect == Spec => []MovesLandWhereDropped
BY InitInv, NextInv, MovesLand, PTL DEF Spec

-----------------------------------------------------------------------------
\* WHAT AN ORDERING LEAVES

\* Who holds each number now, and the rows that may move from y on.
Lineup == [q \in NumbersOf(Numbered) |-> CHOOSE x \in Numbered : row[x].number = q]
Later(y) == {z \in Movable \cap Numbered : row[z].number >= row[y].number}

\* The rows stand as an ordering of these days leaves them: whoever was chosen has a
\* number, no free position is skipped, and each row that may move is the one an
\* ordering would put there with the present lineup before it.
OrderedBy(days) ==
    /\ Chosen(days) \subseteq Numbered
    /\ \A y \in Movable \cap Numbered :
          /\ \A p \in 1 .. row[y].number - 1 : p \notin Blocked => p \in NumbersOf(Numbered)
          /\ y = NextRow(Later(y), row[y].number, Lineup, days)

\* The present lineup, by the rows.
LEMMA LineupIs ==
    ASSUME TypeOK
    PROVE  /\ DOMAIN Lineup = NumbersOf(Numbered)
           /\ \A q \in NumbersOf(Numbered) : Lineup[q] \in Numbered /\ row[Lineup[q]].number = q
           /\ \A x \in Numbered : row[x].number \in NumbersOf(Numbered) /\ Lineup[row[x].number] = x
<1>1. DOMAIN Lineup = NumbersOf(Numbered)
  BY DEF Lineup
<1>2. ASSUME NEW q \in NumbersOf(Numbered) PROVE Lineup[q] \in Numbered /\ row[Lineup[q]].number = q
  <2>1. \E x \in Numbered : row[x].number = q
    BY DEF NumbersOf
  <2>2. Lineup[q] = CHOOSE x \in Numbered : row[x].number = q
    BY DEF Lineup
  <2>. QED  BY <2>1, <2>2
<1>3. ASSUME NEW x \in Numbered PROVE row[x].number \in NumbersOf(Numbered) /\ Lineup[row[x].number] = x
  <2>1. row[x].number \in NumbersOf(Numbered)
    BY DEF NumbersOf
  <2>2. Lineup[row[x].number] \in Numbered /\ row[Lineup[row[x].number]].number = row[x].number
    BY <1>2, <2>1
  <2>. QED  BY <2>1, <2>2, NumbersAreApart
<1>. QED  BY <1>1, <1>2, <1>3

\* Sharing goes both ways.
LEMMA SharesBothWays ==
    ASSUME NEW x, NEW y
    PROVE  Shares(x, y) <=> Shares(y, x)
BY DEF Shares

\* Rows of one block on a day that is ordered go before and after the same rows.
LEMMA SameBlock ==
    ASSUME NEW x, NEW y, NEW w, NEW days, Day(y) \in days, Schedule(x) = Schedule(y),
           row[x].kind.block = row[y].kind.block, Precedes(w, x, days)
    PROVE  Precedes(w, y, days)
BY DEF Precedes, Day

\* A clash an ordering leaves is forced.
LEMMA OrderedClashes ==
    ASSUME TypeOK, fresh # {} => OrderedBy(fresh)
    PROVE  ClashesAreForced
<1> SUFFICES ASSUME NEW y \in Movable \cap Numbered, NEW x \in Danced,
                    Day(y) \in fresh, Clash(x, y),
                    ~\E p \in row[x].number .. row[y].number : ~\E z \in Numbered : row[z].number = p,
                    NEW z \in Movable,
                    Schedule(z) = Schedule(y), row[z].kind.block = row[y].kind.block,
                    row[z].number > row[y].number
             PROVE  \E w \in Danced : /\ row[w].number < row[y].number
                                      /\ Cardinality(Between(w, y)) < Gap /\ Shares(w, z)
  BY DEF ClashesAreForced
<1> DEFINE p == row[y].number
           P == Later(y)
           danced == {q \in 1 .. p - 1 : q \in DOMAIN Lineup => Lineup[q] \notin Withdrawn}
           after(q) == {r \in danced : r > q}
<1>1. OrderedBy(fresh)
  OBVIOUS
<1>2. y \in Numbered /\ y \in Registered /\ Numbered \subseteq Choreographies
      /\ Registered \subseteq Choreographies /\ z \in Registered /\ x \in Numbered /\ x \notin Withdrawn
      /\ Danced \subseteq Numbered
  BY Parts DEF Danced
<1>3. p \in Nat /\ p >= 1 /\ row[z].number \in Nat /\ row[z].number > p /\ row[x].number \in Nat
      /\ row[x].number >= 1
  BY <1>2, RowFields, NumbersAreApart, PositionsAreNumbers
<1>4. z \in Numbered
  BY <1>2, <1>3 DEF Numbered, Unnumbered
<1>5. y \in P /\ z \in P /\ P \subseteq Registered /\ P # {}
  BY <1>2, <1>3, <1>4, Parts DEF Later
<1>6. y = NextRow(P, p, Lineup, fresh)
  BY <1>1 DEF OrderedBy
<1>7. Recent(p, Lineup) = {q \in danced : Cardinality(after(q)) < Gap}
  BY DEF Recent
<1>8. /\ DOMAIN Lineup = NumbersOf(Numbered)
      /\ \A q \in NumbersOf(Numbered) : Lineup[q] \in Numbered /\ row[Lineup[q]].number = q
      /\ \A v \in Numbered : row[v].number \in NumbersOf(Numbered) /\ Lineup[row[v].number] = v
  BY LineupIs
<1>9. \A q : after(q) \subseteq 1 .. p - 1 /\ IsFiniteSet(after(q)) /\ Cardinality(after(q)) \in Nat
  <2> SUFFICES ASSUME NEW q
               PROVE  after(q) \subseteq 1 .. p - 1 /\ IsFiniteSet(after(q)) /\ Cardinality(after(q)) \in Nat
    OBVIOUS
  <2>1. after(q) \subseteq 1 .. p - 1
    OBVIOUS
  <2>2. IsFiniteSet(1 .. p - 1)
    <3>1. 1 \in Int /\ p - 1 \in Int
      BY <1>3
    <3> HIDE DEF p
    <3>. QED  BY <3>1, FS_Interval
  <2> HIDE DEF after, danced
  <2>3. IsFiniteSet(after(q))
    BY <2>1, <2>2, FS_Subset
  <2>. QED  BY <2>1, <2>3, FS_CardinalityType
<1>10. ASSUME NEW v \in Danced
       PROVE  /\ Between(v, y) \in SUBSET Numbered
              /\ IsFiniteSet(NumbersOf(Between(v, y)))
              /\ Cardinality(NumbersOf(Between(v, y))) = Cardinality(Between(v, y))
              /\ Cardinality(Between(v, y)) \in Nat
  <2>1. Between(v, y) \in SUBSET Numbered
    BY DEF Between, Danced
  <2>2. IsFiniteSet(NumbersOf(Between(v, y)))
    BY <2>1, AsManyNumbers
  <2>3. Cardinality(NumbersOf(Between(v, y))) = Cardinality(Between(v, y))
    BY <2>1, AsManyNumbers
  <2>. QED  BY <2>1, <2>2, <2>3, FS_CardinalityType
<1>11. Conflicts(y, p, Lineup)
  <2> DEFINE q == row[x].number
  <2>1. q < p /\ Cardinality(Between(x, y)) < Gap /\ Shares(x, y)
    BY DEF Clash
  <2>2. q \in 1 .. p - 1 /\ q \in DOMAIN Lineup /\ Lineup[q] = x
    BY <1>2, <1>3, <1>8, <2>1
  <2>3. q \in danced
    BY <1>2, <2>2
  <2>4. after(q) \subseteq NumbersOf(Between(x, y))
    <3> SUFFICES ASSUME NEW r \in after(q) PROVE r \in NumbersOf(Between(x, y))
      OBVIOUS
    <3>1. r \in 1 .. p - 1 /\ r > q /\ (r \in DOMAIN Lineup => Lineup[r] \notin Withdrawn)
      OBVIOUS
    <3>2. r \in q .. p
      BY <1>3, <3>1
    <3>3. PICK v \in Numbered : row[v].number = r
      BY <3>2
    <3>4. v \notin Withdrawn
      BY <1>8, <3>1, <3>3
    <3>5. v \in Between(x, y)
      BY <1>3, <3>1, <3>3, <3>4 DEF Between, Danced
    <3>. QED  BY <3>3, <3>5 DEF NumbersOf
  <2> HIDE DEF after, danced
  <2>5. Cardinality(after(q)) <= Cardinality(NumbersOf(Between(x, y)))
    BY <1>10, <2>4, FS_Subset
  <2>6. Cardinality(after(q)) < Gap
    BY <1>9, <1>10, <2>1, <2>5, NumberAssumption
  <2>7. q \in Recent(p, Lineup) \cap DOMAIN Lineup
    BY <1>7, <2>2, <2>3, <2>6
  <2>8. Shares(y, Lineup[q])
    BY <2>1, <2>2, SharesBothWays
  <2>. QED  BY <2>7, <2>8 DEF Conflicts
<1>12. y \in FirstBlock(P, fresh) /\ (Apart(P, p, Lineup, fresh) # {} => y \in Apart(P, p, Lineup, fresh))
  <2> HIDE DEF P, p
  <2>. QED  BY <1>5, <1>6, NextRowIs
<1>13. Apart(P, p, Lineup, fresh) = {}
  BY <1>11, <1>12 DEF Apart
<1>14. z \in FirstBlock(P, fresh)
  <2>1. \A w \in P : ~Precedes(w, y, fresh)
    BY <1>12 DEF FirstBlock
  <2>2. \A w \in P : ~Precedes(w, z, fresh)
    BY <2>1, SameBlock
  <2>. QED  BY <1>5, <2>2 DEF FirstBlock
<1>15. Conflicts(z, p, Lineup)
  BY <1>13, <1>14 DEF Apart
<1>16. PICK q \in Recent(p, Lineup) \cap DOMAIN Lineup : Shares(z, Lineup[q])
  BY <1>15 DEF Conflicts
<1> DEFINE w == Lineup[q]
<1>17. q \in danced /\ Cardinality(after(q)) < Gap /\ q \in NumbersOf(Numbered)
  BY <1>7, <1>8
<1>18. w \in Numbered /\ row[w].number = q /\ q \in 1 .. p - 1 /\ w \notin Withdrawn
  BY <1>8, <1>17
<1>19. w \in Danced /\ row[w].number < p
  BY <1>3, <1>18 DEF Danced
<1>20. NumbersOf(Between(w, y)) \subseteq after(q)
  <2> SUFFICES ASSUME NEW v \in Between(w, y) PROVE row[v].number \in after(q)
    BY DEF NumbersOf
  <2>1. v \in Numbered /\ v \notin Withdrawn /\ q < row[v].number /\ row[v].number < p
    BY <1>18 DEF Between, Danced
  <2>2. row[v].number \in Nat /\ row[v].number >= 1
    BY <1>2, <2>1, RowFields, NumbersAreApart, PositionsAreNumbers
  <2>3. row[v].number \in 1 .. p - 1
    BY <1>3, <2>1, <2>2
  <2>4. Lineup[row[v].number] = v
    BY <1>8, <2>1
  <2>. QED  BY <2>1, <2>3, <2>4
<1> HIDE DEF after, danced, w
<1>21. Cardinality(Between(w, y)) < Gap
  <2>1. Cardinality(NumbersOf(Between(w, y))) <= Cardinality(after(q))
    BY <1>9, <1>20, FS_Subset
  <2>. QED  BY <1>9, <1>10, <1>17, <1>19, <2>1, NumberAssumption
<1>22. Shares(w, z)
  BY <1>16, SharesBothWays DEF w
<1>. QED  BY <1>19, <1>21, <1>22

\* Who is next depends only on who stands before the position.
LEMMA NextRowLooksBack ==
    ASSUME NEW P, NEW days, NEW p \in Nat, NEW at, NEW other,
           \A q \in 1 .. p - 1 : q \in DOMAIN at <=> q \in DOMAIN other,
           \A q \in 1 .. p - 1 : q \in DOMAIN at => at[q] = other[q]
    PROVE  NextRow(P, p, at, days) = NextRow(P, p, other, days)
<1>1. \A x : Conflicts(x, p, at) <=> Conflicts(x, p, other)
  <2> SUFFICES ASSUME NEW x PROVE Conflicts(x, p, at) <=> Conflicts(x, p, other)
    OBVIOUS
  <2>. QED  BY ConflictsLookBack
<1>2. Apart(P, p, at, days) = Apart(P, p, other, days)
  BY <1>1 DEF Apart
<1>3. NextRow(P, p, at, days) = Min(IF Apart(P, p, at, days) # {} THEN Apart(P, p, at, days)
                                   ELSE FirstBlock(P, days))
  BY DEF NextRow, Apart, FirstBlock
<1>4. NextRow(P, p, other, days) = Min(IF Apart(P, p, other, days) # {} THEN Apart(P, p, other, days)
                                      ELSE FirstBlock(P, days))
  BY DEF NextRow, Apart, FirstBlock
<1> DEFINE A == Apart(P, p, at, days)
           B == Apart(P, p, other, days)
           F == FirstBlock(P, days)
<1>5. A = B /\ NextRow(P, p, at, days) = Min(IF A # {} THEN A ELSE F)
      /\ NextRow(P, p, other, days) = Min(IF B # {} THEN B ELSE F)
  BY <1>2, <1>3, <1>4
<1> HIDE DEF A, B, F
<1>. QED  BY <1>5

\* A position that is not blocked, below a free one, is a free one before it.
LEMMA FreeBelow ==
    ASSUME Inv, NEW S \in SUBSET Registered, S \cap Held = {}, NEW i \in 1 .. Cardinality(S),
           NEW q \in Nat, q # 0, q < FreePosition(Blocked, i), q \notin Blocked
    PROVE  \E k \in 1 .. i - 1 : q = FreePosition(Blocked, k)
<1> DEFINE p == FreePosition(Blocked, i)
           k == FreeUpTo(Blocked, q)
<1>1. Cardinality(S) \in Nat
  BY RoomForAll
<1>2. p \in Positions /\ p \notin Blocked
  BY FreeForAll
<1>3. FreeUpTo(Blocked, p) = i
  BY FreeForAll
<1> HIDE DEF p, k
<1>4. p \in Nat /\ i \in Nat /\ Cardinality(Choreographies) \in Nat
  <2>1. p \in Nat
    BY <1>2, PositionsAreNumbers
  <2>2. i \in Nat
    BY <1>1
  <2>. QED  BY <2>1, <2>2, PositionsAreNumbers
<1>5. q < p
  BY DEF p
<1>6. k \in Nat /\ k < i
  <2>1. FreeUpTo(Blocked, q) \in Nat
    BY FreeUpToCounts
  <2>2. FreeUpTo(Blocked, q) < FreeUpTo(Blocked, p)
    BY <1>2, <1>4, <1>5, FreeUpToGrows
  <2>. QED  BY <1>3, <2>1, <2>2 DEF k
<1>7. FreeUpTo(Blocked, 0) = 0
  BY FreeUpToCounts
<1>8. 0 < k
  BY <1>7, FreeUpToGrows DEF k
<1>9. q \in Positions
  BY <1>2, <1>4, <1>5 DEF Positions
<1>10. FreePosition(Blocked, k) = q
  BY <1>9, FreePositionIs DEF k
<1>11. k \in 1 .. i - 1
  BY <1>4, <1>6, <1>8
<1>. QED  BY <1>10, <1>11

\* An ordering of rows that stand ordered puts each where it stands.
LEMMA OrderedStands ==
    ASSUME Inv, NEW days, OrderedBy(days), NEW c, Turns(c, days),
           NEW n \in 1 .. Cardinality(ToPlace(days)),
           \A k \in 1 .. n - 1 : row[c[k]].number = FreePosition(Blocked, k)
    PROVE  row[c[n]].number = FreePosition(Blocked, n)
<1> DEFINE N == Cardinality(ToPlace(days))
           p == FreePosition(Blocked, n)
           P == ToPlace(days) \ Taken(c, n - 1)
<1>0. TypeOK
  BY DEF Inv
<1>1. ToPlace(days) \subseteq Registered /\ ToPlace(days) \cap Held = {} /\ N \in Nat
      /\ IsFiniteSet(ToPlace(days))
  BY <1>0, WhoIsPlaced
<1>2. ToPlace(days) = Movable \cap Numbered
  BY <1>0, WhoIsPlaced DEF OrderedBy, ToPlace, Kept, Chosen
<1>3. n \in Nat /\ n - 1 \in Nat /\ n - 1 < N
  BY <1>1
<1>4. p \in Positions /\ p \notin Blocked
  BY <1>1, FreeForAll
<1>5. p \notin NumbersOf(Held)
  BY <1>1, FreeForAll
<1>6. p \in Nat /\ p # 0
  BY <1>4, PositionsAreNumbers
<1>7. ASSUME NEW k \in 1 .. n - 1
      PROVE  FreePosition(Blocked, k) < p /\ c[k] \in Numbered
  <2>1. k \in 1 .. N /\ k < n
    BY <1>1, <1>3
  <2>2. FreePosition(Blocked, k) < p
    BY <1>1, <2>1, FreeForAll
  <2>. QED  BY <1>2, <2>1, <2>2 DEF Turns
<1> HIDE DEF p, P
<1>8. \A z \in Movable \cap Numbered : row[z].number \in Nat /\ row[z].number # 0
  BY <1>0, NumbersAreApart, PositionsAreNumbers
<1>9. ASSUME NEW z \in P PROVE row[z].number >= p
  <2>1. z \in Movable \cap Numbered /\ z \notin Taken(c, n - 1)
    BY <1>2 DEF P
  <2>2. row[z].number \notin Blocked /\ row[z].number \in Nat /\ row[z].number # 0
    BY <1>0, <1>8, <2>1, MovableOffBlocked
  <2>3. ASSUME row[z].number < p PROVE FALSE
    <3>1. PICK k \in 1 .. n - 1 : row[z].number = FreePosition(Blocked, k)
      BY <1>1, <2>2, <2>3, FreeBelow DEF p
    <3>2. c[k] = z
      BY <1>0, <1>7, <2>1, <3>1, NumbersAreApart
    <3>. QED  BY <2>1, <3>2 DEF Taken
  <2>. QED  BY <1>6, <2>2, <2>3
<1>10. P # {}
  BY <1>1, <1>3, SomeonePending DEF P
<1>11. PICK y \in Numbered : row[y].number = p
  <2>1. PICK z \in P : TRUE
    BY <1>10
  <2>2. z \in Movable \cap Numbered /\ row[z].number \in Nat /\ row[z].number >= p
    BY <1>2, <1>8, <1>9 DEF P
  <2>3. CASE row[z].number = p
    BY <2>2, <2>3
  <2>4. CASE row[z].number # p
    <3>1. p \in 1 .. row[z].number - 1
      BY <1>6, <2>2, <2>4
    <3>2. p \in NumbersOf(Numbered)
      BY <1>4, <2>2, <3>1 DEF OrderedBy
    <3>. QED  BY <3>2 DEF NumbersOf
  <2>. QED  BY <2>3, <2>4
<1>12. y \in Movable \cap Numbered /\ y \in P
  <2>1. y \notin Held
    BY <1>5, <1>11 DEF NumbersOf
  <2>2. y \in Movable \cap Numbered
    BY <1>0, <2>1, Parts
  <2>3. y \notin Taken(c, n - 1)
    BY <1>6, <1>7, <1>11 DEF Taken
  <2>. QED  BY <1>2, <2>2, <2>3 DEF P
<1>13. P = Later(y)
  <2>1. ASSUME NEW z \in Later(y) PROVE z \in P
    <3>1. z \in Movable \cap Numbered /\ row[z].number >= p /\ row[z].number \in Nat
      BY <1>8, <1>11 DEF Later
    <3>2. z \notin Taken(c, n - 1)
      BY <1>6, <1>7, <3>1 DEF Taken
    <3>. QED  BY <1>2, <3>1, <3>2 DEF P
  <2>2. ASSUME NEW z \in P PROVE z \in Later(y)
    BY <1>2, <1>9, <1>11 DEF Later, P
  <2>. QED  BY <2>1, <2>2
<1>14. y = NextRow(P, p, Lineup, days)
  BY <1>11, <1>12, <1>13 DEF OrderedBy
<1> DEFINE at == At(c, n - 1)
<1>15. n - 1 \in 0 .. N
  BY <1>1, <1>3
<1>16. DOMAIN at = NumbersOf(Held) \cup FirstFree(n - 1)
  BY <1>15, AtOrdering
<1>17. \A q \in NumbersOf(Held) : at[q] = HeldAt[q]
  BY <1>15, AtOrdering
<1>18. ASSUME NEW k \in 1 .. n - 1 PROVE at[FreePosition(Blocked, k)] = c[k]
  <2>1. k \in 1 .. N
    BY <1>1, <1>3
  <2>2. FreePosition(Blocked, k) \notin NumbersOf(Held)
        /\ FreeUpTo(Blocked, FreePosition(Blocked, k)) = k
    BY <1>1, <2>1, FreeForAll
  <2>3. FreePosition(Blocked, k) \in FirstFree(n - 1)
    BY DEF FirstFree
  <2>. QED  BY <2>2, <2>3 DEF At
<1> HIDE DEF at
<1>19. DOMAIN Lineup = NumbersOf(Numbered) /\ Held \subseteq Numbered
  BY <1>0, LineupIs, Parts
<1>20. \A q \in NumbersOf(Numbered) : Lineup[q] \in Numbered /\ row[Lineup[q]].number = q
  BY <1>0, LineupIs
<1>21. ASSUME NEW q \in 1 .. p - 1 PROVE q \in DOMAIN at <=> q \in DOMAIN Lineup
  <2>1. ASSUME q \in NumbersOf(Held) PROVE q \in NumbersOf(Numbered)
    BY <1>19, <2>1 DEF NumbersOf
  <2>2. ASSUME NEW k \in 1 .. n - 1, q = FreePosition(Blocked, k) PROVE q \in NumbersOf(Numbered)
    BY <1>7, <2>2 DEF NumbersOf
  <2>3. ASSUME NEW x \in Numbered, q = row[x].number, x \notin Held
        PROVE  q \in FirstFree(n - 1)
    <3>1. x \in ToPlace(days)
      BY <1>0, <1>2, <2>3, Parts
    <3>2. x \notin P
      BY <1>6, <1>9, <2>3
    <3>3. PICK k \in 1 .. n - 1 : x = c[k]
      BY <3>1, <3>2 DEF P, Taken
    <3>. QED  BY <2>3, <3>3 DEF FirstFree
  <2>4. q \in NumbersOf(Numbered) => q \in NumbersOf(Held) \cup FirstFree(n - 1)
    BY <2>3 DEF NumbersOf
  <2>5. q \in FirstFree(n - 1) => q \in NumbersOf(Numbered)
    BY <2>2 DEF FirstFree
  <2>. QED  BY <1>16, <1>19, <2>1, <2>4, <2>5
<1>22. ASSUME NEW q \in 1 .. p - 1, q \in DOMAIN at PROVE at[q] = Lineup[q]
  <2>1. Lineup[q] \in Numbered /\ row[Lineup[q]].number = q
    BY <1>19, <1>20, <1>21, <1>22
  <2>2. CASE q \in NumbersOf(Held)
    <3>1. at[q] \in Held /\ row[at[q]].number = q
      BY <1>0, <1>17, <2>2, HeldAtIs
    <3>. QED  BY <1>0, <1>19, <2>1, <3>1, NumbersAreApart
  <2>3. CASE q \in FirstFree(n - 1)
    <3>1. PICK k \in 1 .. n - 1 : q = FreePosition(Blocked, k)
      BY <2>3 DEF FirstFree
    <3>2. at[q] = c[k] /\ c[k] \in Numbered /\ row[c[k]].number = q
      BY <1>7, <1>18, <3>1
    <3>. QED  BY <1>0, <2>1, <3>2, NumbersAreApart
  <2>. QED  BY <1>16, <1>22, <2>2, <2>3
<1>23. NextRow(P, p, at, days) = NextRow(P, p, Lineup, days)
  BY <1>6, <1>21, <1>22, NextRowLooksBack
<1>24. c[n] = NextRow(P, p, at, days)
  BY DEF Turns, P, p, at
<1>. QED  BY <1>11, <1>14, <1>23, <1>24 DEF p

\* So it changes no number.
LEMMA OrderedSettles ==
    ASSUME Inv, NEW days, OrderedBy(days)
    PROVE  Automatic(days) = [x \in Choreographies |-> row[x].number]
<1> DEFINE N == Cardinality(ToPlace(days))
           num == Automatic(days)
<1>1. N \in Nat
  BY WhoIsPlaced DEF Inv
<1>2. PICK c : Turns(c, days) /\ Placed(days) = At(c, N)
  BY PlacedInTurns
<1> DEFINE T == {n \in 1 .. N : row[c[n]].number # FreePosition(Blocked, n)}
<1>3. T = {}
  <2> SUFFICES ASSUME T # {} PROVE FALSE
    OBVIOUS
  <2>1. T \subseteq Nat
    OBVIOUS
  <2>2. PICK n \in T : \A m \in T : n <= m
    BY <2>1, LeastNatural
  <2>3. n \in 1 .. N /\ row[c[n]].number # FreePosition(Blocked, n)
    OBVIOUS
  <2>4. \A k \in 1 .. n - 1 : k \in 1 .. N /\ ~(n <= k)
    BY <1>1, <2>3
  <2>5. \A k \in 1 .. n - 1 : k \notin T
    <3> HIDE DEF T
    <3>. QED  BY <2>2, <2>4
  <2>6. \A k \in 1 .. n - 1 : row[c[k]].number = FreePosition(Blocked, k)
    BY <2>4, <2>5
  <2>. QED  BY <1>2, <2>3, <2>6, OrderedStands
<1>4. \A i \in 1 .. N : num[c[i]] = FreePosition(Blocked, i)
  BY <1>2, AutomaticIs
<1>5. \A x \in Choreographies \ ToPlace(days) : num[x] = row[x].number
  BY <1>2, AutomaticIs
<1>6. \A x \in ToPlace(days) : \E i \in 1 .. N : c[i] = x
  BY <1>2, TurnsAre
<1>7. DOMAIN num = Choreographies /\ num = [x \in Choreographies |-> num[x]]
  BY DEF Automatic
<1> HIDE DEF num
<1>8. \A x \in Choreographies : num[x] = row[x].number
  BY <1>3, <1>4, <1>5, <1>6
<1>. QED  BY <1>7, <1>8 DEF num

-----------------------------------------------------------------------------
\* AN ORDERING LEAVES THE ROWS ORDERED

\* Who is next after a step: NextRowOnly, of the rows it leaves.
LEMMA NextRowOnlyAfter ==
    ASSUME NEW days, NEW P, NEW p, NEW at, NEW x
    PROVE  (/\ TypeOK /\ P \subseteq Registered /\ x \in FirstBlock(P, days)
            /\ Apart(P, p, at, days) # {} =>
                  x \in Apart(P, p, at, days) /\ \A y \in Apart(P, p, at, days) : x <= y
            /\ Apart(P, p, at, days) = {} => \A y \in FirstBlock(P, days) : x <= y
            => NextRow(P, p, at, days) = x)'
<1>1. /\ TypeOK /\ P \subseteq Registered /\ x \in FirstBlock(P, days)
      /\ Apart(P, p, at, days) # {} =>
            x \in Apart(P, p, at, days) /\ \A y \in Apart(P, p, at, days) : x <= y
      /\ Apart(P, p, at, days) = {} => \A y \in FirstBlock(P, days) : x <= y
      => NextRow(P, p, at, days) = x
  BY NextRowOnly
<1>. QED  BY <1>1, PTL

\* The lineup after a step.
LEMMA LineupIsAfter ==
    (TypeOK =>
       /\ DOMAIN Lineup = NumbersOf(Numbered)
       /\ \A q \in NumbersOf(Numbered) : Lineup[q] \in Numbered /\ row[Lineup[q]].number = q
       /\ \A x \in Numbered : row[x].number \in NumbersOf(Numbered) /\ Lineup[row[x].number] = x)'
<1>1. TypeOK =>
       /\ DOMAIN Lineup = NumbersOf(Numbered)
       /\ \A q \in NumbersOf(Numbered) : Lineup[q] \in Numbered /\ row[Lineup[q]].number = q
       /\ \A x \in Numbered : row[x].number \in NumbersOf(Numbered) /\ Lineup[row[x].number] = x
  BY LineupIs
<1>. QED  BY <1>1, PTL

\* Whoever stands between two rows, one before the other, comes after the first or
\* before the second.
LEMMA PrecedesSplits ==
    ASSUME TypeOK, NEW days, NEW x \in Registered, NEW y \in Registered, NEW w \in Registered,
           Precedes(w, x, days), ~Precedes(w, y, days)
    PROVE  Precedes(y, x, days)
<1>1. /\ Day(x) \in Nat /\ Day(y) \in Nat /\ Day(w) \in Nat
      /\ Schedule(x) \in Nat /\ Schedule(y) \in Nat /\ Schedule(w) \in Nat
      /\ row[x].kind.block \in Nat /\ row[y].kind.block \in Nat /\ row[w].kind.block \in Nat
      /\ row[x].number \in Nat /\ row[y].number \in Nat /\ row[w].number \in Nat
  BY RowKeys
<1>. QED  BY <1>1 DEF Precedes

\* A step that changes no kind and withdraws nobody leaves every conflict with the
\* same lineup.
LEMMA ConflictsStay ==
    ASSUME Withdrawn' = Withdrawn, \A w \in Choreographies : row'[w].kind = row[w].kind,
           NEW x \in Choreographies, NEW p, NEW at, \A q \in DOMAIN at : at[q] \in Choreographies
    PROVE  Conflicts(x, p, at)' <=> Conflicts(x, p, at)
<1>1. Recent(p, at)' = Recent(p, at)
  BY Zenon DEF Recent
<1>2. \A q \in DOMAIN at : Shares(x, at[q])' <=> Shares(x, at[q])
  BY DEF Shares, Schedule
<1>. QED  BY <1>1, <1>2 DEF Conflicts

\* What an ordering changes: c has the rows it places, in their turns.
LEMMA AfterOrder ==
    ASSUME Inv, NEW days, Order(days), NEW c, Turns(c, days),
           Placed(days) = At(c, Cardinality(ToPlace(days)))
    PROVE  /\ \A x \in Choreographies : row'[x].kind = row[x].kind
           /\ Registered' = Registered /\ Withdrawn' = Withdrawn /\ evaluated' = evaluated
           /\ Numbered' = Held \cup ToPlace(days)
           /\ \A i \in 1 .. Cardinality(ToPlace(days)) : row'[c[i]].number = FreePosition(Blocked, i)
           /\ \A x \in Held : row'[x].number = row[x].number
           /\ Frozen \subseteq Frozen' /\ Movable' \subseteq Movable
           /\ Movable' \cap Numbered' \subseteq ToPlace(days)
<1> DEFINE N == Cardinality(ToPlace(days))
           num == Automatic(days)
<1>0. TypeOK
  BY DEF Inv
<1>1. Write(num) /\ evaluated' = evaluated
  BY DEF Order
<1>2. Renumbers(num, ToPlace(days))
  BY AutomaticRenumbers
<1> HIDE DEF num
<1>3. \A x \in Choreographies : row'[x].kind = row[x].kind /\ row'[x].number = num[x]
  BY <1>0, <1>1, <1>2, AfterWrite
<1>4. Registered' = Registered /\ Withdrawn' = Withdrawn
  BY <1>0, <1>1, <1>2, AfterWrite
<1>5. Numbered' = Held \cup ToPlace(days) /\ Numbered \subseteq Numbered'
  BY <1>0, <1>1, <1>2, AfterWrite
<1>6. ToPlace(days) \subseteq Choreographies /\ Held \subseteq Choreographies
      /\ ToPlace(days) \cap Held = {} /\ Numbered \subseteq Choreographies
      /\ evaluated \subseteq Choreographies /\ Frozen \subseteq Numbered
  BY <1>0, WhoIsPlaced, Parts
<1>7. \A i \in 1 .. N : row'[c[i]].number = FreePosition(Blocked, i)
  <2>1. \A i \in 1 .. N : num[c[i]] = FreePosition(Blocked, i)
    BY AutomaticIs DEF num
  <2>2. \A i \in 1 .. N : c[i] \in Choreographies
    BY <1>6 DEF Turns
  <2>. QED  BY <1>3, <2>1, <2>2
<1>8. \A x \in Held : row'[x].number = row[x].number
  BY <1>2, <1>3, <1>6 DEF Renumbers
<1>9. \A x \in Choreographies : Schedule(x)' = Schedule(x)
  BY <1>3 DEF Schedule
<1>10. Frozen \subseteq Frozen'
  BY <1>1, <1>5, <1>6, <1>9 DEF Frozen
<1>11. Movable' \subseteq Movable
  BY <1>4, <1>10 DEF Movable
<1>12. Movable' \cap Numbered' \subseteq ToPlace(days)
  BY <1>0, <1>5, <1>11, Parts
<1>. QED  BY <1>1, <1>3, <1>4, <1>5, <1>7, <1>8, <1>10, <1>11, <1>12

\* A position below a row it placed is blocked, or somebody has it.
LEMMA NoneSkipped ==
    ASSUME Inv, NEW days, Order(days), NEW c, Turns(c, days),
           Placed(days) = At(c, Cardinality(ToPlace(days))),
           NEW i \in 1 .. Cardinality(ToPlace(days)), NEW q \in 1 .. FreePosition(Blocked, i) - 1,
           q \notin Blocked'
    PROVE  q \in NumbersOf(Numbered)'
<1> DEFINE N == Cardinality(ToPlace(days))
           p == FreePosition(Blocked, i)
<1>0. TypeOK
  BY DEF Inv
<1>1. ToPlace(days) \subseteq Registered /\ ToPlace(days) \cap Held = {} /\ N \in Nat
  BY <1>0, WhoIsPlaced
<1>2. p \in Positions
  BY <1>1, FreeForAll
<1>3. p \in Nat /\ Cardinality(Choreographies) \in Nat
  <2> HIDE DEF p
  <2>. QED  BY <1>2, PositionsAreNumbers
<1>4. q \in Nat /\ q # 0 /\ q < p
  BY <1>3
<1>5. q \in Positions
  BY <1>2, <1>3, <1>4 DEF Positions
<1>6. Numbered' = Held \cup ToPlace(days)
  BY AfterOrder
<1>7. \A k \in 1 .. N : row'[c[k]].number = FreePosition(Blocked, k)
  BY AfterOrder
<1>8. \A x \in Held : row'[x].number = row[x].number
  BY AfterOrder
<1>9. Frozen \subseteq Frozen' /\ Frozen \subseteq Held /\ Held \subseteq Numbered
  BY <1>0, AfterOrder, Parts
<1>10. CASE q \notin Blocked
  <2>1. PICK k \in 1 .. i - 1 : q = FreePosition(Blocked, k)
    BY <1>1, <1>4, <1>10, FreeBelow
  <2>2. k \in 1 .. N
    BY <1>1
  <2>3. row'[c[k]].number = q /\ c[k] \in Numbered'
    BY <1>6, <1>7, <2>1, <2>2 DEF Turns
  <2>. QED  BY <2>3 DEF NumbersOf
<1>11. ASSUME NEW x \in Held, q = row[x].number PROVE q \in NumbersOf(Numbered)'
  BY <1>6, <1>8, <1>11 DEF NumbersOf
<1>12. ASSUME NEW u \in Frozen, NEW v \in Frozen, Neighbours(u, v),
              row[u].number < q, q < row[v].number, q \notin NumbersOf(Numbered)'
       PROVE  FALSE
  <2>1. row'[u].number = row[u].number /\ row'[v].number = row[v].number
        /\ u \in Frozen' /\ v \in Frozen'
    BY <1>8, <1>9
  <2>2. ASSUME NEW z \in Numbered', row[u].number < row'[z].number, row'[z].number < row[v].number
        PROVE  FALSE
    <3>1. CASE z \in Held
      BY <1>8, <1>9, <1>12, <2>2, <3>1 DEF Neighbours
    <3>2. CASE z \in ToPlace(days)
      <4>1. PICK k \in 1 .. N : c[k] = z
        BY <3>2, TurnsAre
      <4>2. row'[z].number = FreePosition(Blocked, k)
        BY <1>7, <4>1
      <4>3. FreePosition(Blocked, k) \in Positions
        BY <1>1, FreeForAll
      <4>4. FreePosition(Blocked, k) \notin Blocked
        BY <1>1, FreeForAll
      <4>5. FreePosition(Blocked, k) \in Blocked
        BY <1>12, <2>2, <4>2, <4>3 DEF Blocked
      <4>. QED  BY <4>4, <4>5
    <3>. QED  BY <1>6, <2>2, <3>1, <3>2
  <2>3. row[u].number < row[v].number
    BY <1>12 DEF Neighbours
  <2>4. Neighbours(u, v)'
    BY <2>1, <2>2, <2>3 DEF Neighbours
  <2>5. row'[u].number < q /\ q < row'[v].number
    BY <1>12, <2>1
  <2>6. q \in Blocked'
    BY <1>5, <2>1, <2>4, <2>5 DEF Blocked, Positions
  <2>. QED  BY <2>6
<1>. QED  BY <1>10, <1>11, <1>12 DEF Blocked

\* Below the i-th free position the rows end up in the lineup of the i-th turn.
LEMMA LineupOfTurn ==
    ASSUME Inv, NEW days \in SUBSET Days, Order(days), NEW c, Turns(c, days),
           Placed(days) = At(c, Cardinality(ToPlace(days))),
           NEW i \in 1 .. Cardinality(ToPlace(days)), NEW q \in 1 .. FreePosition(Blocked, i) - 1,
           NEW L, L = Lineup'
    PROVE  /\ q \in DOMAIN L <=> q \in DOMAIN At(c, i - 1)
           /\ q \in DOMAIN L => L[q] = At(c, i - 1)[q]
<1> DEFINE N == Cardinality(ToPlace(days))
           p == FreePosition(Blocked, i)
           at == At(c, i - 1)
<1>0. TypeOK /\ TypeOK'
  <2>1. Inv'
    BY OrderKeepsInv
  <2>. QED  BY <2>1 DEF Inv
<1>1. ToPlace(days) \subseteq Registered /\ ToPlace(days) \cap Held = {} /\ N \in Nat
  BY <1>0, WhoIsPlaced
<1>2. p \in Nat
  <2>1. p \in Positions
    BY <1>1, FreeForAll
  <2> HIDE DEF p
  <2>. QED  BY <2>1, PositionsAreNumbers
<1>3. i \in Nat /\ i - 1 \in 0 .. N
  BY <1>1
<1>4. Numbered' = Held \cup ToPlace(days)
  BY AfterOrder
<1>5. \A k \in 1 .. N : row'[c[k]].number = FreePosition(Blocked, k)
  BY AfterOrder
<1>6. \A x \in Held : row'[x].number = row[x].number
  BY AfterOrder
<1>7. DOMAIN at = NumbersOf(Held) \cup FirstFree(i - 1)
  BY <1>3, AtOrdering
<1>8. \A r \in NumbersOf(Held) : at[r] = HeldAt[r]
  BY <1>3, AtOrdering
<1>9. ASSUME NEW k \in 1 .. i - 1 PROVE at[FreePosition(Blocked, k)] = c[k] /\ k \in 1 .. N
  <2>1. k \in 1 .. N
    BY <1>1
  <2>2. FreePosition(Blocked, k) \notin NumbersOf(Held)
        /\ FreeUpTo(Blocked, FreePosition(Blocked, k)) = k
    BY <1>1, <2>1, FreeForAll
  <2>3. FreePosition(Blocked, k) \in FirstFree(i - 1)
    BY DEF FirstFree
  <2>. QED  BY <2>1, <2>2, <2>3 DEF At
<1> HIDE DEF at
<1>10. DOMAIN L = NumbersOf(Numbered)'
  BY <1>0, LineupIsAfter
<1>11. \A r \in NumbersOf(Numbered)' : L[r] \in Numbered' /\ row'[L[r]].number = r
  BY <1>0, LineupIsAfter
<1>12. \A x \in Numbered' : row'[x].number \in NumbersOf(Numbered)' /\ L[row'[x].number] = x
  BY <1>0, LineupIsAfter
<1>13. CASE q \in NumbersOf(Held)
  <2>1. at[q] \in Held /\ row[at[q]].number = q
    BY <1>0, <1>8, <1>13, HeldAtIs
  <2>2. row'[at[q]].number = q /\ at[q] \in Numbered'
    BY <1>4, <1>6, <2>1
  <2>3. q \in DOMAIN L /\ L[q] = at[q]
    BY <1>10, <1>12, <2>2
  <2>. QED  BY <1>7, <1>13, <2>3 DEF at
<1>14. ASSUME NEW k \in 1 .. i - 1, q = FreePosition(Blocked, k)
       PROVE  /\ q \in DOMAIN L <=> q \in DOMAIN At(c, i - 1)
              /\ q \in DOMAIN L => L[q] = At(c, i - 1)[q]
  <2>1. at[q] = c[k] /\ k \in 1 .. N
    BY <1>9, <1>14
  <2>2. row'[c[k]].number = q /\ c[k] \in Numbered'
    BY <1>4, <1>5, <1>14, <2>1 DEF Turns
  <2>3. q \in DOMAIN L /\ L[q] = at[q]
    BY <1>10, <1>12, <2>1, <2>2
  <2>4. q \in DOMAIN at
    BY <1>7, <1>14 DEF FirstFree
  <2>. QED  BY <2>3, <2>4 DEF at
<1>15. CASE q \notin NumbersOf(Held) /\ q \notin FirstFree(i - 1)
  <2>1. q \notin DOMAIN at
    BY <1>7, <1>15
  <2>2. ASSUME q \in DOMAIN L PROVE FALSE
    <3>1. L[q] \in Numbered' /\ row'[L[q]].number = q
      BY <1>10, <1>11, <2>2
    <3>2. CASE L[q] \in Held
      BY <1>6, <1>15, <3>1, <3>2 DEF NumbersOf
    <3>3. CASE L[q] \in ToPlace(days)
      <4>1. PICK k \in 1 .. N : c[k] = L[q]
        BY <3>3, TurnsAre
      <4>2. q = FreePosition(Blocked, k)
        BY <1>5, <3>1, <4>1
      <4>3. k \notin 1 .. i - 1
        BY <1>15, <4>2 DEF FirstFree
      <4>4. ~(i < k)
        <5>1. q < p
          BY <1>2
        <5>2. i < k => p < FreePosition(Blocked, k)
          BY <1>1, FreeForAll
        <5>. QED  BY <1>2, <4>2, <5>1, <5>2
      <4>5. k = i
        BY <1>1, <1>3, <4>3, <4>4
      <4>. QED  BY <1>2, <4>2, <4>5
    <3>. QED  BY <1>4, <3>1, <3>2, <3>3
  <2>. QED  BY <2>1, <2>2 DEF at
<1>. QED  BY <1>13, <1>14, <1>15 DEF FirstFree

\* So whoever conflicted in his turn does so where the rows end up, and nobody else.
LEMMA ConflictsOfTurn ==
    ASSUME Inv, NEW days \in SUBSET Days, Order(days), NEW c, Turns(c, days),
           Placed(days) = At(c, Cardinality(ToPlace(days))),
           NEW i \in 1 .. Cardinality(ToPlace(days)), NEW p, p = FreePosition(Blocked, i),
           NEW L, L = Lineup', NEW x \in Choreographies
    PROVE  Conflicts(x, p, L)' <=> Conflicts(x, p, At(c, i - 1))
<1>0. TypeOK /\ TypeOK'
  <2>1. Inv'
    BY OrderKeepsInv
  <2>. QED  BY <2>1 DEF Inv
<1>1. p \in Nat
  <2>1. ToPlace(days) \subseteq Registered /\ ToPlace(days) \cap Held = {}
    BY <1>0, WhoIsPlaced
  <2>2. p \in Positions
    BY <2>1, FreeForAll
  <2>. QED  BY <2>2, PositionsAreNumbers
<1>2. Withdrawn' = Withdrawn /\ \A w \in Choreographies : row'[w].kind = row[w].kind
  BY AfterOrder
<1>3. \A q \in DOMAIN L : L[q] \in Choreographies
  <2>1. \A q \in DOMAIN L : L[q] \in Numbered'
    BY <1>0, LineupIsAfter
  <2>2. Numbered' \subseteq Choreographies
    BY DEF Numbered, Registered
  <2>. QED  BY <2>1, <2>2
<1>4. Conflicts(x, p, L)' <=> Conflicts(x, p, L)
  BY <1>2, <1>3, ConflictsStay
<1> DEFINE at == At(c, i - 1)
<1>5. \A q \in 1 .. p - 1 : /\ q \in DOMAIN L <=> q \in DOMAIN at
                            /\ q \in DOMAIN L => L[q] = at[q]
  BY LineupOfTurn
<1> HIDE DEF at
<1>6. Conflicts(x, p, L) <=> Conflicts(x, p, at)
  BY <1>1, <1>5, ConflictsLookBack
<1>. QED  BY <1>4, <1>6 DEF at

\* Who had his turn is the one an ordering would put there now.
LEMMA TurnStands ==
    ASSUME Inv, NEW days \in SUBSET Days, Order(days), NEW c, Turns(c, days),
           Placed(days) = At(c, Cardinality(ToPlace(days))),
           NEW i \in 1 .. Cardinality(ToPlace(days)), NEW y, y = c[i],
           y \in Movable' \cap Numbered', NEW p, p = FreePosition(Blocked, i),
           NEW L, L = Lineup', NEW P2, P2 = Later(y)'
    PROVE  NextRow(P2, p, L, days)' = y
<1> DEFINE N == Cardinality(ToPlace(days))
           P == ToPlace(days) \ Taken(c, i - 1)
           F == FirstBlock(P, days)
           at == At(c, i - 1)
           A == Apart(P, p, at, days)
           F2 == FirstBlock(P2, days)'
           A2 == Apart(P2, p, L, days)'
<1>0. TypeOK /\ TypeOK'
  <2>1. Inv'
    BY OrderKeepsInv
  <2>. QED  BY <2>1 DEF Inv
<1>1. ToPlace(days) \subseteq Registered /\ ToPlace(days) \cap Held = {} /\ N \in Nat
      /\ ToPlace(days) \subseteq Movable /\ IsFiniteSet(ToPlace(days))
      /\ Registered \subseteq Choreographies
  BY <1>0, WhoIsPlaced, Parts
<1>2. i \in Nat /\ i - 1 \in Nat /\ i - 1 < N
  BY <1>1
<1>3. \A x \in Choreographies : row'[x].kind = row[x].kind
  BY AfterOrder
<1>4. Registered' = Registered
  BY AfterOrder
<1>5. Movable' \cap Numbered' \subseteq ToPlace(days)
  BY AfterOrder
<1>6. \A k \in 1 .. N : row'[c[k]].number = FreePosition(Blocked, k)
  BY AfterOrder
<1>7. P # {} /\ P \subseteq Registered
  BY <1>1, <1>2, SomeonePending
<1>8. y = NextRow(P, p, at, days)
  BY DEF Turns
<1>9. P2 = {z \in Movable' \cap Numbered' : row'[z].number >= p} /\ row'[y].number = p
  BY <1>6 DEF Later
<1>10. p \in Nat /\ \A k \in 1 .. N : FreePosition(Blocked, k) \in Nat
  <2>1. \A k \in 1 .. N : FreePosition(Blocked, k) \in Positions
    BY <1>1, FreeForAll
  <2>. QED  BY <2>1, PositionsAreNumbers
<1>11. P2 \subseteq P /\ P2 \subseteq Choreographies
  <2> SUFFICES ASSUME NEW z \in P2 PROVE z \in P
    BY <1>1, <1>7
  <2>1. z \in ToPlace(days) /\ row'[z].number >= p
    BY <1>5, <1>9
  <2>2. ASSUME NEW k \in 1 .. i - 1, z = c[k] PROVE FALSE
    <3>1. k \in 1 .. N /\ k < i
      BY <1>1, <1>2
    <3>2. FreePosition(Blocked, k) < p
      BY <1>1, <3>1, FreeForAll
    <3>3. row'[z].number = FreePosition(Blocked, k)
      BY <1>6, <2>2, <3>1
    <3>. QED  BY <1>10, <2>1, <3>1, <3>2, <3>3
  <2>. QED  BY <2>1, <2>2 DEF Taken
<1>12. y \in P2
  BY <1>9, <1>10
<1> HIDE DEF P, at, F, A, F2, A2
<1>13. y \in P /\ y \in F
  BY <1>0, <1>7, <1>8, NextRowIsPending DEF F
<1>14. A # {} => y \in A
  BY <1>0, <1>7, <1>8, NextRowIs DEF A
<1>15. A # {} => \A x \in A : y <= x
  BY <1>0, <1>7, <1>8, NextRowIs DEF A
<1>16. A = {} => \A x \in F : y <= x
  BY <1>0, <1>7, <1>8, NextRowIs DEF A, F
<1>17. \A x \in P : x \in Choreographies /\ Day(x)' = Day(x) /\ Schedule(x)' = Schedule(x)
                    /\ row'[x].kind.block = row[x].kind.block
  BY <1>1, <1>3, <1>7 DEF Day, Schedule
<1>18. y \in F2
  <2>1. ASSUME NEW w \in P2, Precedes(w, y, days)' PROVE FALSE
    <3>1. w \in P /\ row'[w].number >= p /\ row'[y].number = p
      BY <1>9, <1>11
    <3>2. ~Precedes(w, y, days)
      BY <1>13, <3>1 DEF F, FirstBlock
    <3>3. row'[w].number \in Nat
      <4>1. PICK k \in 1 .. N : c[k] = w
        BY <1>5, <1>9, TurnsAre
      <4>. QED  BY <1>6, <1>10, <4>1
    <3>. QED  BY <1>10, <1>13, <1>17, <2>1, <3>1, <3>2, <3>3 DEF Precedes
  <2>. QED  BY <1>12, <2>1 DEF F2, FirstBlock
<1>19. F2 \subseteq F
  <2> SUFFICES ASSUME NEW x \in F2, NEW w \in P, Precedes(w, x, days) PROVE FALSE
    BY <1>11 DEF F2, F, FirstBlock
  <2>1. x \in P2 /\ x \in P /\ ~Precedes(y, x, days)'
    BY <1>11, <1>12 DEF F2, FirstBlock
  <2>2. ~Precedes(w, y, days)
    BY <1>13 DEF F, FirstBlock
  <2>3. Precedes(y, x, days)
    BY <1>0, <1>7, <1>13, <2>1, <2>2, PrecedesSplits
  <2>4. Day(x) = Day(y) /\ Day(x) \notin days /\ row[y].number < row[x].number
    BY <1>13, <1>17, <2>1, <2>3 DEF Precedes
  <2>5. x # y
    <3>1. row[y].number \in Nat
      BY <1>0, <1>7, <1>13, RowKeys
    <3>. QED  BY <2>4, <3>1
  <2>6. row'[x].number >= p /\ row'[y].number = p
    BY <1>9, <2>1
  <2>7. row'[x].number # p /\ row'[x].number \in Nat
    <3>1. PICK k \in 1 .. N : c[k] = x
      BY <1>5, <1>9, <2>1, TurnsAre
    <3>2. row'[x].number = FreePosition(Blocked, k)
      BY <1>6, <3>1
    <3>3. k # i
      BY <2>5, <3>1
    <3>4. FreeUpTo(Blocked, FreePosition(Blocked, k)) = k
      BY <1>1, FreeForAll
    <3>5. FreeUpTo(Blocked, FreePosition(Blocked, i)) = i
      BY <1>1, FreeForAll
    <3>. QED  BY <1>10, <3>1, <3>2, <3>3, <3>4, <3>5
  <2>8. Precedes(y, x, days)'
    BY <1>10, <1>13, <1>17, <2>1, <2>4, <2>6, <2>7 DEF Precedes
  <2>. QED  BY <2>1, <2>8
<1>20. A2 = A \cap F2
  <2>1. A2 = {x \in F2 : ~Conflicts(x, p, L)'}
    BY DEF A2, F2, Apart
  <2>2. A = {x \in F : ~Conflicts(x, p, at)}
    BY DEF A, F, Apart
  <2>3. F2 \subseteq Choreographies
    BY <1>11 DEF F2, FirstBlock
  <2>4. ASSUME NEW x \in F2 PROVE Conflicts(x, p, L)' <=> Conflicts(x, p, at)
    BY <2>3, ConflictsOfTurn DEF at
  <2>. QED  BY <1>19, <2>1, <2>2, <2>4
<1>21. A2 # {} => y \in A2 /\ \A x \in A2 : y <= x
  BY <1>14, <1>15, <1>18, <1>20
<1>22. A2 = {} => \A x \in F2 : y <= x
  BY <1>14, <1>16, <1>18, <1>19, <1>20
<1>23. P2 \subseteq Registered'
  BY <1>4, <1>7, <1>11
<1>. QED  BY <1>0, <1>18, <1>21, <1>22, <1>23, NextRowOnlyAfter DEF F2, A2

\* An ordering leaves the rows ordered.
LEMMA OrderOrders ==
    ASSUME Inv, NEW days \in SUBSET Days, Order(days)
    PROVE  OrderedBy(days)'
<1> DEFINE N == Cardinality(ToPlace(days))
<1>0. TypeOK
  BY DEF Inv
<1>1. PICK c : Turns(c, days) /\ Placed(days) = At(c, N)
  BY PlacedInTurns
<1>2. \A x \in Choreographies : row'[x].kind = row[x].kind
  BY <1>1, AfterOrder
<1>3. Movable' \subseteq Movable
  BY <1>1, AfterOrder
<1>4. Numbered' = Held \cup ToPlace(days)
  BY <1>1, AfterOrder
<1>5. Movable' \cap Numbered' \subseteq ToPlace(days)
  BY <1>1, AfterOrder
<1>6. \A k \in 1 .. N : row'[c[k]].number = FreePosition(Blocked, k)
  BY <1>1, AfterOrder
<1>7. Chosen(days)' \subseteq Numbered'
  <2>1. \A x \in Movable' : x \in Choreographies /\ Day(x)' = Day(x)
    BY <1>0, <1>2, <1>3, Parts DEF Day, Schedule
  <2>2. Chosen(days)' \subseteq Chosen(days)
    BY <1>3, <2>1 DEF Chosen
  <2>. QED  BY <1>4, <2>2 DEF ToPlace
<1>8. ASSUME NEW y \in Movable' \cap Numbered'
      PROVE  /\ \A q \in 1 .. row'[y].number - 1 : q \notin Blocked' => q \in NumbersOf(Numbered)'
             /\ y = NextRow(Later(y), row[y].number, Lineup, days)'
  <2>1. PICK i \in 1 .. N : c[i] = y
    BY <1>1, <1>5, TurnsAre
  <2>2. row'[y].number = FreePosition(Blocked, i)
    BY <1>6, <2>1
  <2>3. \A q \in 1 .. row'[y].number - 1 : q \notin Blocked' => q \in NumbersOf(Numbered)'
    BY <1>1, <2>2, NoneSkipped
  <2>4. PICK p : p = FreePosition(Blocked, i)
    OBVIOUS
  <2>5. PICK L : L = Lineup'
    OBVIOUS
  <2>6. PICK P2 : P2 = Later(y)'
    OBVIOUS
  <2>7. NextRow(P2, p, L, days)' = y
    BY <1>1, <1>8, <2>1, <2>4, <2>5, <2>6, TurnStands
  <2>8. NextRow(Later(y), row[y].number, Lineup, days)' = NextRow(P2, p, L, days)'
    BY <2>2, <2>4, <2>5, <2>6
  <2>. QED  BY <2>3, <2>7, <2>8
<1>. QED  BY <1>7, <1>8 DEF OrderedBy

-----------------------------------------------------------------------------
\* THE LAST ORDERING

\* Until something else happens, the rows stand as the last ordering left them.
StillOrdered == fresh # {} => OrderedBy(fresh)

OInv == Inv /\ StillOrdered

\* No step breaks it: an ordering sets it, and any other step forgets the last ordering.
LEMMA NextOInv == OInv /\ [Next]_vars => OInv'
<1> SUFFICES ASSUME OInv, [Next]_vars PROVE OInv'
  OBVIOUS
<1>1. Inv /\ StillOrdered
  BY DEF OInv
<1>2. Inv'
  BY <1>1, NextInv
<1>3. ASSUME NEW days \in SUBSET Days \ {{}}, Order(days) PROVE StillOrdered'
  <2>1. OrderedBy(days)' /\ fresh' = days
    BY <1>1, <1>3, OrderOrders DEF Order
  <2>. QED  BY <2>1 DEF StillOrdered
<1>4. ASSUME fresh' = {} PROVE StillOrdered'
  BY <1>4 DEF StillOrdered
<1>5. ASSUME NEW x \in Choreographies,
             \/ Remove(x) \/ Evaluate(x) \/ Reinstate(x)
             \/ \E to \in Positions : Move(x, to)
             \/ \E kind \in Kinds : Register(x, kind) \/ Correct(x, kind)
      PROVE  fresh' = {}
  BY <1>5 DEF Remove, Evaluate, Reinstate, Move, Register, Correct
<1>6. ASSUME UNCHANGED vars PROVE StillOrdered'
  <2>1. row' = row /\ evaluated' = evaluated /\ fresh' = fresh
    BY <1>6 DEF vars
  <2>2. PICK days : days = fresh
    OBVIOUS
  <2>3. OrderedBy(days)' <=> OrderedBy(days)
    BY <2>1 DEF OrderedBy, Chosen, Numbered, Movable, Registered, Withdrawn, Frozen, Schedule, Day,
                Blocked, Held, Neighbours, NumbersOf, NextRow, Later, Lineup, Precedes, Conflicts,
                Recent, Shares, Unnumbered, Positions
  <2>. QED  BY <1>1, <2>1, <2>2, <2>3 DEF StillOrdered
<1>7. ASSUME Next PROVE StillOrdered'
  BY <1>3, <1>4, <1>5, <1>7 DEF Next
<1>. QED  BY <1>2, <1>6, <1>7 DEF OInv

\* Before anything is ordered.
LEMMA InitOInv == Init => OInv
<1>1. Init => StillOrdered
  BY DEF Init, StillOrdered
<1>. QED  BY <1>1, InitInv DEF OInv

\* The rows an ordering placed stand in its order until something else happens.
THEOREM OrderStands == Spec => []StillOrdered
<1>1. OInv => StillOrdered
  BY DEF OInv
<1>. QED  BY InitOInv, NextOInv, <1>1, PTL DEF Spec

\* A clash that is left is forced (ClashesAreForced), in every reachable state.
THEOREM ClashesForcedCorrect == Spec => []ClashesAreForced
<1>1. OInv => ClashesAreForced
  BY OrderedClashes DEF OInv, Inv, StillOrdered
<1>. QED  BY InitOInv, NextOInv, <1>1, PTL DEF Spec

\* Repeating the last ordering changes no number (OrderingIsSettled), in every
\* reachable state.
THEOREM OrderingSettledCorrect == Spec => []OrderingIsSettled
<1>1. OInv => OrderingIsSettled
  BY OrderedSettles DEF OInv, StillOrdered, OrderingIsSettled
<1>. QED  BY InitOInv, NextOInv, <1>1, PTL DEF Spec
================================================================================
