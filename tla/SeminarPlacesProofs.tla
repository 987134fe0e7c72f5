-------------------------- MODULE SeminarPlacesProofs --------------------------
(***************************************************************************)
(* Proofs about SeminarPlaces: for any people, rows, prices, quotas, rates *)
(* and calls, the types hold, only an edit of the seminar holds more       *)
(* places than there are, only an edit of its rate covers more deposits    *)
(* than there are places, a covered deposit keeps its place while it keeps *)
(* its money, and who read a confirmed link registers nobody twice.        *)
(*                                                                         *)
(* What a call decided under the seminar's lock may only come to need less *)
(* before it writes: removals, deleted payments and time free places, and  *)
(* nothing else happens to the rows meanwhile.                             *)
(***************************************************************************)
EXTENDS SeminarPlaces, TLAPS, FiniteSetTheorems

-----------------------------------------------------------------------------
\* THE INDUCTIVE INVARIANT

HeldSet == Covered \cup Reserved(clock)

\* The rows that the money of a call would leave covered.
Lands(c) ==
    {r \in DOMAIN call[c].lines :
        Crossed(row[r].allocated + call[c].lines[r].adds, call[c].lines[r].price, rate)}

\* Whoever decides holds the seminar, and a payment is all that names rows.
Exclusive ==
    \A c, d \in Calls : call[c].at \in Holding /\ call[d].at \in Holding => c = d
LinesArePaid == \A c \in Calls : call[c].at # "paying" => call[c].lines = <<>>

\* A reservation granted and not lapsed still has the place it counted.
RegisterInv(c) ==
    call[c].at = "registering" =>
        /\ call[c].knew =>
            ~\E other \in People : Alike(call[c].person, other) /\ IsRegistered(other)
        /\ clock < call[c].until /\ "overbooked" \notin history => Held < quota

\* Money on its way reaches rows that are still on the roster, at the price a
\* covered one has, and still fits.
LinesInv(c) ==
    \A r \in DOMAIN call[c].lines :
        Active(r) /\ (IsCovered(r) => call[c].lines[r].price = row[r].price)
FitsInv(c) ==
    /\ "overbooked" \notin history => Cardinality(HeldSet \cup Lands(c)) <= quota
    /\ "overfilled" \notin history => Cardinality(Covered \cup Lands(c)) <= quota
PayInv(c) == call[c].at = "paying" => LinesInv(c) /\ FitsInv(c)

\* The floor and the rate an edit judged still stand.
EditInv(c) ==
    call[c].at = "editing" =>
        /\ Cardinality(Covered) <= call[c].plan.quota
        /\ call[c].plan.rate # rate => Covered = {}

CallInv(c) == RegisterInv(c) /\ PayInv(c) /\ EditInv(c)

\* TypeOK, with what a call's fields are while it needs them.
LineTypes(lines) ==
    /\ DOMAIN lines \subseteq Rows
    /\ \A r \in DOMAIN lines : lines[r].price \in Prices /\ lines[r].adds \in Nat
PaidLines == UNION {[S -> [price : Prices, adds : Nat]] : S \in SUBSET Rows}
CallTypes ==
    [at : {"idle"} \cup Holding, person : People \cup {None}, until : Nat, knew : BOOLEAN,
     lines : PaidLines \cup {<<>>},
     plan : Plans \cup {<<>>}]
CallsTypes ==
    /\ call \in [Calls -> CallTypes]
    /\ \A c \in Calls : /\ call[c].at = "registering" => call[c].person \in People
                        /\ call[c].at = "editing" => call[c].plan \in Plans
SeminarTypes ==
    /\ open \in BOOLEAN /\ quota \in Quotas /\ rate \in Rates /\ start \in Starts
    /\ history \subseteq {"overbooked", "overfilled"}
WorldTypes == participates \subseteq People \ Individuals /\ linked \in BOOLEAN /\ clock \in 0 .. MaxTime
RowTypes == row \in [Rows -> Inscriptions \cup {NoRow, Withdrawn}]
Types == SeminarTypes /\ WorldTypes /\ RowTypes /\ CallsTypes

PlacesInv ==
    /\ Exclusive /\ LinesArePaid
    /\ OnlyAnEditOverbooks /\ OnlyTheRateOverfills
    /\ \A c \in Calls : CallInv(c)
IInv == Types /\ PlacesInv

-----------------------------------------------------------------------------
\* FINITE SETS

LEMMA Fewer ==
    ASSUME NEW S, IsFiniteSet(S), NEW T \in SUBSET S
    PROVE  /\ IsFiniteSet(T) /\ Cardinality(T) \in Nat /\ Cardinality(S) \in Nat
           /\ Cardinality(T) <= Cardinality(S)
BY FS_Subset, FS_CardinalityType

\* The sets of rows below are finite, and a smaller one counts no more.
LEMMA FewerRows ==
    ASSUME NEW S \in SUBSET Rows, NEW T \in SUBSET S
    PROVE  /\ IsFiniteSet(S) /\ Cardinality(T) \in Nat /\ Cardinality(S) \in Nat
           /\ Cardinality(T) <= Cardinality(S)
<1>1. IsFiniteSet(S)
  BY FS_Subset, RowsAssumption
<1> QED
  BY <1>1, Fewer

LEMMA OneMore ==
    ASSUME NEW S \in SUBSET Rows, NEW r \in Rows
    PROVE  Cardinality(S \cup {r}) <= Cardinality(S) + 1
<1>1. IsFiniteSet(S) /\ Cardinality(S) \in Nat
  BY FewerRows
<1>2. CASE r \in S
  <2>1. S \cup {r} = S
    BY <1>2
  <2> QED
    BY <1>1, <2>1
<1>3. CASE r \notin S
  <2>1. Cardinality(S \cup {r}) = Cardinality(S) + 1
    BY <1>1, <1>3, FS_AddElement
  <2> QED
    BY <1>1, <2>1
<1> QED
  BY <1>2, <1>3

\* What fits beside the others fits with them.
LEMMA Together ==
    ASSUME NEW S \in SUBSET Rows, NEW T \in SUBSET Rows
    PROVE  Cardinality(S \cup T) <= Cardinality(S \ T) + Cardinality(T)
<1>1. IsFiniteSet(S \ T) /\ IsFiniteSet(T) /\ Cardinality(S \ T) \in Nat /\ Cardinality(T) \in Nat
  BY FewerRows
<1>2. S \cup T = (S \ T) \cup T /\ (S \ T) \cap T = {}
  OBVIOUS
<1>3. ASSUME NEW D, NEW E, IsFiniteSet(D), IsFiniteSet(E), D \cap E = {},
             Cardinality(D) \in Nat, Cardinality(E) \in Nat
      PROVE  Cardinality(D \cup E) <= Cardinality(D) + Cardinality(E)
  <2>1. Cardinality(D \cup E) = Cardinality(D) + Cardinality(E) - Cardinality(D \cap E)
    BY <1>3, FS_Union
  <2>2. Cardinality(D \cap E) = 0
    BY <1>3, FS_EmptySet
  <2> QED
    BY <1>3, <2>1, <2>2
<1>4. Cardinality((S \ T) \cup T) <= Cardinality(S \ T) + Cardinality(T)
  BY <1>1, <1>2, <1>3
<1> QED
  BY <1>2, <1>4

-----------------------------------------------------------------------------
\* MONEY AND PLACES

LEMMA DepositIsANumber ==
    ASSUME NEW price \in Prices, NEW percent \in Rates
    PROVE  Deposit(price, percent) \in Int
<1>1. price[1] \in Nat /\ percent \in Nat
  BY PricesAssumption, NumbersAssumption
<1>2. price[1] * percent + 50 \in Int
  BY <1>1
<1> QED
  BY <1>2 DEF Deposit

\* More money crosses whatever less money did.
LEMMA MoreCrosses ==
    ASSUME NEW less \in Nat, NEW more \in Nat, less <= more,
           NEW price \in Prices \cup {None}, NEW percent \in Rates, Crossed(less, price, percent)
    PROVE  Crossed(more, price, percent)
<1>1. price # None /\ less > 0 /\ less >= Deposit(price, percent)
  BY DEF Crossed
<1>2. Deposit(price, percent) \in Int
  BY <1>1, DepositIsANumber
<1> QED
  BY <1>1, <1>2 DEF Crossed

\* Taking nothing from an empty row leaves it empty.
LEMMA EmptyRowOf ==
    ASSUME NEW free, NEW e,
           e = [person |-> None, price |-> None, allocated |-> 0, until |-> 0, withdrawn |-> free]
    PROVE  [e EXCEPT !.allocated = 0] = e
<1>1. ASSUME NEW f, NEW g,
             f \in [person : {None}, price : {None}, allocated : {0}, until : {0}, withdrawn : {free}],
             g \in [person : {None}, price : {None}, allocated : {0}, until : {0}, withdrawn : {free}]
      PROVE  f = g
  BY <1>1
<1>2. e \in [person : {None}, price : {None}, allocated : {0}, until : {0}, withdrawn : {free}]
  OBVIOUS
<1>3. [e EXCEPT !.allocated = 0]
        \in [person : {None}, price : {None}, allocated : {0}, until : {0}, withdrawn : {free}]
  OBVIOUS
<1> QED
  BY <1>1, <1>2, <1>3

LEMMA EmptyRow == NoRow.allocated = 0 /\ [NoRow EXCEPT !.allocated = 0] = NoRow
BY EmptyRowOf, Zenon DEF NoRow

LEMMA WithdrawnRow == Withdrawn.allocated = 0 /\ [Withdrawn EXCEPT !.allocated = 0] = Withdrawn
<1>1. ASSUME NEW free, NEW e,
             e = [person |-> None, price |-> None, allocated |-> 0, until |-> 0, withdrawn |-> free]
      PROVE  [e EXCEPT !.allocated = 0] = e
  BY <1>1, EmptyRowOf
<1>2. ASSUME NEW free, NEW taken, NEW e,
             e = [person |-> None, price |-> None, allocated |-> 0, until |-> 0, withdrawn |-> free]
      PROVE  [e EXCEPT !.withdrawn = taken]
                = [person |-> None, price |-> None, allocated |-> 0, until |-> 0, withdrawn |-> taken]
  <2> DEFINE Taken == [person : {None}, price : {None}, allocated : {0}, until : {0}, withdrawn : {taken}]
  <2>1. /\ [e EXCEPT !.withdrawn = taken] \in Taken
        /\ [person |-> None, price |-> None, allocated |-> 0, until |-> 0, withdrawn |-> taken] \in Taken
    BY <1>2
  <2>2. ASSUME NEW f, NEW g, f \in Taken, g \in Taken
        PROVE  f = g
    BY <2>2
  <2> HIDE DEF Taken
  <2> QED
    BY <2>1, <2>2
<1>3. Withdrawn = [person |-> None, price |-> None, allocated |-> 0, until |-> 0, withdrawn |-> TRUE]
  BY <1>2, Zenon DEF Withdrawn, NoRow
<1>4. Withdrawn.allocated = 0
  BY <1>3
<1> QED
  BY <1>1, <1>3, <1>4, Zenon

LEMMA RowShape ==
    ASSUME RowTypes, NEW r \in Rows
    PROVE  /\ Active(r) <=> row[r] \in Inscriptions
           /\ row[r].allocated \in Nat /\ row[r].price \in Prices \cup {None} /\ row[r].until \in Nat
<1>1. row[r] \in Inscriptions \cup {NoRow, Withdrawn}
  BY DEF RowTypes
<1>2. NoRow \notin Inscriptions /\ NoRow.withdrawn = FALSE /\ NoRow.allocated = 0 /\ NoRow.price = None /\ NoRow.until = 0
  BY NoneAssumption DEF NoRow, Inscriptions
<1>3. Withdrawn.withdrawn = TRUE /\ Withdrawn.allocated = 0 /\ Withdrawn.price = None /\ Withdrawn.until = 0
  BY DEF Withdrawn, NoRow
<1>4. Withdrawn \notin Inscriptions /\ (row[r] \in Inscriptions => row[r].withdrawn = FALSE /\ row[r].allocated \in Nat /\ row[r].price \in Prices \cup {None} /\ row[r].until \in Nat)
  BY <1>3 DEF Inscriptions
<1> QED
  BY <1>1, <1>2, <1>3, <1>4 DEF Active

LEMMA RowShapeAfter ==
    ASSUME RowTypes', NEW r \in Rows
    PROVE  row'[r].allocated \in Nat
<1>1. row'[r] \in Inscriptions \cup {NoRow, Withdrawn}
  BY DEF RowTypes
<1>2. NoRow.allocated = 0 /\ Withdrawn.allocated = 0
  BY DEF Withdrawn, NoRow
<1>3. row'[r] \in Inscriptions => row'[r].allocated \in Nat
  BY DEF Inscriptions
<1> QED
  BY <1>1, <1>2, <1>3

\* The places are rows', and time only lets reservations go.
LEMMA HeldRows == /\ Covered \subseteq Rows /\ HeldSet \subseteq Rows /\ Held = Cardinality(HeldSet)
                  /\ \A now \in Nat : Reserved(now) \subseteq Rows
BY DEF Covered, HeldSet, Held, Reserved

LEMMA NoLines == DOMAIN <<>> = {}
OBVIOUS

LEMMA LineShape ==
    ASSUME CallsTypes, NEW c \in Calls
    PROVE  LineTypes(call[c].lines)
<1>1. call[c].lines \in PaidLines \cup {<<>>}
  BY DEF CallsTypes, CallTypes
<1>2. LineTypes(<<>>)
  BY NoLines DEF LineTypes
<1>3. ASSUME NEW lines \in PaidLines
      PROVE  LineTypes(lines)
  <2>1. PICK S \in SUBSET Rows : lines \in [S -> [price : Prices, adds : Nat]]
    BY Zenon DEF PaidLines
  <2> QED
    BY <2>1 DEF LineTypes
<1> QED
  BY <1>1, <1>2, <1>3

LEMMA LandsAreRows ==
    ASSUME CallsTypes, NEW c \in Calls
    PROVE  Lands(c) \subseteq Rows
BY LineShape DEF Lands, LineTypes

LEMMA HeldEarlier ==
    ASSUME Types, NEW now \in 0 .. clock
    PROVE  HeldSet \subseteq Covered \cup Reserved(now)
<1> SUFFICES ASSUME NEW r \in Rows, IsReserved(r, clock)
             PROVE  IsReserved(r, now)
  BY DEF HeldSet, Reserved
<1>1. row[r].until \in Nat /\ start \in Nat /\ clock \in Nat /\ now \in Nat
  BY RowShape, NumbersAssumption DEF Types, SeminarTypes, WorldTypes
<1> QED
  BY <1>1 DEF IsReserved, Started

-----------------------------------------------------------------------------
\* STEPS THAT ONLY FREE PLACES

\* A row kept, emptied while no payment is on its way to it, or left with less money.
RowLess(r) ==
    \/ row'[r] = row[r]
    \/ row'[r] \in {NoRow, Withdrawn} /\ RowFree(r)
    \/ \E less \in Nat : less <= row[r].allocated /\ row'[r] = [row[r] EXCEPT !.allocated = less]

LEMMA RowLeft ==
    ASSUME Types, RowTypes', NEW r \in Rows, RowLess(r), UNCHANGED <<rate, call>>
    PROVE  /\ Active(r)' => /\ Active(r) /\ row'[r].allocated <= row[r].allocated
                            /\ row'[r].price = row[r].price /\ row'[r].until = row[r].until
                            /\ row'[r].person = row[r].person
           /\ Active(r) /\ ~RowFree(r) => Active(r)'
           /\ IsCovered(r)' => IsCovered(r)
<1>1. /\ row'[r].allocated \in Nat /\ row[r].allocated \in Nat
      /\ row[r].price \in Prices \cup {None} /\ row[r] \in Inscriptions \cup {NoRow, Withdrawn}
      /\ row'[r] \in Inscriptions \cup {NoRow, Withdrawn}
  BY RowShape, RowShapeAfter DEF Types, RowTypes
<1>2. Active(r)' => /\ Active(r) /\ row'[r].allocated <= row[r].allocated
                   /\ row'[r].price = row[r].price /\ row'[r].until = row[r].until
                   /\ row'[r].person = row[r].person
  <2>1. CASE row'[r] = row[r]
    BY <1>1, <2>1 DEF Active
  <2>2. CASE row'[r] \in {NoRow, Withdrawn}
    BY <2>2 DEF Active, Withdrawn, NoRow
  <2>3. CASE \E less \in Nat : less <= row[r].allocated /\ row'[r] = [row[r] EXCEPT !.allocated = less]
    <3>1. PICK less \in Nat : less <= row[r].allocated /\ row'[r] = [row[r] EXCEPT !.allocated = less]
      BY <2>3
    <3>2. row'[r].allocated <= row[r].allocated /\ row'[r].price = row[r].price
          /\ row'[r].until = row[r].until /\ row'[r].person = row[r].person
          /\ row'[r].withdrawn = row[r].withdrawn
      BY <1>1, <3>1 DEF Inscriptions, NoRow, Withdrawn
    <3>3. row[r] = NoRow => row'[r] = NoRow
      <4> SUFFICES ASSUME row[r] = NoRow
                   PROVE  row'[r] = NoRow
        OBVIOUS
      <4>1. NoRow.allocated = 0 /\ [NoRow EXCEPT !.allocated = 0] = NoRow
        BY EmptyRow
      <4>2. less = 0
        BY <3>1, <4>1
      <4> QED
        BY <3>1, <4>1, <4>2
    <3> QED
      BY <3>2, <3>3 DEF Active
  <2> QED
    BY <2>1, <2>2, <2>3 DEF RowLess
<1>3. Active(r) /\ ~RowFree(r) => Active(r)'
  <2> SUFFICES ASSUME Active(r), ~RowFree(r)
               PROVE  Active(r)'
    OBVIOUS
  <2>1. CASE row'[r] = row[r]
    BY <2>1 DEF Active
  <2>2. CASE \E less \in Nat : less <= row[r].allocated /\ row'[r] = [row[r] EXCEPT !.allocated = less]
    <3>1. row[r] \in Inscriptions
      BY RowShape DEF Types
    <3>2. row'[r] \in Inscriptions
      BY <2>2, <3>1 DEF Inscriptions
    <3>3. row'[r].person \in People /\ row'[r].withdrawn = FALSE
      BY <3>2 DEF Inscriptions
    <3>4. NoRow.person = None
      BY DEF NoRow
    <3> QED
      BY <3>3, <3>4, NoneAssumption DEF Active
  <2> QED
    BY <2>1, <2>2 DEF RowLess
<1>4. IsCovered(r)' => IsCovered(r)
  <2> SUFFICES ASSUME IsCovered(r)'
               PROVE  IsCovered(r)
    OBVIOUS
  <2>1. /\ Active(r) /\ row'[r].allocated <= row[r].allocated
        /\ Crossed(row'[r].allocated, row[r].price, rate)
    BY <1>2 DEF IsCovered
  <2> QED
    BY <1>1, <2>1, MoreCrosses DEF IsCovered, Types, SeminarTypes
<1> QED
  BY <1>2, <1>3, <1>4

LEMMA SameTypes ==
    ASSUME SeminarTypes, CallsTypes, UNCHANGED <<seminar, call>>
    PROVE  SeminarTypes' /\ CallsTypes'
BY DEF SeminarTypes, CallsTypes, seminar

\* What was decided under the lock still stands after such a step.
LEMMA LessHeld ==
    ASSUME IInv, Types', UNCHANGED <<seminar, call>>, clock <= clock',
           \A r \in Rows : RowLess(r)
    PROVE  IInv'
<1>1. \A r \in Rows : /\ Active(r)' => /\ Active(r) /\ row'[r].allocated <= row[r].allocated
                                       /\ row'[r].price = row[r].price /\ row'[r].until = row[r].until
                                       /\ row'[r].person = row[r].person
                      /\ Active(r) /\ ~RowFree(r) => Active(r)'
                      /\ IsCovered(r)' => IsCovered(r)
                      /\ row'[r].allocated \in Nat /\ row[r].allocated \in Nat
                      /\ row[r].price \in Prices \cup {None} /\ row[r].until \in Nat
  BY RowLeft, RowShape, RowShapeAfter DEF IInv, Types, seminar
<1>2. Covered' \subseteq Covered
  BY <1>1 DEF Covered
<1>3. HeldSet' \subseteq HeldSet
  <2> SUFFICES ASSUME NEW r \in Rows, IsReserved(r, clock)', ~IsCovered(r)
               PROVE  IsReserved(r, clock)
    BY <1>2 DEF HeldSet, Reserved, Covered
  <2>1. start \in Nat /\ start' = start /\ clock \in Nat /\ clock' \in Nat /\ clock <= clock'
    BY NumbersAssumption DEF IInv, Types, SeminarTypes, WorldTypes, seminar
  <2> QED
    BY <1>1, <2>1 DEF IsReserved, Started
<1>4. Cardinality(Covered') <= Cardinality(Covered) /\ Cardinality(HeldSet') <= Cardinality(HeldSet)
      /\ Cardinality(Covered') \in Nat /\ Cardinality(HeldSet') \in Nat
      /\ Cardinality(Covered) \in Nat /\ Cardinality(HeldSet) \in Nat
  BY <1>2, <1>3, HeldRows, FewerRows
<1>5. Held = Cardinality(HeldSet) /\ Held' = Cardinality(HeldSet')
      /\ quota \in Nat /\ quota' = quota /\ history' = history
  BY HeldRows, NumbersAssumption DEF IInv, Types, SeminarTypes, seminar, Held, HeldSet
<1>6. OnlyAnEditOverbooks' /\ OnlyTheRateOverfills'
  BY <1>4, <1>5 DEF IInv, PlacesInv, OnlyAnEditOverbooks, OnlyTheRateOverfills
<1>7. ASSUME NEW c \in Calls
      PROVE  CallInv(c)'
  <2>1. CallInv(c) /\ call' = call /\ rate' = rate
    BY DEF IInv, PlacesInv, seminar
  <2>2. RegisterInv(c)'
    <3>1. \A p \in People : IsRegistered(p)' => IsRegistered(p)
      BY <1>1 DEF IsRegistered
    <3>2. call[c].until \in Nat /\ clock \in Nat /\ clock' \in Nat
      BY NumbersAssumption DEF IInv, Types, CallsTypes, CallTypes, WorldTypes
    <3> QED
      BY <1>4, <1>5, <2>1, <3>1, <3>2 DEF CallInv, RegisterInv, Alike
  <2>3. PayInv(c)'
    <3> SUFFICES ASSUME call[c].at = "paying"
                 PROVE  LinesInv(c)' /\ FitsInv(c)'
      BY <2>1 DEF PayInv
    <3>1. LinesInv(c) /\ FitsInv(c) /\ LineTypes(call[c].lines)
      BY <2>1, LineShape DEF CallInv, PayInv, IInv, Types
    <3>2. LinesInv(c)'
      BY <1>1, <2>1, <3>1 DEF LinesInv, LineTypes, RowFree
    <3>3. Lands(c)' \subseteq Lands(c)
      <4> SUFFICES ASSUME NEW r \in DOMAIN call[c].lines,
                          Crossed(row'[r].allocated + call[c].lines[r].adds, call[c].lines[r].price, rate)
                   PROVE  Crossed(row[r].allocated + call[c].lines[r].adds, call[c].lines[r].price, rate)
        BY <2>1 DEF Lands
      <4>1. /\ r \in Rows /\ call[c].lines[r].adds \in Nat /\ call[c].lines[r].price \in Prices
            /\ row'[r].allocated <= row[r].allocated
        BY <1>1, <3>1, <3>2, <2>1 DEF LineTypes, LinesInv
      <4>2. /\ row'[r].allocated + call[c].lines[r].adds \in Nat
            /\ row[r].allocated + call[c].lines[r].adds \in Nat
            /\ row'[r].allocated + call[c].lines[r].adds <= row[r].allocated + call[c].lines[r].adds
        BY <1>1, <4>1
      <4> QED
        BY <4>1, <4>2, MoreCrosses DEF IInv, Types, SeminarTypes
    <3>4. /\ HeldSet \cup Lands(c) \in SUBSET Rows /\ Covered \cup Lands(c) \in SUBSET Rows
          /\ HeldSet' \cup Lands(c)' \in SUBSET (HeldSet \cup Lands(c))
          /\ Covered' \cup Lands(c)' \in SUBSET (Covered \cup Lands(c))
      BY <1>2, <1>3, <3>3, HeldRows, LandsAreRows DEF IInv, Types
    <3>5. /\ Cardinality(HeldSet' \cup Lands(c)') <= Cardinality(HeldSet \cup Lands(c))
          /\ Cardinality(Covered' \cup Lands(c)') <= Cardinality(Covered \cup Lands(c))
          /\ Cardinality(HeldSet' \cup Lands(c)') \in Nat /\ Cardinality(HeldSet \cup Lands(c)) \in Nat
          /\ Cardinality(Covered' \cup Lands(c)') \in Nat /\ Cardinality(Covered \cup Lands(c)) \in Nat
      BY <3>4, FewerRows
    <3> QED
      BY <1>5, <3>1, <3>2, <3>5 DEF FitsInv
  <2>4. EditInv(c)'
    <3>1. call[c].at = "editing" => call[c].plan.quota \in Nat
      BY NumbersAssumption DEF IInv, Types, CallsTypes, Plans
    <3> QED
      BY <1>2, <1>4, <2>1, <3>1 DEF CallInv, EditInv
  <2> QED
    BY <2>2, <2>3, <2>4 DEF CallInv
<1>8. Exclusive' /\ LinesArePaid'
  BY DEF IInv, PlacesInv, Exclusive, LinesArePaid
<1> QED
  BY <1>6, <1>7, <1>8 DEF IInv, PlacesInv

LEMMA FreeStep ==
    ASSUME IInv,
           \/ \E r \in Rows : Remove(r) \/ \E money \in 1 .. MaxAmount : TakeMoney(r, money)
           \/ DeletePayment \/ Tick \/ Link \/ \E p \in People \ Individuals : Dance(p)
    PROVE  IInv'
<1> USE DEF IInv, Types
<1>1. SeminarTypes /\ WorldTypes /\ RowTypes /\ CallsTypes /\ row \in [Rows -> Inscriptions \cup {NoRow, Withdrawn}]
  BY DEF RowTypes
<1>2. ASSUME NEW r \in Rows, NEW less \in Nat, less <= row[r].allocated
      PROVE  [row[r] EXCEPT !.allocated = less] \in Inscriptions \cup {NoRow, Withdrawn}
  <2>1. CASE row[r] \in Inscriptions
    BY <2>1 DEF Inscriptions
  <2>2. CASE row[r] \in {NoRow, Withdrawn}
    <3>1. less = 0
      BY <1>2, <2>2, EmptyRow, WithdrawnRow
    <3> QED
      BY <2>2, <3>1, EmptyRow, WithdrawnRow
  <2> QED
    BY <1>1, <2>1, <2>2
<1>3. ASSUME NEW r \in Rows, Remove(r)
      PROVE  IInv'
  <2>1. /\ UNCHANGED <<seminar, world, call>> /\ RowFree(r)
        /\ \E left \in {NoRow, Withdrawn} : row' = [row EXCEPT ![r] = left]
    BY <1>3 DEF Remove
  <2>2. RowTypes'
    BY <1>1, <2>1 DEF RowTypes
  <2>3. \A q \in Rows : RowLess(q)
    BY <1>1, <2>1 DEF RowLess
  <2> QED
    BY <1>1, <2>1, <2>2, <2>3, SameTypes, LessHeld DEF seminar, world, WorldTypes
<1>4. ASSUME NEW r \in Rows, NEW money \in 1 .. MaxAmount, TakeMoney(r, money)
      PROVE  IInv'
  <2>1. /\ UNCHANGED <<seminar, world, call>> /\ money <= row[r].allocated /\ row[r].allocated \in Nat
        /\ row' = [row EXCEPT ![r] = [row[r] EXCEPT !.allocated = row[r].allocated - money]]
    BY <1>1, <1>4, RowShape DEF TakeMoney
  <2>2. row[r].allocated - money \in Nat /\ row[r].allocated - money <= row[r].allocated
    BY <2>1
  <2>3. RowTypes'
    BY <1>1, <1>2, <2>1, <2>2 DEF RowTypes
  <2>4. \A q \in Rows : RowLess(q)
    BY <1>1, <2>1, <2>2 DEF RowLess
  <2> QED
    BY <1>1, <2>1, <2>3, <2>4, SameTypes, LessHeld DEF seminar, world, WorldTypes
<1>5. CASE DeletePayment
  <2>1. PICK rest \in [Rows -> 0 .. MaxAmount] :
           /\ \A r \in Rows : rest[r] <= row[r].allocated
           /\ row' = [r \in Rows |-> [row[r] EXCEPT !.allocated = rest[r]]]
    BY <1>5 DEF DeletePayment
  <2>2. UNCHANGED <<seminar, world, call>>
    BY <1>5 DEF DeletePayment
  <2>3. \A r \in Rows : rest[r] \in Nat
    BY NumbersAssumption
  <2>4. RowTypes'
    BY <1>1, <1>2, <2>1, <2>3 DEF RowTypes
  <2>5. \A q \in Rows : RowLess(q)
    BY <1>1, <2>1, <2>3 DEF RowLess
  <2> QED
    BY <1>1, <2>2, <2>4, <2>5, SameTypes, LessHeld DEF seminar, world, WorldTypes
<1>6. CASE Tick \/ Link \/ \E p \in People \ Individuals : Dance(p)
  <2>1. UNCHANGED <<seminar, row, call>> /\ WorldTypes' /\ clock <= clock'
    <3>1. CASE Tick
      BY <1>1, <3>1, NumbersAssumption DEF Tick, WorldTypes
    <3>2. CASE Link
      BY <1>1, <3>2, NumbersAssumption DEF Link, WorldTypes
    <3>3. ASSUME NEW p \in People \ Individuals, Dance(p)
          PROVE  UNCHANGED <<seminar, row, call>> /\ WorldTypes' /\ clock <= clock'
      BY <1>1, <3>3, NumbersAssumption DEF Dance, WorldTypes
    <3> QED
      BY <1>6, <3>1, <3>2, <3>3
  <2>2. \A q \in Rows : RowLess(q)
    BY <2>1 DEF RowLess
  <2>3. RowTypes'
    BY <1>1, <2>1 DEF RowTypes
  <2> QED
    BY <1>1, <2>1, <2>2, <2>3, SameTypes, LessHeld
<1> QED
  BY <1>3, <1>4, <1>5, <1>6

-----------------------------------------------------------------------------
\* DECISIONS AND WRITES

LEMMA NoCallType == /\ NoCall \in CallTypes /\ NoCall.at = "idle" /\ NoCall.lines = <<>>
BY DEF NoCall, CallTypes

LEMMA GoTypes ==
    ASSUME CallsTypes, NEW c \in Calls, NEW fields \in CallTypes, Go(c, fields),
           fields.at = "registering" => fields.person \in People,
           fields.at = "editing" => fields.plan \in Plans
    PROVE  /\ CallsTypes' /\ call'[c] = fields
           /\ \A d \in Calls \ {c} : call'[d] = call[d]
BY DEF CallsTypes, Go

\* A decision under the seminar's lock leaves the other calls' as they were.
LEMMA Decision ==
    ASSUME IInv, UNCHANGED <<seminar, row, world>>, SeminarFree, NEW c \in Calls,
           NEW fields \in CallTypes, Go(c, fields), fields.at # "paying" => fields.lines = <<>>,
           fields.at = "registering" => fields.person \in People,
           fields.at = "editing" => fields.plan \in Plans, CallInv(c)'
    PROVE  IInv'
<1>1. CallsTypes' /\ call'[c] = fields /\ \A d \in Calls \ {c} : call'[d] = call[d]
  BY GoTypes DEF IInv, Types
<1>2. Types'
  BY <1>1 DEF IInv, Types, SeminarTypes, WorldTypes, RowTypes, seminar, world
<1>3. \A d \in Calls \ {c} : call[d].at \notin Holding
  BY DEF SeminarFree
<1>4. Exclusive' /\ LinesArePaid'
  BY <1>1, <1>3 DEF IInv, PlacesInv, Exclusive, LinesArePaid
<1>5. OnlyAnEditOverbooks' /\ OnlyTheRateOverfills'
  BY DEF IInv, PlacesInv, OnlyAnEditOverbooks, OnlyTheRateOverfills, Held, Covered, Reserved,
     IsCovered, IsReserved, Started, Active, seminar, world
<1>6. ASSUME NEW d \in Calls \ {c}
      PROVE  CallInv(d)'
  BY <1>1, <1>3 DEF CallInv, RegisterInv, PayInv, EditInv, Holding
<1> QED
  BY <1>2, <1>4, <1>5, <1>6 DEF IInv, PlacesInv

\* Whoever writes holds the seminar alone.
LEMMA Write ==
    ASSUME IInv, NEW c \in Calls, call[c].at \in Holding, End(c), SeminarTypes', WorldTypes', RowTypes',
           OnlyAnEditOverbooks', OnlyTheRateOverfills'
    PROVE  IInv'
<1>1. CallsTypes' /\ call'[c] = NoCall /\ \A d \in Calls \ {c} : call'[d] = call[d]
  BY GoTypes, NoCallType DEF IInv, Types, End
<1>2. \A d \in Calls : call'[d].at \notin Holding
  BY <1>1, NoCallType DEF IInv, PlacesInv, Exclusive, Holding
<1>3. Exclusive' /\ LinesArePaid'
  BY <1>1, <1>2, NoCallType DEF IInv, PlacesInv, Exclusive, LinesArePaid
<1>4. \A d \in Calls : CallInv(d)'
  BY <1>2 DEF CallInv, RegisterInv, PayInv, EditInv, Holding
<1> QED
  BY <1>1, <1>3, <1>4 DEF IInv, PlacesInv, Types

LEMMA AbandonStep ==
    ASSUME IInv, NEW c \in Calls, Abandon(c)
    PROVE  IInv'
<1>1. call[c].at \in Holding
  BY DEF Abandon, IInv, Types, CallsTypes, CallTypes
<1>2. OnlyAnEditOverbooks' /\ OnlyTheRateOverfills'
  BY DEF Abandon, IInv, PlacesInv, OnlyAnEditOverbooks, OnlyTheRateOverfills, Held, Covered, Reserved,
     IsCovered, IsReserved, Started, Active, seminar, world
<1>3. SeminarTypes' /\ WorldTypes' /\ RowTypes' /\ End(c)
  BY DEF Abandon, IInv, Types, SeminarTypes, WorldTypes, RowTypes, seminar, world
<1> QED
  BY <1>1, <1>2, <1>3, Write

\* What fits beside the places held at any instant up to now fits now.
LEMMA FitNow ==
    ASSUME Types, NEW now \in 0 .. clock, NEW crossing \in SUBSET Rows,
           Cardinality(crossing) <= PlacesLeftFor(crossing, now)
    PROVE  /\ Cardinality(HeldSet \cup crossing) <= quota
           /\ Cardinality(Covered \cup crossing) <= quota
<1> DEFINE taken == Covered \cup Reserved(now)
<1>1. taken \in SUBSET Rows /\ HeldSet \subseteq taken /\ Covered \subseteq taken
  BY HeldEarlier DEF Covered, Reserved
<1>2. Cardinality(crossing) <= quota - Cardinality(taken \ crossing) /\ quota \in Nat
  BY NumbersAssumption DEF PlacesLeftFor, Types, SeminarTypes
<1> HIDE DEF taken
<1>3. Cardinality(taken \cup crossing) <= Cardinality(taken \ crossing) + Cardinality(crossing)
  BY <1>1, Together
<1>4. /\ Cardinality(HeldSet \cup crossing) <= Cardinality(taken \cup crossing)
      /\ Cardinality(Covered \cup crossing) <= Cardinality(taken \cup crossing)
      /\ Cardinality(HeldSet \cup crossing) \in Nat /\ Cardinality(Covered \cup crossing) \in Nat
      /\ Cardinality(taken \cup crossing) \in Nat
  <2>1. /\ taken \cup crossing \in SUBSET Rows
        /\ HeldSet \cup crossing \in SUBSET (taken \cup crossing)
        /\ Covered \cup crossing \in SUBSET (taken \cup crossing)
    BY <1>1
  <2> QED
    BY <2>1, FewerRows
<1>5. Cardinality(taken \ crossing) \in Nat /\ Cardinality(crossing) \in Nat
  BY <1>1, FewerRows
<1> QED
  BY <1>2, <1>3, <1>4, <1>5

\* A payment decided: what it would cover is covered already, or fits.
LEMMA PaymentDecided ==
    ASSUME IInv, UNCHANGED <<seminar, row, world>>, SeminarFree, NEW c \in Calls,
           NEW fields \in CallTypes, Go(c, fields), fields.at = "paying",
           LinesInv(c)', NEW crossing \in SUBSET Rows, Fit(crossing),
           Lands(c)' \subseteq Covered \cup crossing
    PROVE  IInv'
<1>1. /\ Types /\ call'[c] = fields /\ quota \in Nat
      /\ (Held > quota => "overbooked" \in history)
      /\ (Cardinality(Covered) > quota => "overfilled" \in history)
  BY GoTypes, NumbersAssumption DEF IInv, Types, SeminarTypes, PlacesInv, OnlyAnEditOverbooks, OnlyTheRateOverfills
<1>2. /\ "overbooked" \notin history => Cardinality(HeldSet \cup crossing) <= quota
      /\ "overfilled" \notin history => Cardinality(Covered \cup crossing) <= quota
  <2>1. CASE crossing = {}
    <3>1. HeldSet \cup crossing = HeldSet /\ Covered \cup crossing = Covered
      BY <2>1
    <3>2. Cardinality(HeldSet) \in Nat /\ Cardinality(Covered) \in Nat
      BY HeldRows, FewerRows
    <3> QED
      <4>1. Held = Cardinality(HeldSet)
        BY HeldRows
      <4>2. ASSUME "overbooked" \notin history
            PROVE  Cardinality(HeldSet) <= quota
        BY <1>1, <3>2, <4>1, <4>2
      <4>3. ASSUME "overfilled" \notin history
            PROVE  Cardinality(Covered) <= quota
        BY <1>1, <3>2, <4>3
      <4> QED
        BY <3>1, <4>2, <4>3
  <2>2. CASE crossing # {}
    BY <1>1, <2>2, FitNow DEF Fit
  <2> QED
    BY <2>1, <2>2
<1>3. /\ HeldSet' = HeldSet /\ Covered' = Covered /\ quota' = quota /\ history' = history
  BY DEF HeldSet, Covered, Reserved, IsCovered, IsReserved, Started, Active, seminar, world
<1>4. /\ HeldSet \cup crossing \in SUBSET Rows /\ Covered \cup crossing \in SUBSET Rows
      /\ HeldSet' \cup Lands(c)' \in SUBSET (HeldSet \cup crossing)
      /\ Covered' \cup Lands(c)' \in SUBSET (Covered \cup crossing)
  BY <1>3, HeldRows DEF HeldSet
<1>5. /\ Cardinality(HeldSet' \cup Lands(c)') <= Cardinality(HeldSet \cup crossing)
      /\ Cardinality(Covered' \cup Lands(c)') <= Cardinality(Covered \cup crossing)
      /\ Cardinality(HeldSet' \cup Lands(c)') \in Nat /\ Cardinality(HeldSet \cup crossing) \in Nat
      /\ Cardinality(Covered' \cup Lands(c)') \in Nat /\ Cardinality(Covered \cup crossing) \in Nat
  BY <1>4, FewerRows
<1>6. FitsInv(c)'
  BY <1>1, <1>2, <1>3, <1>5 DEF FitsInv
<1>7. CallInv(c)'
  BY <1>1, <1>6 DEF CallInv, RegisterInv, PayInv, EditInv
<1> QED
  BY <1>7, Decision

-----------------------------------------------------------------------------
\* REGISTRATION

LEMMA ReadRegistrationStep ==
    ASSUME IInv, NEW c \in Calls, NEW now \in 0 .. clock, NEW p \in People, ReadRegistration(c, now, p)
    PROVE  IInv'
<1> DEFINE fields == [call[c] EXCEPT !.at = "registering", !.person = p, !.knew = linked,
                                     !.until = GrantedUntil(now)]
<1>1. /\ Types /\ call[c] \in CallTypes /\ call[c].at = "idle" /\ call[c].lines = <<>> /\ SeminarFree
      /\ UNCHANGED <<seminar, row, world>> /\ Go(c, fields) /\ ~LinkedRefusal(p)
  BY DEF ReadRegistration, IInv, Types, CallsTypes, PlacesInv, LinesArePaid
<1>2. /\ clock \in Nat /\ now \in Nat /\ now <= clock /\ start \in Nat /\ quota \in Nat /\ Hold \in Nat
      /\ linked \in BOOLEAN
  BY <1>1, NumbersAssumption DEF Types, SeminarTypes, WorldTypes
<1>3. GrantedUntil(now) \in Nat
  BY <1>2 DEF GrantedUntil, Earliest
<1>4. /\ fields \in CallTypes /\ fields.at = "registering" /\ fields.person = p /\ fields.lines = <<>>
      /\ fields.knew = linked /\ fields.until = GrantedUntil(now)
  BY <1>1, <1>2, <1>3 DEF CallTypes, Holding
<1> HIDE DEF fields
<1>5. call'[c] = fields
  BY <1>1, <1>4, GoTypes DEF Types
<1>6. ASSUME clock < GrantedUntil(now)
      PROVE  Held < quota
  <2>1. PlacesLeftFor({}, now) > 0
    BY <1>2, <1>6 DEF GrantedUntil
  <2>2. Cardinality((Covered \cup Reserved(now)) \ {}) < quota
    <3>1. Cardinality((Covered \cup Reserved(now)) \ {}) \in Nat
      BY FewerRows, HeldRows, <1>2
    <3> QED
      BY <1>2, <2>1, <3>1 DEF PlacesLeftFor
  <2>3. (Covered \cup Reserved(now)) \ {} = Covered \cup Reserved(now)
    OBVIOUS
  <2>4. Covered \cup Reserved(now) \in SUBSET Rows /\ HeldSet \in SUBSET (Covered \cup Reserved(now))
    BY <1>1, <1>2, HeldRows, HeldEarlier
  <2>5. /\ Cardinality(HeldSet) <= Cardinality(Covered \cup Reserved(now))
        /\ Cardinality(HeldSet) \in Nat /\ Cardinality(Covered \cup Reserved(now)) \in Nat
    BY <2>4, FewerRows
  <2> QED
    BY <1>2, <2>2, <2>3, <2>5, HeldRows
<1>7. Held' = Held /\ clock' = clock /\ quota' = quota /\ history' = history
  BY <1>1 DEF Held, Covered, Reserved, IsCovered, IsReserved, Started, Active, seminar, world
<1>8. RegisterInv(c)'
  <2>1. linked => ~\E other \in People : Alike(p, other) /\ IsRegistered(other)
    BY <1>1 DEF LinkedRefusal
  <2>2. \A other \in People : IsRegistered(other)' <=> IsRegistered(other)
    BY <1>1 DEF IsRegistered, Active
  <2> QED
    BY <1>4, <1>5, <1>6, <1>7, <2>1, <2>2 DEF RegisterInv, Alike
<1>9. CallInv(c)'
  BY <1>4, <1>5, <1>8 DEF CallInv, PayInv, EditInv
<1> QED
  BY <1>1, <1>4, <1>9, Decision

LEMMA InsertStep ==
    ASSUME IInv, NEW c \in Calls, Insert(c)
    PROVE  IInv'
<1> DEFINE new == [NoRow EXCEPT !.person = call[c].person, !.until = call[c].until]
<1>1. PICK r \in Rows : row[r] = NoRow /\ row' = [row EXCEPT ![r] = new]
  BY DEF Insert
<1>2. /\ Types /\ call[c].at = "registering" /\ call[c].person \in People /\ call[c].until \in Nat
      /\ RegisterInv(c) /\ End(c) /\ UNCHANGED <<seminar, world>>
      /\ OnlyAnEditOverbooks /\ OnlyTheRateOverfills
  BY DEF Insert, IInv, Types, CallsTypes, CallTypes, PlacesInv, CallInv
<1>3. /\ new \in Inscriptions /\ new.price = None /\ new.until = call[c].until
  BY <1>2 DEF NoRow, Inscriptions
<1> HIDE DEF new
<1>4. /\ row \in [Rows -> Inscriptions \cup {NoRow, Withdrawn}] /\ row'[r] = new
      /\ \A q \in Rows \ {r} : row'[q] = row[q]
      /\ RowTypes' /\ SeminarTypes' /\ WorldTypes'
  BY <1>1, <1>2, <1>3 DEF Types, RowTypes, SeminarTypes, WorldTypes, seminar, world
<1>5. /\ quota \in Nat /\ quota' = quota /\ history' = history /\ clock' = clock /\ clock \in Nat
      /\ rate' = rate /\ start' = start
  BY <1>2, NumbersAssumption DEF Types, SeminarTypes, WorldTypes, seminar, world
<1>6. /\ Covered' \subseteq Covered /\ HeldSet' \subseteq HeldSet \cup {r}
      /\ ~(clock < call[c].until) => HeldSet' \subseteq HeldSet
  <2>1. ~IsCovered(r)' /\ ~Active(r)
    BY <1>1, <1>3, <1>4 DEF IsCovered, Crossed, Active
  <2>2. ASSUME NEW q \in Rows \ {r}
        PROVE  /\ IsCovered(q)' <=> IsCovered(q)
               /\ IsReserved(q, clock)' <=> IsReserved(q, clock)
    BY <1>4, <1>5 DEF IsCovered, IsReserved, Active, Started
  <2>3. IsReserved(r, clock)' => clock < call[c].until
    BY <1>3, <1>4, <1>5 DEF IsReserved
  <2> QED
    BY <2>1, <2>2, <2>3 DEF HeldSet, Covered, Reserved
<1>7. /\ Cardinality(Covered') <= Cardinality(Covered) /\ Cardinality(HeldSet \cup {r}) <= Cardinality(HeldSet) + 1
      /\ Cardinality(HeldSet') <= Cardinality(HeldSet \cup {r})
      /\ ~(clock < call[c].until) => Cardinality(HeldSet') <= Cardinality(HeldSet)
      /\ Cardinality(Covered) \in Nat /\ Cardinality(HeldSet) \in Nat
      /\ Cardinality(Covered') \in Nat /\ Cardinality(HeldSet') \in Nat
      /\ Cardinality(HeldSet \cup {r}) \in Nat
  <2>1. HeldSet \in SUBSET Rows /\ Covered \in SUBSET Rows /\ HeldSet \cup {r} \in SUBSET Rows
    BY HeldRows
  <2> QED
    BY <1>6, <2>1, FewerRows, OneMore
<1>8. Held = Cardinality(HeldSet) /\ Held' = Cardinality(HeldSet')
  BY DEF Held, HeldSet
<1>9. OnlyAnEditOverbooks' /\ OnlyTheRateOverfills'
  BY <1>2, <1>5, <1>7, <1>8 DEF OnlyAnEditOverbooks, OnlyTheRateOverfills, RegisterInv
<1> QED
  BY <1>2, <1>4, <1>9, Write DEF Holding

-----------------------------------------------------------------------------
\* MONEY

LEMMA ReadAllocationStep ==
    ASSUME IInv, NEW c \in Calls, NEW r \in Rows, NEW pick \in Prices \cup {None},
           NEW money \in 1 .. MaxAmount, ReadAllocation(c, r, pick, money)
    PROVE  IInv'
<1>1. PICK price \in PricedFor(r, pick), today \in Candidates(r) :
        /\ IsCovered(r) \/ ~Crossed(row[r].allocated + money, price, rate) \/ Fit({r})
        /\ Go(c, [call[c] EXCEPT !.at = "paying",
                                 !.lines = [q \in {r} |-> [price |-> price, adds |-> money]]])
  BY DEF ReadAllocation
<1> DEFINE lines == [q \in {r} |-> [price |-> price, adds |-> money]]
           fields == [call[c] EXCEPT !.at = "paying", !.lines = lines]
<1>2. /\ Types /\ call[c] \in CallTypes /\ SeminarFree /\ Active(r) /\ UNCHANGED <<seminar, row, world>>
      /\ Go(c, fields) /\ money \in Nat
  BY <1>1, NumbersAssumption DEF ReadAllocation, IInv, Types, CallsTypes
<1>3. price \in Prices /\ (IsCovered(r) => price = row[r].price)
  <2>1. CASE IsCovered(r)
    <3>1. price = row[r].price /\ row[r].price \in Prices \cup {None} /\ row[r].price # None
      BY <1>2, <2>1, RowShape DEF PricedFor, IsCovered, Crossed, Types
    <3> QED
      BY <3>1
  <2>2. CASE ~IsCovered(r)
    <3>1. price \in Candidates(r)
      BY <1>1, <2>2 DEF PricedFor
    <3> QED
      BY <2>2, <3>1 DEF Candidates
  <2> QED
    BY <2>1, <2>2
<1>4. lines \in [{r} -> [price : Prices, adds : Nat]]
  BY <1>2, <1>3
<1>5. lines \in PaidLines
  BY <1>4, Zenon DEF PaidLines
<1>6. DOMAIN lines = {r} /\ lines[r].price = price /\ lines[r].adds = money
  OBVIOUS
<1> HIDE DEF lines
<1>7. fields \in CallTypes /\ fields.at = "paying" /\ fields.lines = lines
  BY <1>2, <1>5 DEF CallTypes, Holding
<1> HIDE DEF fields
<1>8. call'[c] = fields
  BY <1>2, <1>7, GoTypes DEF Types
<1>9. /\ IsCovered(r)' <=> IsCovered(r)
      /\ Active(r)' /\ row' = row /\ rate' = rate
  BY <1>2 DEF IsCovered, Active, seminar
<1>10. LinesInv(c)'
  BY <1>3, <1>6, <1>7, <1>8, <1>9 DEF LinesInv
<1>11. Lands(c)' \subseteq {r} /\ (Lands(c)' # {} => Crossed(row[r].allocated + money, price, rate))
  BY <1>6, <1>7, <1>8, <1>9 DEF Lands
<1>12. PICK crossing \in SUBSET Rows : Fit(crossing) /\ Lands(c)' \subseteq Covered \cup crossing
  <2>1. CASE IsCovered(r)
    <3>1. Fit({}) /\ Lands(c)' \subseteq Covered \cup {} /\ {} \in SUBSET Rows
      BY <1>11, <2>1 DEF Fit, Covered
    <3> QED
      BY <3>1
  <2>2. CASE ~Crossed(row[r].allocated + money, price, rate)
    <3>1. Fit({}) /\ Lands(c)' \subseteq Covered \cup {} /\ {} \in SUBSET Rows
      BY <1>11, <2>2 DEF Fit
    <3> QED
      BY <3>1
  <2>3. CASE Fit({r})
    <3>1. Fit({r}) /\ Lands(c)' \subseteq Covered \cup {r} /\ {r} \in SUBSET Rows
      BY <1>11, <2>3
    <3> QED
      BY <3>1
  <2> QED
    BY <1>1, <2>1, <2>2, <2>3
<1> QED
  BY <1>2, <1>7, <1>10, <1>12, PaymentDecided

LEMMA ReadChargeStep ==
    ASSUME IInv, NEW c \in Calls, NEW roster \in Rosters, NEW stage \in {"deposit", "balance"},
           ReadCharge(c, roster, stage)
    PROVE  IInv'
<1>1. PICK today \in InEffect :
        LET active == {r \in Rows : Active(r) /\ row[r].person \in roster}
            price == [r \in active |-> Charged(r, today[Participating(row[r].person)])]
            crossing == {r \in active : Crosses(r, price[r], stage)}
            reached == {r \in active : Charge(r, price[r], stage) > 0} \cup crossing
        IN  /\ Fit(crossing)
            /\ Go(c, [call[c] EXCEPT !.at = "paying",
                        !.lines = [r \in reached |->
                            [price |-> price[r], adds |-> Charge(r, price[r], stage)]]])
  BY DEF ReadCharge
<1> DEFINE active == {r \in Rows : Active(r) /\ row[r].person \in roster}
           price == [r \in active |-> Charged(r, today[Participating(row[r].person)])]
           crossing == {r \in active : Crosses(r, price[r], stage)}
           reached == {r \in active : Charge(r, price[r], stage) > 0} \cup crossing
           lines == [r \in reached |-> [price |-> price[r], adds |-> Charge(r, price[r], stage)]]
           fields == [call[c] EXCEPT !.at = "paying", !.lines = lines]
<1>2. /\ Types /\ call[c] \in CallTypes /\ SeminarFree /\ UNCHANGED <<seminar, row, world>>
      /\ Go(c, fields) /\ Fit(crossing)
  BY <1>1 DEF ReadCharge, IInv, Types, CallsTypes
<1>3. ASSUME NEW r \in active
      PROVE  /\ r \in Rows /\ Active(r) /\ price[r] \in Prices
             /\ IsCovered(r) => price[r] = row[r].price
             /\ Charge(r, price[r], stage) \in Nat
  <2>1. price[r] = Charged(r, today[Participating(row[r].person)])
    OBVIOUS
  <2>2. today[Participating(row[r].person)] \in Prices
    <3>1. today \in [BOOLEAN -> Prices]
      BY <1>1 DEF InEffect
    <3>2. Participating(row[r].person) \in BOOLEAN
      BY DEF Participating
    <3> QED
      BY <3>1, <3>2
  <2>3. IsCovered(r) => row[r].price # None
    BY DEF IsCovered, Crossed
  <2>4. price[r] \in Prices /\ (IsCovered(r) => price[r] = row[r].price)
    BY <1>2, <2>1, <2>2, <2>3, RowShape DEF Charged, Types
  <2>5. Charge(r, price[r], stage) \in Nat
    <3>1. /\ Deposit(price[r], rate) \in Int /\ row[r].allocated \in Nat /\ price[r][1] \in Nat
      BY <1>2, <2>4, DepositIsANumber, RowShape, PricesAssumption DEF Types, SeminarTypes
    <3> QED
      BY <3>1 DEF Charge, ToDeposit, AtLeastZero
  <2> QED
    BY <2>4, <2>5
<1>4. reached \subseteq active /\ active \subseteq Rows /\ crossing \in SUBSET Rows
  OBVIOUS
<1>5. \A r \in active : r \notin crossing /\ Crossed(row[r].allocated + Charge(r, price[r], stage), price[r], rate)
                         => IsCovered(r)
  BY DEF Crosses
<1>6. lines \in [reached -> [price : Prices, adds : Nat]] /\ reached \in SUBSET Rows
  BY <1>3, <1>4
<1>7. lines \in PaidLines
  BY <1>6, Zenon DEF PaidLines
<1>8. DOMAIN lines = reached /\ \A r \in reached : lines[r].price = price[r] /\ lines[r].adds = Charge(r, price[r], stage)
  OBVIOUS
<1> HIDE DEF lines, reached, crossing, price, active
<1>9. fields \in CallTypes /\ fields.at = "paying" /\ fields.lines = lines
  BY <1>2, <1>7 DEF CallTypes, Holding
<1> HIDE DEF fields
<1>10. call'[c] = fields
  BY <1>2, <1>9, GoTypes DEF Types
<1>11. \A r \in Rows : /\ IsCovered(r)' <=> IsCovered(r)
                       /\ Active(r)' <=> Active(r)
  BY <1>2 DEF IsCovered, Active, seminar
<1>12. LinesInv(c)'
  BY <1>2, <1>3, <1>4, <1>8, <1>9, <1>10, <1>11 DEF LinesInv
<1>13. Lands(c)' \subseteq Covered \cup crossing
  <2> SUFFICES ASSUME NEW r \in Lands(c)', r \notin crossing
               PROVE  r \in Covered
    OBVIOUS
  <2>1. r \in reached /\ Crossed(row[r].allocated + Charge(r, price[r], stage), price[r], rate)
    BY <1>2, <1>8, <1>9, <1>10 DEF Lands, seminar
  <2> QED
    BY <1>3, <1>4, <1>5, <2>1 DEF Covered
<1> QED
  BY <1>2, <1>4, <1>9, <1>12, <1>13, PaymentDecided

LEMMA PayStep ==
    ASSUME IInv, NEW c \in Calls, Pay(c)
    PROVE  IInv'
<1> DEFINE lines == call[c].lines
<1>1. /\ Types /\ call[c].at = "paying" /\ End(c) /\ UNCHANGED <<seminar, world>>
      /\ LinesInv(c) /\ FitsInv(c) /\ LineTypes(lines)
      /\ row' = [r \in Rows |->
                   IF r \in DOMAIN lines
                   THEN [row[r] EXCEPT !.price = lines[r].price, !.allocated = row[r].allocated + lines[r].adds]
                   ELSE row[r]]
  BY LineShape DEF Pay, IInv, Types, PlacesInv, CallInv, PayInv
<1>2. ASSUME NEW r \in Rows, r \in DOMAIN lines
      PROVE  /\ row'[r] \in Inscriptions /\ row'[r].price = lines[r].price /\ row'[r].until = row[r].until
             /\ row'[r].allocated = row[r].allocated + lines[r].adds /\ Active(r)
  <2>1. Active(r) /\ row[r] \in Inscriptions
    BY <1>1, <1>2, RowShape DEF LinesInv, Types
  <2>2. lines[r].price \in Prices /\ lines[r].adds \in Nat
    BY <1>1, <1>2 DEF LineTypes
  <2>3. row'[r] = [row[r] EXCEPT !.price = lines[r].price, !.allocated = row[r].allocated + lines[r].adds]
    BY <1>1, <1>2
  <2>4. row[r].allocated \in Nat
    BY <1>1, RowShape DEF Types
  <2> DEFINE more == lines[r].adds
             price == lines[r].price
             before == row[r]
             after == row'[r]
  <2>5. /\ before \in Inscriptions /\ price \in Prices /\ more \in Nat /\ before.allocated \in Nat
        /\ after = [before EXCEPT !.price = price, !.allocated = before.allocated + more]
    BY <2>1, <2>2, <2>3, <2>4
  <2> HIDE DEF more, price, before, after
  <2>6. before.allocated + more \in Nat
    BY <2>5
  <2>7. /\ after \in Inscriptions /\ after.price = price /\ after.until = before.until
        /\ after.allocated = before.allocated + more
    BY <2>5, <2>6 DEF Inscriptions
  <2> QED
    BY <2>1, <2>7 DEF more, price, before, after
<1>3. \A r \in Rows : r \notin DOMAIN lines => row'[r] = row[r]
  BY <1>1
<1>4. RowTypes'
  <2>1. \A r \in Rows : row'[r] \in Inscriptions \cup {NoRow, Withdrawn}
    BY <1>1, <1>2, <1>3 DEF Types, RowTypes
  <2>2. DOMAIN row' = Rows /\ row' = [r \in Rows |-> row'[r]]
    BY <1>1
  <2> QED
    BY <2>1, <2>2 DEF RowTypes
<1>5. SeminarTypes' /\ WorldTypes'
  BY <1>1 DEF Types, SeminarTypes, WorldTypes, seminar, world
<1>6. /\ quota \in Nat /\ quota' = quota /\ history' = history /\ clock' = clock
      /\ rate' = rate /\ start' = start
  BY <1>1, NumbersAssumption DEF Types, SeminarTypes, seminar, world
<1>7. Covered' \subseteq Covered \cup Lands(c) /\ HeldSet' \subseteq HeldSet \cup Lands(c)
  <2>1. ASSUME NEW r \in Rows, IsCovered(r)'
        PROVE  r \in Covered \cup Lands(c)
    <3>1. CASE r \in DOMAIN lines
      BY <1>2, <1>6, <2>1, <3>1 DEF IsCovered, Lands
    <3>2. CASE r \notin DOMAIN lines
      BY <1>3, <1>6, <2>1, <3>2 DEF IsCovered, Covered, Active
    <3> QED
      BY <3>1, <3>2
  <2>2. ASSUME NEW r \in Rows, IsReserved(r, clock)', ~IsCovered(r)
        PROVE  IsReserved(r, clock)
    <3>1. Active(r) /\ row'[r].until = row[r].until
      BY <1>2, <1>3, <2>2 DEF IsReserved, Active
    <3> QED
      BY <1>6, <2>2, <3>1 DEF IsReserved, Started
  <2> QED
    BY <2>1, <2>2 DEF HeldSet, Covered, Reserved
<1>8. /\ HeldSet \cup Lands(c) \in SUBSET Rows /\ Covered \cup Lands(c) \in SUBSET Rows
      /\ HeldSet' \in SUBSET (HeldSet \cup Lands(c)) /\ Covered' \in SUBSET (Covered \cup Lands(c))
  BY <1>1, <1>7, HeldRows, LandsAreRows DEF Types
<1>9. /\ Cardinality(HeldSet') <= Cardinality(HeldSet \cup Lands(c))
      /\ Cardinality(Covered') <= Cardinality(Covered \cup Lands(c))
      /\ Cardinality(HeldSet') \in Nat /\ Cardinality(HeldSet \cup Lands(c)) \in Nat
      /\ Cardinality(Covered') \in Nat /\ Cardinality(Covered \cup Lands(c)) \in Nat
  BY <1>8, FewerRows
<1>10. Held' = Cardinality(HeldSet')
  BY DEF Held, HeldSet
<1> HIDE DEF lines
<1>11. FitsInv(c)
  BY <1>1
<1>12. OnlyAnEditOverbooks' /\ OnlyTheRateOverfills'
  BY <1>6, <1>9, <1>10, <1>11 DEF OnlyAnEditOverbooks, OnlyTheRateOverfills, FitsInv
<1> QED
  BY <1>1, <1>4, <1>5, <1>12, Write DEF Holding

-----------------------------------------------------------------------------
\* THE SEMINAR

LEMMA ReadEditStep ==
    ASSUME IInv, NEW c \in Calls, NEW plan \in Plans, ReadEdit(c, plan)
    PROVE  IInv'
<1> DEFINE fields == [call[c] EXCEPT !.at = "editing", !.plan = plan]
<1>1. /\ Types /\ call[c] \in CallTypes /\ call[c].lines = <<>> /\ SeminarFree
      /\ UNCHANGED <<seminar, row, world>> /\ Go(c, fields) /\ EditAllowed(plan)
  BY DEF ReadEdit, IInv, Types, CallsTypes, PlacesInv, LinesArePaid
<1>2. fields \in CallTypes /\ fields.at = "editing" /\ fields.plan = plan /\ fields.lines = <<>>
  BY <1>1 DEF CallTypes, Holding
<1> HIDE DEF fields
<1>3. call'[c] = fields
  BY <1>1, <1>2, GoTypes DEF Types
<1>4. Covered' = Covered /\ rate' = rate
  BY <1>1 DEF Covered, IsCovered, Active, seminar
<1>5. Cardinality(Covered) \in Nat /\ plan.quota \in Nat
  BY HeldRows, FewerRows, NumbersAssumption DEF Plans
<1>6. CallInv(c)'
  BY <1>1, <1>2, <1>3, <1>4, <1>5 DEF CallInv, RegisterInv, PayInv, EditInv, EditAllowed
<1> QED
  BY <1>1, <1>2, <1>6, Decision

LEMMA WriteEditStep ==
    ASSUME IInv, NEW c \in Calls, WriteEdit(c)
    PROVE  IInv'
<1>1. /\ Types /\ call[c].at = "editing" /\ call[c].plan \in Plans /\ EditInv(c) /\ End(c)
      /\ UNCHANGED <<open, row, world>>
      /\ quota' = call[c].plan.quota /\ rate' = call[c].plan.rate /\ start' = call[c].plan.start
      /\ history \subseteq history'
      /\ Held' > quota' => "overbooked" \in history'
      /\ Cardinality(Covered)' > quota' /\ rate' # rate => "overfilled" \in history'
      /\ history' \subseteq history \cup {"overbooked", "overfilled"}
  BY DEF WriteEdit, IInv, Types, CallsTypes, PlacesInv, CallInv
<1>2. SeminarTypes' /\ WorldTypes' /\ RowTypes'
  BY <1>1 DEF Types, SeminarTypes, WorldTypes, RowTypes, world, Plans
<1>3. rate' = rate => Covered' = Covered
  BY <1>1 DEF Covered, IsCovered, Active
<1>4. OnlyTheRateOverfills'
  <2>1. Cardinality(Covered) \in Nat /\ call[c].plan.quota \in Nat
    BY <1>1, HeldRows, FewerRows, NumbersAssumption DEF Plans
  <2> QED
    BY <1>1, <1>3, <2>1 DEF OnlyTheRateOverfills, EditInv
<1>5. OnlyAnEditOverbooks'
  BY <1>1 DEF OnlyAnEditOverbooks
<1> QED
  BY <1>1, <1>2, <1>4, <1>5, Write DEF Holding

LEMMA ReadDeleteStep ==
    ASSUME IInv, NEW c \in Calls, ReadDelete(c)
    PROVE  IInv'
<1> DEFINE fields == [call[c] EXCEPT !.at = "deleting"]
<1>1. /\ Types /\ call[c] \in CallTypes /\ call[c].lines = <<>> /\ SeminarFree
      /\ UNCHANGED <<seminar, row, world>> /\ Go(c, fields)
  BY DEF ReadDelete, IInv, Types, CallsTypes, PlacesInv, LinesArePaid
<1>2. fields \in CallTypes /\ fields.at = "deleting" /\ fields.lines = <<>>
  BY <1>1 DEF CallTypes, Holding
<1> HIDE DEF fields
<1>3. call'[c] = fields
  BY <1>1, <1>2, GoTypes DEF Types
<1>4. CallInv(c)'
  BY <1>2, <1>3 DEF CallInv, RegisterInv, PayInv, EditInv
<1> QED
  BY <1>1, <1>2, <1>4, Decision

LEMMA WriteDeleteStep ==
    ASSUME IInv, NEW c \in Calls, WriteDelete(c)
    PROVE  IInv'
<1>1. /\ Types /\ call[c].at = "deleting" /\ End(c) /\ open' = FALSE /\ row' = [r \in Rows |-> NoRow]
      /\ UNCHANGED <<quota, rate, start, history, world>>
  BY DEF WriteDelete, IInv
<1>2. SeminarTypes' /\ WorldTypes' /\ RowTypes'
  BY <1>1 DEF Types, SeminarTypes, WorldTypes, RowTypes, world
<1>3. Covered' = {} /\ Held' = 0
  <2>1. \A r \in Rows : ~Active(r)'
    BY <1>1 DEF Active
  <2>2. Covered' = {} /\ Reserved(clock)' = {}
    BY <2>1 DEF Covered, Reserved, IsCovered, IsReserved
  <2> QED
    BY <2>2, FS_EmptySet DEF Held
<1>4. quota' \in Nat /\ Cardinality({}) = 0
  BY <1>1, NumbersAssumption, FS_EmptySet DEF Types, SeminarTypes
<1>5. OnlyTheRateOverfills' /\ OnlyAnEditOverbooks'
  BY <1>3, <1>4 DEF OnlyTheRateOverfills, OnlyAnEditOverbooks
<1> QED
  BY <1>1, <1>2, <1>5, Write DEF Holding

-----------------------------------------------------------------------------
\* THE THEOREMS

LEMMA Start == Init => IInv
<1> SUFFICES ASSUME Init
             PROVE  IInv
  OBVIOUS
<1>1. Types
  <2>1. SeminarTypes /\ RowTypes
    BY DEF Init, SeminarTypes, RowTypes
  <2>2. WorldTypes
    <3>1. 0 \in 0 .. MaxTime
      BY NumbersAssumption
    <3>2. clock = 0 /\ participates = {} /\ linked = FALSE
      BY DEF Init
    <3>3. linked \in BOOLEAN
      BY <3>2
    <3> QED
      BY <3>1, <3>2, <3>3 DEF WorldTypes
  <2>3. CallsTypes
    BY NoCallType DEF Init, CallsTypes
  <2> QED
    BY <2>1, <2>2, <2>3 DEF Types
<1>2. Covered = {} /\ Held = 0
  <2>1. \A r \in Rows : ~Active(r)
    BY DEF Init, Active
  <2>2. Covered = {} /\ Reserved(clock) = {}
    BY <2>1 DEF Covered, Reserved, IsCovered, IsReserved
  <2> QED
    BY <2>2, FS_EmptySet DEF Held
<1>3. quota \in Nat /\ Cardinality({}) = 0
  BY NumbersAssumption, FS_EmptySet DEF Init
<1>4. OnlyTheRateOverfills /\ OnlyAnEditOverbooks
  BY <1>2, <1>3 DEF OnlyTheRateOverfills, OnlyAnEditOverbooks
<1>5. \A c \in Calls : call[c].at = "idle" /\ call[c].lines = <<>>
  BY NoCallType DEF Init
<1> QED
  BY <1>1, <1>4, <1>5 DEF IInv, PlacesInv, Exclusive, LinesArePaid, Holding, CallInv, RegisterInv, PayInv, EditInv

LEMMA NextStep == ASSUME IInv, [Next]_vars PROVE IInv'
<1>1. CASE Next
  BY <1>1, AbandonStep, InsertStep, PayStep, WriteEditStep, ReadDeleteStep, WriteDeleteStep,
     ReadRegistrationStep, ReadAllocationStep, ReadChargeStep, ReadEditStep, FreeStep DEF Next
<1>2. CASE UNCHANGED vars
  <2>1. Types' /\ \A r \in Rows : RowLess(r)
    BY <1>2 DEF IInv, Types, SeminarTypes, WorldTypes, RowTypes, CallsTypes, RowLess, vars, seminar, world
  <2>2. UNCHANGED <<seminar, call>> /\ clock <= clock'
    BY <1>2, NumbersAssumption DEF vars, world, IInv, Types, WorldTypes
  <2> QED
    BY <2>1, <2>2, LessHeld
<1> QED
  BY <1>1, <1>2

\* The invariant holds in every state, however the calls and their steps interleave.
THEOREM Inductive == Spec => []IInv
BY Start, NextStep, PTL DEF Spec

\* Type correctness: a payment on its way names only rows that are there.
THEOREM TypeCorrect == Spec => []TypeOK
<1>1. ASSUME IInv
      PROVE  TypeOK
  <2>1. Types /\ \A c \in Calls : CallInv(c) /\ LineTypes(call[c].lines)
    BY <1>1, LineShape DEF IInv, PlacesInv, Types
  <2>2. ASSUME NEW c \in Calls
        PROVE  /\ call[c].at \in {"idle"} \cup Holding
               /\ call[c].at = "registering" => call[c].person \in People
               /\ call[c].at = "paying" =>
                    /\ DOMAIN call[c].lines \subseteq {r \in Rows : row[r] # NoRow}
                    /\ \A r \in DOMAIN call[c].lines : call[c].lines[r].price \in Prices
    BY <2>1 DEF Types, CallsTypes, CallTypes, CallInv, PayInv, LinesInv, LineTypes, Active
  <2> QED
    BY <2>1, <2>2 DEF TypeOK, Types, SeminarTypes, WorldTypes, RowTypes
<1> QED
  BY <1>1, Inductive, PTL

\* Only the seminar's own edit leaves more places held than it has
\* (grantSeminarReservation, checkSeminarCrossings).
THEOREM EditsAloneOverbook == Spec => []OnlyAnEditOverbooks
<1>1. IInv => OnlyAnEditOverbooks
  BY DEF IInv, PlacesInv
<1> QED
  BY <1>1, Inductive, PTL

\* Only an edit of the deposit rate leaves more deposits covered than the quota
\* (checkSeminarCrossings, checkSeminarQuota).
THEOREM RatesAloneOverfill == Spec => []OnlyTheRateOverfills
<1>1. IInv => OnlyTheRateOverfills
  BY DEF IInv, PlacesInv
<1> QED
  BY <1>1, Inductive, PTL

\* Nobody registers who is already in as the other half of a link that the call
\* read as confirmed (findLinkedPersonRefusal).
THEOREM NobodyIsRegisteredTwice == Spec => LinkedPersonOnce
<1>1. IInv => [\A c \in Calls :
                 call[c].at = "registering" /\ call[c].knew /\ row' # row /\ call'[c] = NoCall
                   => ~\E other \in People : Alike(call[c].person, other) /\ IsRegistered(other)]_vars
  BY DEF IInv, PlacesInv, CallInv, RegisterInv
<1> QED
  BY <1>1, Inductive, PTL DEF LinkedPersonOnce

\* Decisions and what comes to nothing change no row and no seminar.
LEMMA Unmoved ==
    ASSUME NEW c \in Calls,
           \/ Abandon(c) \/ ReadDelete(c)
           \/ \E now \in 0 .. clock, p \in People : ReadRegistration(c, now, p)
           \/ \E r \in Rows, pick \in Prices \cup {None}, money \in 1 .. MaxAmount :
                ReadAllocation(c, r, pick, money)
           \/ \E roster \in Rosters, stage \in {"deposit", "balance"} : ReadCharge(c, roster, stage)
           \/ \E plan \in Plans : ReadEdit(c, plan)
    PROVE  UNCHANGED <<seminar, row>>
<1>1. CASE Abandon(c) \/ ReadDelete(c)
  BY <1>1 DEF Abandon, ReadDelete
<1>2. CASE \E now \in 0 .. clock, p \in People : ReadRegistration(c, now, p)
  BY <1>2 DEF ReadRegistration
<1>3. CASE \E r \in Rows, pick \in Prices \cup {None}, money \in 1 .. MaxAmount :
                ReadAllocation(c, r, pick, money)
  BY <1>3 DEF ReadAllocation
<1>4. CASE \E roster \in Rosters, stage \in {"deposit", "balance"} : ReadCharge(c, roster, stage)
  BY <1>4 DEF ReadCharge
<1>5. CASE \E plan \in Plans : ReadEdit(c, plan)
  BY <1>5 DEF ReadEdit
<1> QED
  BY <1>1, <1>2, <1>3, <1>4, <1>5

\* A covered deposit keeps its place while it keeps its money (updateSeminar, and
\* the price fixed at the deposit).
THEOREM PlacesStay == Spec => PlaceKeptWithItsMoney
<1>1. ASSUME IInv, Next, NEW r \in Covered, Active(r)', row'[r].allocated >= row[r].allocated
      PROVE  IsCovered(r)'
  <2>1. /\ r \in Rows /\ IsCovered(r) /\ row[r].allocated \in Nat /\ row[r].price \in Prices \cup {None}
        /\ row'[r].allocated \in Nat /\ rate' \in Rates
    BY <1>1, RowShape, RowShapeAfter, NextStep DEF Covered, IInv, Types, SeminarTypes
  <2>2. rate' = rate
    <3>1. CASE \E c \in Calls : WriteEdit(c)
      BY <1>1, <3>1 DEF WriteEdit, IInv, PlacesInv, CallInv, EditInv
    <3> QED
      BY <1>1, <3>1, Unmoved DEF Next, Insert, Pay, WriteDelete, Remove, TakeMoney, DeletePayment, Tick,
         Link, Dance, seminar
  <2>3. row'[r].price = row[r].price
    <3>1. ASSUME NEW c \in Calls, Pay(c)
          PROVE  row'[r].price = row[r].price
      <4>1. row[r] \in Inscriptions /\ LinesInv(c)
        BY <1>1, <2>1, <3>1, RowShape DEF IsCovered, IInv, Types, PlacesInv, CallInv, PayInv, Pay
      <4>2. CASE r \in DOMAIN call[c].lines
        BY <2>1, <3>1, <4>1, <4>2 DEF Pay, LinesInv, Inscriptions
      <4>3. CASE r \notin DOMAIN call[c].lines
        BY <2>1, <3>1, <4>3 DEF Pay
      <4> QED
        BY <4>2, <4>3
    <3>2. ASSUME NEW c \in Calls, Insert(c)
          PROVE  row'[r].price = row[r].price
      BY <1>1, <2>1, <3>2 DEF Insert, IsCovered, Active, IInv, Types, RowTypes
    <3>3. ASSUME NEW q \in Rows, Remove(q)
          PROVE  row'[r].price = row[r].price
      BY <1>1, <2>1, <3>3 DEF Remove, Active, IInv, Types, RowTypes, NoRow, Withdrawn
    <3>4. ASSUME \/ DeletePayment
                 \/ \E q \in Rows, money \in 1 .. MaxAmount : TakeMoney(q, money)
          PROVE  row'[r].price = row[r].price
      <4>1. row[r] \in Inscriptions /\ row \in [Rows -> Inscriptions \cup {NoRow, Withdrawn}]
        BY <1>1, <2>1, RowShape DEF IsCovered, IInv, Types, RowTypes
      <4> QED
        BY <2>1, <3>4, <4>1 DEF DeletePayment, TakeMoney, Inscriptions
    <3>5. CASE \E c \in Calls : WriteDelete(c)
      BY <1>1, <2>1, <3>5 DEF WriteDelete, Active
    <3> QED
      BY <1>1, <3>1, <3>2, <3>3, <3>4, <3>5, Unmoved DEF Next, WriteEdit, Tick, Link, Dance, world
  <2>4. Crossed(row[r].allocated, row[r].price, rate)
    BY <2>1 DEF IsCovered
  <2>5. Crossed(row'[r].allocated, row[r].price, rate)
    BY <1>1, <2>1, <2>2, <2>4, MoreCrosses
  <2> QED
    BY <1>1, <2>2, <2>3, <2>5 DEF IsCovered
<1>2. IInv /\ [Next]_vars =>
        [\A r \in Covered : Active(r)' /\ row'[r].allocated >= row[r].allocated => IsCovered(r)']_vars
  BY <1>1
<1> QED
  BY <1>2, Inductive, PTL DEF Spec, PlaceKeptWithItsMoney
=============================================================================
