------------------------ MODULE ScheduleCapacityProofs ------------------------
(***************************************************************************)
(* Proofs about ScheduleCapacity: for any calls, choreographies, schedules *)
(* and plans, the types hold, no schedule is occupied above its total,     *)
(* nobody enters a full entry, and only a stale correction leaves a        *)
(* choreography where it is not accepted.                                  *)
(*                                                                         *)
(* A place is granted by the total and the entry of a schedule whose row   *)
(* is locked, and what is granted is counted with what is written: the     *)
(* choreographies on a schedule together with those on their way to it are *)
(* never more than it holds.                                               *)
(***************************************************************************)
EXTENDS ScheduleCapacity, TLAPS, FiniteSetTheorems

-----------------------------------------------------------------------------
\* THE INDUCTIVE INVARIANT

\* A place in an entry is a place on its schedule.
FitRows == {r \in Rows : r.slot \in {r.at, Null}}

\* What functions of choreographies a call keeps.
CastsOf(S) == UNION {[cast -> S] : cast \in SUBSET Choreographies}
CallTypes ==
    [at : Places, read : {<<>>} \cup CastsOf(FitRows), writes : {<<>>} \cup CastsOf(FitRows),
     next : {<<>>} \cup (Choreographies \X FitRows), held : SUBSET (Schedules \cup Choreographies),
     becomes : {<<>>} \cup CastsOf(Kinds), plan : {<<>>} \cup (Schedules \X Plans \X BOOLEAN),
     size : {<<>>} \cup (Schedules \X Capacities \X BOOLEAN)]

BaseTypes ==
    /\ total \in [Schedules -> Nat] /\ accepts \in [Schedules -> SUBSET Kinds]
    /\ entry \in [Schedules -> Nat]
RowTypes == row \in [Choreographies -> FitRows \cup {NoRow}]
CallsTypes == call \in [Calls -> CallTypes]
Types == BaseTypes /\ RowTypes /\ CallsTypes

\* The calls that have been granted places, which they hold until they write.
Granting(c) == call[c].at \in {"writing", "correcting", "asking"}
Coming(c, s) == {x \in Moves(c) : call[c].writes[x].at = s}
ComingIn(c, s) == {x \in Moves(c) : call[c].writes[x].slot = s}
Correcting(c) ==
    call[c].at \in {"correcting", "asking"} \/ (call[c].at = "writing" /\ call[c].becomes # <<>>)

LocksInv == \A c, d \in Calls : c # d => call[c].held \cap call[d].held = {}

\* What is granted is accepted and fits, together, with what is there.
AcceptInv(c) ==
    Granting(c) => \A x \in DOMAIN call[c].writes :
        /\ call[c].writes[x].at \in call[c].held
        /\ call[c].writes[x].kind \in accepts[call[c].writes[x].at]
RoomInv(c) ==
    Granting(c) => \A s \in Schedules :
        /\ Cardinality(On(s) \cup Coming(c, s)) <= total[s]
        /\ ComingIn(c, s) # {} => Cardinality(InEntry(s) \cup ComingIn(c, s)) <= entry[s]

\* A registration's choreography is nobody else's yet.
Fresh(c) ==
    {x \in DOMAIN call[c].writes \ DOMAIN call[c].read :
        call[c].at = "registering" \/ (call[c].at = "writing" /\ call[c].becomes = <<>>)}
FreshInv(c) ==
    \A x \in Fresh(c) :
        /\ row[x] = NoRow
        /\ \A d \in Calls \ {c} : x \notin DOMAIN call[d].read \cup DOMAIN call[d].writes

\* A save is of one choreography, which stays as it was read once it is locked.
SingleInv(c) ==
    /\ call[c].at = "registering" => /\ call[c].becomes = <<>> /\ call[c].read = <<>>
                                     /\ \A x, y \in DOMAIN call[c].writes : x = y
    /\ call[c].at \in {"saving", "placing"} =>
        /\ call[c].becomes = <<>> /\ DOMAIN call[c].writes = DOMAIN call[c].read
        /\ \A x, y \in DOMAIN call[c].read : x = y
DraftInv(c) ==
    call[c].at = "placing" \/ (call[c].at = "writing" /\ call[c].becomes = <<>>) =>
        \A x \in DOMAIN call[c].read : x \in call[c].held /\ row[x] = call[c].read[x]

\* A correction writes choreographies it read, and asks for a place where it
\* read the choreography only when that is the place it has.
CorrectionInv(c) ==
    /\ Correcting(c) => /\ DOMAIN call[c].read = DOMAIN call[c].becomes /\ call[c].becomes # <<>>
                        /\ DOMAIN call[c].writes \subseteq DOMAIN call[c].read
    /\ call[c].at = "asking" =>
        /\ call[c].next # <<>>
        /\ call[c].next[1] \in DOMAIN call[c].read \ DOMAIN call[c].writes
        /\ call[c].next[2].at = call[c].read[call[c].next[1]].at
             => call[c].next[2].slot = call[c].read[call[c].next[1]].slot

\* Who waits to edit has what it is to write; who does nothing has nothing.
WaitInv(c) ==
    /\ call[c].at = "idle" => call[c] = NoCall
    /\ call[c].at = "editing" => call[c].plan # <<>>
    /\ call[c].at = "sizing" => call[c].size # <<>>

CallInv(c) == /\ AcceptInv(c) /\ RoomInv(c) /\ FreshInv(c) /\ SingleInv(c)
              /\ DraftInv(c) /\ CorrectionInv(c) /\ WaitInv(c)
IInv == Types /\ TotalHoldsItsOccupants /\ LocksInv /\ \A c \in Calls : CallInv(c)

-----------------------------------------------------------------------------
\* FINITE SETS AND TYPES

\* The sets of choreographies below are finite, and a smaller one counts no more.
LEMMA Fewer ==
    ASSUME NEW S \in SUBSET Choreographies, NEW T \in SUBSET S
    PROVE  /\ IsFiniteSet(S) /\ Cardinality(T) \in Nat /\ Cardinality(S) \in Nat
           /\ Cardinality(T) <= Cardinality(S)
<1>1. IsFiniteSet(S)
  BY FS_Subset, ChoreographiesAssumption
<1> QED
  BY <1>1, FS_Subset, FS_CardinalityType

LEMMA Counted == \A S \in SUBSET Choreographies : IsFiniteSet(S) /\ Cardinality(S) \in Nat
BY Fewer

\* Those who are there, those granted a place, and one more.
LEMMA OneMore ==
    ASSUME NEW S \in SUBSET Choreographies, NEW T \in SUBSET Choreographies, NEW x \in Choreographies
    PROVE  Cardinality(S \cup T \cup {x}) <= Cardinality(S \ {x}) + Cardinality(T) + 1
<1> DEFINE A == S \ {x}
           R == (S \ {x}) \cup T
<1>1. /\ IsFiniteSet(A) /\ IsFiniteSet(T) /\ IsFiniteSet(R) /\ IsFiniteSet(A \cap T)
      /\ Cardinality(A) \in Nat /\ Cardinality(T) \in Nat /\ Cardinality(R) \in Nat
      /\ Cardinality(A \cap T) \in Nat
  <2>1. A \in SUBSET Choreographies /\ R \in SUBSET Choreographies /\ A \cap T \in SUBSET Choreographies
    OBVIOUS
  <2> QED
    BY <2>1, Counted
<1>2. S \cup T \cup {x} = R \cup {x} /\ R = A \cup T
  OBVIOUS
<1> HIDE DEF A, R
<1>3. Cardinality(R) = Cardinality(A) + Cardinality(T) - Cardinality(A \cap T)
  BY <1>1, <1>2, FS_Union
<1>4. Cardinality(R \cup {x}) <= Cardinality(R) + 1
  <2>1. CASE x \in R
    <3>1. R \cup {x} = R
      BY <2>1
    <3>2. Cardinality(R \cup {x}) = Cardinality(R)
      BY <3>1
    <3> QED
      BY <1>1, <3>2
  <2>2. CASE x \notin R
    <3>1. Cardinality(R \cup {x}) = Cardinality(R) + 1
      BY <1>1, <2>2, FS_AddElement
    <3> QED
      BY <1>1, <3>1
  <2> QED
    BY <2>1, <2>2
<1>5. Cardinality(R \cup {x}) \in Nat
  <2>1. R \cup {x} \in SUBSET Choreographies
    BY DEF R
  <2> QED
    BY <2>1, Counted
<1>6. Cardinality(R \cup {x}) <= Cardinality(A) + Cardinality(T) + 1
  BY <1>1, <1>3, <1>4, <1>5
<1> QED
  BY <1>2, <1>6 DEF A

LEMMA NoCast == DOMAIN <<>> = {}
OBVIOUS

LEMMA CastShape ==
    ASSUME NEW S, NEW f \in {<<>>} \cup CastsOf(S)
    PROVE  DOMAIN f \subseteq Choreographies /\ \A x \in DOMAIN f : f[x] \in S
<1>1. CASE f = <<>>
  BY <1>1, NoCast
<1>2. CASE f \in CastsOf(S)
  <2>1. PICK cast \in SUBSET Choreographies : f \in [cast -> S]
    BY <1>2, Zenon DEF CastsOf
  <2> QED
    BY <2>1
<1> QED
  BY <1>1, <1>2

LEMMA CastOf ==
    ASSUME NEW S, NEW cast \in SUBSET Choreographies, NEW f \in [cast -> S]
    PROVE  f \in CastsOf(S)
<1>1. [cast -> S] \in {[some -> S] : some \in SUBSET Choreographies}
  BY Zenon
<1> QED
  BY <1>1, Zenon DEF CastsOf

LEMMA NoCallType ==
    /\ NoCall \in CallTypes /\ NoCall.at = "idle" /\ NoCall.held = {} /\ NoCall.read = <<>>
    /\ NoCall.writes = <<>> /\ NoCall.becomes = <<>>
BY DEF NoCall, CallTypes, Places

LEMMA CallShape ==
    ASSUME CallsTypes, NEW c \in Calls
    PROVE  /\ call[c] \in CallTypes
           /\ DOMAIN call[c].read \subseteq Choreographies
           /\ DOMAIN call[c].writes \subseteq Choreographies
           /\ DOMAIN call[c].becomes \subseteq Choreographies
           /\ \A x \in DOMAIN call[c].read : call[c].read[x] \in FitRows
           /\ \A x \in DOMAIN call[c].writes : call[c].writes[x] \in FitRows
           /\ \A x \in DOMAIN call[c].becomes : call[c].becomes[x] \in Kinds
<1>1. /\ call[c] \in CallTypes /\ call[c].read \in {<<>>} \cup CastsOf(FitRows)
      /\ call[c].writes \in {<<>>} \cup CastsOf(FitRows) /\ call[c].becomes \in {<<>>} \cup CastsOf(Kinds)
  BY DEF CallsTypes, CallTypes
<1> QED
  BY <1>1, CastShape

LEMMA FitRow ==
    ASSUME NEW r \in FitRows
    PROVE  /\ r \in Rows /\ r.kind \in Kinds /\ r.at \in Schedules /\ r.slot \in {r.at, Null} /\ r # NoRow
           /\ r.at # Null
<1>1. r.kind \in Kinds /\ r.at \in Schedules
  BY DEF FitRows, Rows
<1>2. NoRow.kind = Null
  BY DEF NoRow
<1> QED
  BY <1>1, <1>2, NullAssumption DEF FitRows

LEMMA RowShape ==
    ASSUME RowTypes, NEW x \in Choreographies
    PROVE  /\ row[x] = NoRow \/ row[x] \in FitRows
           /\ Occupies(x) <=> row[x] \in FitRows
BY FitRow DEF RowTypes, Occupies

\* Who holds a place in an entry is on its schedule; who comes into it comes to it.
LEMMA EntryOnSchedule ==
    ASSUME Types, NEW s \in Schedules
    PROVE  /\ InEntry(s) \subseteq On(s) /\ On(s) \in SUBSET Choreographies /\ InEntry(s) \in SUBSET Choreographies
           /\ \A c \in Calls : /\ ComingIn(c, s) \subseteq Coming(c, s)
                               /\ Coming(c, s) \in SUBSET Choreographies
                               /\ Coming(c, s) \subseteq DOMAIN call[c].writes
<1>1. s # Null
  BY NullAssumption
<1>2. InEntry(s) \subseteq On(s) /\ On(s) \in SUBSET Choreographies /\ InEntry(s) \in SUBSET Choreographies
  BY <1>1, RowShape, FitRow DEF InEntry, On, Types
<1>3. ASSUME NEW c \in Calls
      PROVE  /\ ComingIn(c, s) \subseteq Coming(c, s)
             /\ Coming(c, s) \in SUBSET Choreographies
             /\ Coming(c, s) \subseteq DOMAIN call[c].writes
  <2>1. /\ DOMAIN call[c].writes \subseteq Choreographies
        /\ \A x \in DOMAIN call[c].writes : call[c].writes[x] \in FitRows
    BY CallShape DEF Types
  <2> QED
    BY <1>1, <2>1, FitRow DEF Coming, ComingIn, Moves
<1> QED
  BY <1>2, <1>3

LEMMA EntryOnScheduleAfter ==
    ASSUME RowTypes', NEW s \in Schedules
    PROVE  InEntry(s)' \subseteq On(s)'
<1>1. s # Null
  BY NullAssumption
<1>2. \A x \in Choreographies : Occupies(x)' => row'[x] \in FitRows
  BY DEF RowTypes, Occupies
<1> QED
  BY <1>1, <1>2, FitRow DEF InEntry, On

-----------------------------------------------------------------------------
\* KINDS OF STEP

LEMMA GoTypes ==
    ASSUME CallsTypes, NEW c \in Calls, NEW fields \in CallTypes, Go(c, fields)
    PROVE  /\ CallsTypes' /\ call'[c] = fields
           /\ \A d \in Calls \ {c} : call'[d] = call[d]
BY DEF CallsTypes, Go

\* What another call keeps is as it was, while the rows are.
LEMMA OthersStay ==
    ASSUME IInv, UNCHANGED <<bases, row>>, NEW c \in Calls, NEW d \in Calls \ {c},
           \A e \in Calls \ {c} : call'[e] = call[e],
           Fresh(d) \cap (DOMAIN call'[c].read \cup DOMAIN call'[c].writes) = {}
    PROVE  CallInv(d)'
<1>1. /\ CallInv(d) /\ call'[d] = call[d] /\ row' = row /\ accepts' = accepts /\ total' = total /\ entry' = entry
  BY DEF IInv, bases
<1>2. Moves(d)' = Moves(d)
  BY <1>1 DEF Moves
<1>3. \A s \in Schedules : /\ On(s)' = On(s) /\ InEntry(s)' = InEntry(s)
                           /\ Coming(d, s)' = Coming(d, s) /\ ComingIn(d, s)' = ComingIn(d, s)
  BY <1>1, <1>2 DEF On, InEntry, Occupies, Coming, ComingIn
<1>4. AcceptInv(d)' /\ RoomInv(d)'
  BY <1>1, <1>3 DEF CallInv, AcceptInv, RoomInv, Granting
<1>5. SingleInv(d)' /\ DraftInv(d)' /\ CorrectionInv(d)' /\ WaitInv(d)'
  BY <1>1 DEF CallInv, SingleInv, DraftInv, CorrectionInv, WaitInv, Correcting
<1>6. FreshInv(d)'
  BY <1>1 DEF CallInv, FreshInv, Fresh
<1> QED
  BY <1>4, <1>5, <1>6 DEF CallInv

\* A call reads, decides, locks or gives up.
LEMMA Decision ==
    ASSUME IInv, UNCHANGED <<bases, row>>, NEW c \in Calls, NEW fields \in CallTypes, Go(c, fields),
           \A d \in Calls \ {c} : fields.held \cap call[d].held = {},
           \A d \in Calls \ {c} : Fresh(d) \cap (DOMAIN fields.read \cup DOMAIN fields.writes) = {},
           CallInv(c)'
    PROVE  IInv'
<1>1. CallsTypes' /\ call'[c] = fields /\ \A d \in Calls \ {c} : call'[d] = call[d]
  BY GoTypes DEF IInv, Types
<1>2. Types'
  BY <1>1 DEF IInv, Types, BaseTypes, RowTypes, bases
<1>3. TotalHoldsItsOccupants'
  BY DEF IInv, TotalHoldsItsOccupants, On, InEntry, Occupies, bases
<1>4. LocksInv'
  <2> SUFFICES ASSUME NEW d \in Calls, NEW e \in Calls, d # e
               PROVE  call'[d].held \cap call'[e].held = {}
    BY DEF LocksInv
  <2>1. CASE d = c
    BY <1>1, <2>1
  <2>2. CASE e = c
    BY <1>1, <2>2
  <2>3. CASE d # c /\ e # c
    BY <1>1, <2>3 DEF IInv, LocksInv
  <2> QED
    BY <2>1, <2>2, <2>3
<1>5. \A d \in Calls \ {c} : CallInv(d)'
  BY <1>1, OthersStay
<1> QED
  BY <1>2, <1>3, <1>4, <1>5 DEF IInv

\* Rows written by a call that held places for them, or rows emptied.
LEMMA RowsWritten ==
    ASSUME IInv, UNCHANGED bases, RowTypes', CallsTypes', LocksInv', NEW D \in SUBSET Calls,
           \A d \in D : call'[d] = call[d], \A d \in Calls \ D : call'[d] = NoCall,
           \A s \in Schedules :
              /\ Cardinality(On(s)') <= total[s]
              /\ \A d \in D : Granting(d) /\ Coming(d, s) # {} =>
                    On(s)' \subseteq On(s) /\ InEntry(s)' \subseteq InEntry(s),
           \A x \in Choreographies :
              \/ row'[x] = row[x]
              \/ \A d \in D : x \notin call[d].held \cap DOMAIN call[d].read /\ (x \in Fresh(d) => row'[x] = NoRow)
    PROVE  IInv'
<1>1. Types'
  BY DEF IInv, Types, BaseTypes, bases
<1>2. /\ accepts' = accepts /\ total' = total /\ entry' = entry
      /\ total \in [Schedules -> Nat] /\ entry \in [Schedules -> Nat] /\ Types /\ RowTypes
  BY DEF bases, IInv, Types, BaseTypes
<1>3. TotalHoldsItsOccupants'
  <2> SUFFICES ASSUME NEW s \in Schedules
               PROVE  Cardinality(On(s)') <= total'[s] /\ InEntry(s)' \subseteq On(s)'
    BY DEF TotalHoldsItsOccupants
  <2>1. InEntry(s)' \subseteq On(s)'
    BY EntryOnScheduleAfter
  <2> QED
    BY <1>2, <2>1
<1>4. ASSUME NEW d \in D
      PROVE  CallInv(d)'
  <2>1. CallInv(d) /\ call'[d] = call[d] /\ d \in Calls
    BY DEF IInv
  <2>2. \A s \in Schedules : Coming(d, s)' = Coming(d, s) /\ ComingIn(d, s)' = ComingIn(d, s)
    BY <2>1 DEF Coming, ComingIn, Moves
  <2>3. RoomInv(d)'
    <3> SUFFICES ASSUME Granting(d), NEW s \in Schedules
                 PROVE  /\ Cardinality(On(s)' \cup Coming(d, s)) <= total[s]
                        /\ ComingIn(d, s) # {} => Cardinality(InEntry(s)' \cup ComingIn(d, s)) <= entry[s]
      BY <1>2, <2>1, <2>2 DEF RoomInv, Granting
    <3>1. /\ On(s) \in SUBSET Choreographies /\ InEntry(s) \in SUBSET Choreographies
          /\ ComingIn(d, s) \subseteq Coming(d, s) /\ Coming(d, s) \in SUBSET Choreographies
      BY <1>2, <2>1, EntryOnSchedule
    <3>2. CASE Coming(d, s) = {}
      <4>1. On(s)' \cup Coming(d, s) = On(s)' /\ ComingIn(d, s) = {}
        BY <3>1, <3>2
      <4> QED
        BY <4>1
    <3>3. CASE Coming(d, s) # {}
      <4>1. /\ On(s)' \cup Coming(d, s) \in SUBSET (On(s) \cup Coming(d, s))
            /\ InEntry(s)' \cup ComingIn(d, s) \in SUBSET (InEntry(s) \cup ComingIn(d, s))
            /\ On(s) \cup Coming(d, s) \in SUBSET Choreographies
            /\ InEntry(s) \cup ComingIn(d, s) \in SUBSET Choreographies
        BY <3>1, <3>3
      <4>2. /\ Cardinality(On(s)' \cup Coming(d, s)) <= Cardinality(On(s) \cup Coming(d, s))
            /\ Cardinality(InEntry(s)' \cup ComingIn(d, s)) <= Cardinality(InEntry(s) \cup ComingIn(d, s))
            /\ Cardinality(On(s)' \cup Coming(d, s)) \in Nat /\ Cardinality(On(s) \cup Coming(d, s)) \in Nat
            /\ Cardinality(InEntry(s)' \cup ComingIn(d, s)) \in Nat
            /\ Cardinality(InEntry(s) \cup ComingIn(d, s)) \in Nat
        BY <4>1, Fewer
      <4>3. /\ Cardinality(On(s) \cup Coming(d, s)) <= total[s]
            /\ ComingIn(d, s) # {} => Cardinality(InEntry(s) \cup ComingIn(d, s)) <= entry[s]
        BY <2>1 DEF CallInv, RoomInv
      <4>4. total[s] \in Nat /\ entry[s] \in Nat
        BY <1>2
      <4> QED
        BY <4>2, <4>3, <4>4
    <3> QED
      BY <3>2, <3>3
  <2>4. /\ DOMAIN call[d].read \subseteq Choreographies /\ DOMAIN call[d].writes \subseteq Choreographies
    BY <1>2, <2>1, CallShape DEF Types
  <2>5. FreshInv(d)'
    <3>1. \A e \in Calls : call'[e] = call[e] \/ call'[e] = NoCall
      OBVIOUS
    <3>2. DOMAIN NoCall.read = {} /\ DOMAIN NoCall.writes = {}
      BY NoCallType, NoCast
    <3> QED
      BY <2>1, <2>4, <3>1, <3>2 DEF CallInv, FreshInv, Fresh
  <2>6. DraftInv(d)'
    BY <2>1, <2>4 DEF CallInv, DraftInv
  <2>7. AcceptInv(d)' /\ SingleInv(d)' /\ CorrectionInv(d)' /\ WaitInv(d)'
    BY <1>2, <2>1 DEF CallInv, AcceptInv, SingleInv, CorrectionInv, WaitInv, Correcting, Granting
  <2> QED
    BY <2>3, <2>5, <2>6, <2>7 DEF CallInv
<1>5. ASSUME NEW d \in Calls \ D
      PROVE  CallInv(d)'
  BY NoCallType, NoCast DEF CallInv, AcceptInv, RoomInv, FreshInv, Fresh, SingleInv, DraftInv, CorrectionInv, WaitInv,
     Correcting, Granting
<1> QED
  BY <1>1, <1>3, <1>4, <1>5 DEF IInv

LEMMA Done ==
    ASSUME NEW c \in Calls, call'[c] = NoCall
    PROVE  CallInv(c)'
BY NoCallType, NoCast DEF CallInv, AcceptInv, RoomInv, FreshInv, Fresh, SingleInv, DraftInv, CorrectionInv,
   WaitInv, Correcting, Granting

LEMMA Idle ==
    ASSUME IInv, NEW c \in Calls, call[c].at = "idle"
    PROVE  call[c] = NoCall
BY DEF IInv, CallInv, WaitInv

LEMMA AbandonStep ==
    ASSUME IInv, NEW c \in Calls, Abandon(c)
    PROVE  IInv'
<1>1. UNCHANGED <<bases, row>> /\ Go(c, NoCall)
  BY DEF Abandon, End
<1>2. call'[c] = NoCall
  BY <1>1, GoTypes, NoCallType DEF IInv, Types
<1>3. /\ \A d \in Calls \ {c} : NoCall.held \cap call[d].held = {}
      /\ \A d \in Calls \ {c} : Fresh(d) \cap (DOMAIN NoCall.read \cup DOMAIN NoCall.writes) = {}
  BY NoCallType, NoCast
<1> QED
  BY <1>1, <1>2, <1>3, NoCallType, Done, Decision

\* Schedules and entries edited by a call that held no place, which leaves what
\* the others were granted alone.
LEMMA BasesEdited ==
    ASSUME IInv, NEW c \in Calls, End(c), row' = row, BaseTypes',
           \A s \in Schedules :
              /\ Cardinality(On(s)) <= total'[s]
              /\ \A d \in Calls \ {c} : s \in call[d].held =>
                    /\ accepts'[s] = accepts[s] /\ total'[s] = total[s]
                    /\ (\E x \in Moves(d) : call[d].writes[x].slot = s) => entry'[s] = entry[s]
    PROVE  IInv'
<1>1. CallsTypes' /\ call'[c] = NoCall /\ \A d \in Calls \ {c} : call'[d] = call[d]
  BY GoTypes, NoCallType DEF IInv, Types, End
<1>2. Types' /\ Types
  BY <1>1 DEF IInv, Types, RowTypes
<1>3. \A s \in Schedules : On(s)' = On(s) /\ InEntry(s)' = InEntry(s)
  BY DEF On, InEntry, Occupies
<1>4. TotalHoldsItsOccupants'
  BY <1>2, <1>3, EntryOnSchedule DEF TotalHoldsItsOccupants
<1>5. LocksInv'
  BY <1>1, NoCallType DEF IInv, LocksInv
<1>6. ASSUME NEW d \in Calls \ {c}
      PROVE  CallInv(d)'
  <2>1. CallInv(d) /\ call'[d] = call[d]
    BY <1>1 DEF IInv
  <2>2. \A s \in Schedules : Coming(d, s)' = Coming(d, s) /\ ComingIn(d, s)' = ComingIn(d, s)
    BY <2>1 DEF Coming, ComingIn, Moves
  <2>3. RoomInv(d)'
    <3> SUFFICES ASSUME Granting(d), NEW s \in Schedules
                 PROVE  /\ Cardinality(On(s) \cup Coming(d, s)) <= total'[s]
                        /\ ComingIn(d, s) # {} => Cardinality(InEntry(s) \cup ComingIn(d, s)) <= entry'[s]
      BY <1>3, <2>1, <2>2 DEF RoomInv, Granting
    <3>1. /\ Cardinality(On(s) \cup Coming(d, s)) <= total[s]
          /\ ComingIn(d, s) # {} => Cardinality(InEntry(s) \cup ComingIn(d, s)) <= entry[s]
      BY <2>1 DEF CallInv, RoomInv
    <3>2. ComingIn(d, s) \subseteq Coming(d, s) /\ Coming(d, s) \subseteq DOMAIN call[d].writes
      BY <1>2, EntryOnSchedule
    <3>3. CASE Coming(d, s) = {}
      <4>1. On(s) \cup Coming(d, s) = On(s) /\ ComingIn(d, s) = {}
        BY <3>2, <3>3
      <4> QED
        BY <4>1
    <3>4. CASE Coming(d, s) # {}
      <4>1. s \in call[d].held
        BY <2>1, <3>2, <3>4 DEF CallInv, AcceptInv, Coming
      <4>2. total'[s] = total[s] /\ (ComingIn(d, s) # {} => entry'[s] = entry[s])
        BY <4>1 DEF ComingIn
      <4> QED
        BY <3>1, <4>2
    <3> QED
      BY <3>3, <3>4
  <2>4. AcceptInv(d)'
    <3>1. \A x \in DOMAIN call[d].writes : call[d].writes[x].at \in Schedules
      BY <1>2, CallShape, FitRow DEF Types
    <3> QED
      BY <2>1, <3>1 DEF CallInv, AcceptInv, Granting
  <2>5. FreshInv(d)'
    <3>1. \A e \in Calls : call'[e] = call[e] \/ call'[e] = NoCall
      BY <1>1
    <3>2. DOMAIN NoCall.read = {} /\ DOMAIN NoCall.writes = {}
      BY NoCallType, NoCast
    <3> QED
      BY <2>1, <3>1, <3>2 DEF CallInv, FreshInv, Fresh
  <2>6. SingleInv(d)' /\ DraftInv(d)' /\ CorrectionInv(d)' /\ WaitInv(d)'
    BY <2>1 DEF CallInv, SingleInv, DraftInv, CorrectionInv, WaitInv, Correcting
  <2> QED
    BY <2>3, <2>4, <2>5, <2>6 DEF CallInv
<1> QED
  BY <1>1, <1>2, <1>4, <1>5, <1>6, Done DEF IInv

-----------------------------------------------------------------------------
\* ROOM

\* A place granted with those the call has been granted is one more of them.
LEMMA RoomForOne ==
    ASSUME Types, NEW x \in Choreographies, NEW place \in FitRows, NEW granted,
           DOMAIN granted \subseteq Choreographies, HasRoom(x, place, granted)
    PROVE  /\ \A T \in SUBSET ({y \in DOMAIN granted : granted[y].at = place.at} \cup {x}) :
                Cardinality(On(place.at) \cup T) <= total[place.at]
           /\ \A T \in SUBSET ({y \in DOMAIN granted : granted[y].slot = place.slot} \cup {x}) :
                place.slot # Null => Cardinality(InEntry(place.slot) \cup T) <= entry[place.slot]
<1> DEFINE to == {y \in DOMAIN granted : granted[y].at = place.at}
           in == {y \in DOMAIN granted : granted[y].slot = place.slot}
<1>1. to \in SUBSET Choreographies /\ in \in SUBSET Choreographies
  OBVIOUS
<1>2. /\ place.slot # Null => Cardinality(InEntry(place.slot) \ {x}) + Cardinality(in) < entry[place.slot]
      /\ Cardinality(On(place.at) \ {x}) + Cardinality(to) < total[place.at]
  BY DEF HasRoom
<1>3. /\ place.at \in Schedules /\ (place.slot # Null => place.slot \in Schedules)
      /\ total \in [Schedules -> Nat] /\ entry \in [Schedules -> Nat]
  BY FitRow DEF Types, BaseTypes
<1> HIDE DEF to, in
<1>4. ASSUME NEW S \in SUBSET Choreographies, NEW G \in SUBSET Choreographies, NEW n \in Nat,
             Cardinality(S \ {x}) + Cardinality(G) < n, NEW T \in SUBSET (G \cup {x})
      PROVE  Cardinality(S \cup T) <= n
  <2>1. Cardinality(S \cup G \cup {x}) <= Cardinality(S \ {x}) + Cardinality(G) + 1
    BY OneMore
  <2>2. S \cup G \cup {x} \in SUBSET Choreographies /\ S \cup T \in SUBSET (S \cup G \cup {x})
    OBVIOUS
  <2>3. /\ Cardinality(S \cup T) <= Cardinality(S \cup G \cup {x})
        /\ Cardinality(S \cup T) \in Nat /\ Cardinality(S \cup G \cup {x}) \in Nat
    BY <2>2, Fewer
  <2>4. Cardinality(S \ {x}) \in Nat /\ Cardinality(G) \in Nat
    <3>1. S \ {x} \in SUBSET Choreographies
      OBVIOUS
    <3> QED
      BY <3>1, Counted
  <2> QED
    BY <1>4, <2>1, <2>3, <2>4
<1>5. ASSUME NEW T \in SUBSET (to \cup {x})
      PROVE  Cardinality(On(place.at) \cup T) <= total[place.at]
  <2>1. On(place.at) \in SUBSET Choreographies /\ total[place.at] \in Nat
    BY <1>3, EntryOnSchedule
  <2> QED
    BY <1>1, <1>2, <1>4, <2>1, ZenonT(40)
<1>6. ASSUME NEW T \in SUBSET (in \cup {x}), place.slot # Null
      PROVE  Cardinality(InEntry(place.slot) \cup T) <= entry[place.slot]
  <2>1. InEntry(place.slot) \in SUBSET Choreographies /\ entry[place.slot] \in Nat
    BY <1>3, <1>6, EntryOnSchedule
  <2> QED
    BY <1>1, <1>2, <1>4, <1>6, <2>1, ZenonT(40)
<1> QED
  BY <1>5, <1>6 DEF to, in

-----------------------------------------------------------------------------
\* REGISTRATION

LEMMA PlaceFits ==
    ASSUME NEW kind \in Kinds, NEW s \in Schedules
    PROVE  /\ Place(kind, s) \in FitRows /\ Place(kind, s).at = s /\ Place(kind, s).kind = kind
BY DEF Place, SlotOf, FitRows, Rows

\* One choreography's row, as a call keeps it.
LEMMA OnlyOne ==
    ASSUME NEW x \in Choreographies, NEW place \in FitRows
    PROVE  /\ Only(x, place) \in CastsOf(FitRows) /\ DOMAIN Only(x, place) = {x} /\ Only(x, place)[x] = place
<1>1. Only(x, place) \in [{x} -> FitRows]
  BY DEF Only
<1> QED
  BY <1>1, CastOf DEF Only

LEMMA ReadRegistrationStep ==
    ASSUME IInv, NEW c \in Calls, NEW x \in Choreographies, NEW kind \in Kinds, NEW s \in Schedules,
           ReadRegistration(c, x, kind, s)
    PROVE  IInv'
<1> DEFINE writes == Only(x, Place(kind, s))
           fields == [call[c] EXCEPT !.at = "registering", !.writes = writes]
<1>1. /\ UNCHANGED <<bases, row>> /\ Go(c, fields) /\ row[x] = NoRow
      /\ \A d \in Calls : x \notin DOMAIN call[d].writes \cup DOMAIN call[d].read
      /\ call[c] = NoCall /\ CallsTypes
  BY Idle DEF ReadRegistration, IInv, Types
<1>2. writes \in CastsOf(FitRows) /\ DOMAIN writes = {x}
  BY PlaceFits, OnlyOne
<1> HIDE DEF writes
<1>3. /\ fields \in CallTypes /\ fields.at = "registering" /\ fields.writes = writes /\ fields.read = <<>>
      /\ fields.held = {} /\ fields.becomes = <<>>
  BY <1>1, <1>2, NoCallType DEF CallTypes, Places
<1> HIDE DEF fields
<1>4. call'[c] = fields /\ row' = row /\ \A d \in Calls \ {c} : call'[d] = call[d]
  BY <1>1, <1>3, GoTypes
<1>5. \A d \in Calls \ {c} : Fresh(d) \cap (DOMAIN fields.read \cup DOMAIN fields.writes) = {}
  BY <1>1, <1>2, <1>3, NoCast DEF Fresh
<1>6. CallInv(c)'
  <2>1. FreshInv(c)'
    BY <1>1, <1>2, <1>3, <1>4 DEF FreshInv, Fresh
  <2>2. SingleInv(c)'
    BY <1>2, <1>3, <1>4 DEF SingleInv
  <2> QED
    BY <1>3, <1>4, <2>1, <2>2
    DEF CallInv, AcceptInv, RoomInv, DraftInv, CorrectionInv, WaitInv, Correcting, Granting
<1> QED
  BY <1>1, <1>3, <1>5, <1>6, Decision

\* A registration, or a save that moves its choreography, is granted its place.
LEMMA GrantedOne ==
    ASSUME IInv, UNCHANGED <<bases, row>>, NEW c \in Calls, NEW x \in Choreographies,
           NEW place \in FitRows, HasRoom(x, place, <<>>),
           \A y \in Moves(c)' : y = x /\ call'[c].writes[y] = place
    PROVE  RoomInv(c)'
<1> SUFFICES ASSUME NEW s \in Schedules
             PROVE  /\ Cardinality(On(s) \cup Coming(c, s)') <= total[s]
                    /\ ComingIn(c, s)' # {} => Cardinality(InEntry(s) \cup ComingIn(c, s)') <= entry[s]
  <2>1. \A s \in Schedules : On(s)' = On(s) /\ InEntry(s)' = InEntry(s) /\ total' = total /\ entry' = entry
    BY DEF On, InEntry, Occupies, bases
  <2> QED
    BY <2>1 DEF RoomInv
<1>1. Types /\ Cardinality(On(s)) <= total[s] /\ s # Null
  BY NullAssumption DEF IInv, TotalHoldsItsOccupants
<1>2. Coming(c, s)' \subseteq {x} /\ ComingIn(c, s)' \subseteq {x}
  BY DEF Coming, ComingIn
<1>3. /\ Cardinality(On(place.at) \cup {}) <= total[place.at]
      /\ Cardinality(On(place.at) \cup {x}) <= total[place.at]
      /\ place.slot # Null => Cardinality(InEntry(place.slot) \cup {x}) <= entry[place.slot]
  BY <1>1, RoomForOne, NoCast
<1>4. Cardinality(On(s) \cup Coming(c, s)') <= total[s]
  <2>1. CASE Coming(c, s)' = {}
    <3>1. On(s) \cup Coming(c, s)' = On(s)
      BY <2>1
    <3> QED
      BY <1>1, <3>1
  <2>2. CASE Coming(c, s)' # {}
    <3>1. Coming(c, s)' = {x} /\ place.at = s
      BY <1>2, <2>2 DEF Coming
    <3> QED
      BY <1>3, <3>1
  <2> QED
    BY <2>1, <2>2
<1>5. ASSUME ComingIn(c, s)' # {}
      PROVE  Cardinality(InEntry(s) \cup ComingIn(c, s)') <= entry[s]
  <2>1. ComingIn(c, s)' = {x} /\ place.slot = s
    BY <1>2, <1>5 DEF ComingIn
  <2> QED
    BY <1>1, <1>3, <2>1
<1> QED
  BY <1>4, <1>5

\* A call that moves whom it moved has the room it had.
LEMMA SameRoom ==
    ASSUME IInv, UNCHANGED <<bases, row>>, NEW c \in Calls, Granting(c), Moves(c)' = Moves(c),
           \A y \in Moves(c) : call'[c].writes[y] = call[c].writes[y]
    PROVE  RoomInv(c)'
<1>1. \A s \in Schedules : /\ On(s)' = On(s) /\ InEntry(s)' = InEntry(s)
                           /\ Coming(c, s)' = Coming(c, s) /\ ComingIn(c, s)' = ComingIn(c, s)
  BY DEF On, InEntry, Occupies, Coming, ComingIn
<1>2. RoomInv(c) /\ total' = total /\ entry' = entry
  BY DEF IInv, CallInv, bases
<1> QED
  BY <1>1, <1>2 DEF RoomInv

\* A call that moves nobody has all the room it needs.
LEMMA NothingComes ==
    ASSUME IInv, UNCHANGED <<bases, row>>, NEW c \in Calls, Moves(c)' = {}
    PROVE  RoomInv(c)'
<1> SUFFICES ASSUME NEW s \in Schedules
             PROVE  /\ Cardinality(On(s)' \cup Coming(c, s)') <= total'[s]
                    /\ ComingIn(c, s)' = {}
  BY DEF RoomInv
<1>1. Coming(c, s)' = {} /\ ComingIn(c, s)' = {}
  BY DEF Coming, ComingIn
<1>2. On(s)' = On(s) /\ total' = total /\ Cardinality(On(s)) <= total[s]
  BY DEF On, Occupies, bases, IInv, TotalHoldsItsOccupants
<1>3. On(s)' \cup Coming(c, s)' = On(s)
  BY <1>1, <1>2
<1> QED
  BY <1>1, <1>2, <1>3

LEMMA LockRegistrationStep ==
    ASSUME IInv, NEW c \in Calls, LockRegistration(c)
    PROVE  IInv'
<1>1. PICK x \in DOMAIN call[c].writes :
        /\ Grant(c, x, call[c].writes[x], <<>>)
        /\ Go(c, [call[c] EXCEPT !.at = "writing", !.held = {call[c].writes[x].at}])
  BY DEF LockRegistration
<1> DEFINE place == call[c].writes[x]
           fields == [call[c] EXCEPT !.at = "writing", !.held = {place.at}]
<1>2. /\ UNCHANGED <<bases, row>> /\ Go(c, fields) /\ call[c].at = "registering" /\ CallsTypes /\ CallInv(c)
      /\ \A d \in Calls : CallInv(d)
  BY <1>1 DEF LockRegistration, IInv, Types
<1>3. /\ call[c].becomes = <<>> /\ \A y \in DOMAIN call[c].writes : y = x
      /\ x \in Choreographies /\ place \in FitRows /\ place.at \in Schedules
      /\ Free(c, place.at) /\ place.kind \in accepts[place.at] /\ HasRoom(x, place, <<>>)
  BY <1>1, <1>2, CallShape, FitRow DEF CallInv, SingleInv, Grant
<1>4. /\ fields \in CallTypes /\ fields.at = "writing" /\ fields.writes = call[c].writes
      /\ fields.read = call[c].read /\ fields.held = {place.at} /\ fields.becomes = <<>>
  <2>1. call[c] \in CallTypes /\ place.at \in Schedules /\ call[c].becomes = <<>>
    BY <1>2, <1>3 DEF CallsTypes
  <2>2. "writing" \in Places
    BY DEF Places
  <2> HIDE DEF place
  <2> QED
    BY ONLY <2>1, <2>2 DEF CallTypes
<1> HIDE DEF fields
<1>5. call'[c] = fields /\ row' = row /\ accepts' = accepts /\ \A d \in Calls \ {c} : call'[d] = call[d]
  BY <1>2, <1>4, GoTypes DEF bases
<1>6. \A d \in Calls \ {c} : /\ fields.held \cap call[d].held = {}
                             /\ Fresh(d) \cap (DOMAIN fields.read \cup DOMAIN fields.writes) = {}
  BY <1>2, <1>3, <1>4 DEF Free, CallInv, FreshInv
<1>7. RoomInv(c)'
  <2>1. \A y \in Moves(c)' : y = x /\ call'[c].writes[y] = place
    BY <1>3, <1>4, <1>5 DEF Moves
  <2> HIDE DEF place
  <2> QED
    BY <1>2, <1>3, <2>1, GrantedOne
<1>8. AcceptInv(c)'
  BY <1>3, <1>4, <1>5 DEF AcceptInv
<1>9. FreshInv(c)'
  BY <1>2, <1>4, <1>5 DEF CallInv, FreshInv, Fresh
<1>10. DraftInv(c)'
  <2>1. DOMAIN call[c].read = {}
    <3>1. call[c].read = <<>>
      BY <1>2 DEF CallInv, SingleInv
    <3> QED
      BY <3>1, NoCast
  <2> QED
    BY <1>4, <1>5, <2>1 DEF DraftInv
<1>11. CallInv(c)'
  BY <1>4, <1>5, <1>7, <1>8, <1>9, <1>10
  DEF CallInv, SingleInv, CorrectionInv, WaitInv, Correcting
<1> QED
  BY <1>2, <1>4, <1>6, <1>11, Decision

-----------------------------------------------------------------------------
\* DRAFT SAVE

LEMMA ReadDraftStep ==
    ASSUME IInv, NEW c \in Calls, NEW x \in Choreographies, NEW kind \in Kinds, NEW s \in Schedules,
           ReadDraft(c, x, kind, s)
    PROVE  IInv'
<1> DEFINE read == Only(x, row[x])
           writes == Only(x, Place(kind, s))
           fields == [call[c] EXCEPT !.at = "saving", !.read = read, !.writes = writes]
<1>1. /\ UNCHANGED <<bases, row>> /\ Go(c, fields) /\ row[x] \in FitRows /\ row[x] # NoRow
      /\ call[c] = NoCall /\ CallsTypes /\ \A d \in Calls : CallInv(d)
  BY Idle, RowShape DEF ReadDraft, IInv, Types, Occupies
<1>2. /\ writes \in CastsOf(FitRows) /\ DOMAIN writes = {x}
      /\ read \in CastsOf(FitRows) /\ DOMAIN read = {x}
  BY <1>1, PlaceFits, OnlyOne
<1> HIDE DEF writes, read
<1>3. /\ fields \in CallTypes /\ fields.at = "saving" /\ fields.writes = writes /\ fields.read = read
      /\ fields.held = {} /\ fields.becomes = <<>>
  BY <1>1, <1>2, NoCallType DEF CallTypes, Places
<1> HIDE DEF fields
<1>4. call'[c] = fields
  BY <1>1, <1>3, GoTypes
<1>5. \A d \in Calls \ {c} : Fresh(d) \cap (DOMAIN fields.read \cup DOMAIN fields.writes) = {}
  BY <1>1, <1>2, <1>3 DEF CallInv, FreshInv
<1>6. CallInv(c)'
  BY <1>2, <1>3, <1>4
  DEF CallInv, AcceptInv, RoomInv, FreshInv, Fresh, SingleInv, DraftInv, CorrectionInv, WaitInv, Correcting, Granting
<1> QED
  BY <1>1, <1>3, <1>5, <1>6, Decision

LEMMA LockDraftStep ==
    ASSUME IInv, NEW c \in Calls, LockDraft(c)
    PROVE  IInv'
<1>1. PICK x \in DOMAIN call[c].read :
        /\ Free(c, x) /\ Current(c, x)
        /\ Go(c, [call[c] EXCEPT !.at = "placing", !.held = {x}])
  BY DEF LockDraft
<1> DEFINE fields == [call[c] EXCEPT !.at = "placing", !.held = {x}]
<1>2. /\ UNCHANGED <<bases, row>> /\ Go(c, fields) /\ call[c].at = "saving" /\ CallsTypes /\ CallInv(c)
      /\ \A d \in Calls : CallInv(d)
      /\ x \in Choreographies /\ row[x] = call[c].read[x]
  BY <1>1, CallShape DEF LockDraft, IInv, Types, Current
<1>3. /\ fields \in CallTypes /\ fields.at = "placing" /\ fields.writes = call[c].writes
      /\ fields.read = call[c].read /\ fields.held = {x} /\ fields.becomes = call[c].becomes
  BY <1>2, ZenonT(40) DEF CallsTypes, CallTypes, Places
<1> HIDE DEF fields
<1>4. call'[c] = fields /\ row' = row
  BY <1>2, <1>3, GoTypes
<1>5. \A d \in Calls \ {c} : /\ fields.held \cap call[d].held = {}
                             /\ Fresh(d) \cap (DOMAIN fields.read \cup DOMAIN fields.writes) = {}
  BY <1>1, <1>2, <1>3 DEF Free, CallInv, FreshInv
<1>6. SingleInv(c)' /\ DraftInv(c)'
  BY <1>1, <1>2, <1>3, <1>4 DEF CallInv, SingleInv, DraftInv
<1>7. CallInv(c)'
  BY <1>3, <1>4, <1>6 DEF CallInv, AcceptInv, RoomInv, FreshInv, Fresh, CorrectionInv, WaitInv, Correcting, Granting
<1> QED
  BY <1>2, <1>3, <1>5, <1>7, Decision

LEMMA PlaceDraftStep ==
    ASSUME IInv, NEW c \in Calls, PlaceDraft(c)
    PROVE  IInv'
<1>1. PICK x \in DOMAIN call[c].read :
        /\ SettlePlace(c, x, call[c].writes[x])
        /\ Go(c, [call[c] EXCEPT !.at = "writing", !.held = {x, call[c].writes[x].at}])
  BY DEF PlaceDraft
<1> DEFINE place == call[c].writes[x]
           fields == [call[c] EXCEPT !.at = "writing", !.held = {x, place.at}]
<1>2. /\ UNCHANGED <<bases, row>> /\ Go(c, fields) /\ call[c].at = "placing" /\ CallsTypes /\ CallInv(c)
      /\ \A d \in Calls : CallInv(d)
  BY <1>1 DEF PlaceDraft, IInv, Types
<1>3. /\ call[c].becomes = <<>> /\ DOMAIN call[c].writes = DOMAIN call[c].read
      /\ \A y \in DOMAIN call[c].read : y = x
      /\ x \in call[c].held /\ row[x] = call[c].read[x]
      /\ x \in Choreographies /\ place \in FitRows /\ place.at \in Schedules
  BY <1>1, <1>2, CallShape, FitRow DEF CallInv, SingleInv, DraftInv
<1>4. /\ Free(c, place.at) /\ place.kind \in accepts[place.at]
      /\ <<place.at, place.slot>> # <<row[x].at, row[x].slot>> => HasRoom(x, place, <<>>)
  BY <1>1 DEF SettlePlace, Grant
<1>5. /\ fields \in CallTypes /\ fields.at = "writing" /\ fields.writes = call[c].writes
      /\ fields.read = call[c].read /\ fields.held = {x, place.at} /\ fields.becomes = <<>>
  BY <1>2, <1>3, ZenonT(40) DEF CallsTypes, CallTypes, Places
<1> HIDE DEF fields
<1>6. call'[c] = fields /\ row' = row /\ accepts' = accepts
  BY <1>2, <1>5, GoTypes DEF bases
<1>7. \A d \in Calls \ {c} : fields.held \cap call[d].held = {}
  BY <1>3, <1>4, <1>5 DEF IInv, LocksInv, Free
<1>8. \A d \in Calls \ {c} : Fresh(d) \cap (DOMAIN fields.read \cup DOMAIN fields.writes) = {}
  BY <1>2, <1>5 DEF CallInv, FreshInv
<1>9. RoomInv(c)'
  <2>1. \A y \in Moves(c)' : y = x /\ call'[c].writes[y] = place
    BY <1>3, <1>5, <1>6 DEF Moves
  <2>2. CASE HasRoom(x, place, <<>>)
    <3> HIDE DEF place
    <3> QED
      BY <1>2, <1>3, <2>1, <2>2, GrantedOne
  <2>3. CASE ~HasRoom(x, place, <<>>)
    <3>1. Moves(c)' = {}
      BY <1>3, <1>4, <1>5, <1>6, <2>1, <2>3 DEF Moves
    <3> QED
      BY <1>2, <3>1, NothingComes
  <2> QED
    BY <2>2, <2>3
<1>10. AcceptInv(c)' /\ DraftInv(c)' /\ FreshInv(c)'
  BY <1>3, <1>4, <1>5, <1>6 DEF AcceptInv, DraftInv, FreshInv, Fresh
<1>11. CallInv(c)'
  BY <1>5, <1>6, <1>9, <1>10 DEF CallInv, SingleInv, CorrectionInv, WaitInv, Correcting
<1> QED
  BY <1>2, <1>5, <1>7, <1>8, <1>11, Decision

-----------------------------------------------------------------------------
\* CORRECTION OF A BIRTH DATE

LEMMA ReadCorrectionStep ==
    ASSUME IInv, NEW c \in Calls, NEW cast \in SUBSET Choreographies, NEW becomes \in [cast -> Kinds],
           ReadCorrection(c, becomes)
    PROVE  IInv'
<1> DEFINE read == [x \in DOMAIN becomes |-> row[x]]
           fields == [call[c] EXCEPT !.at = "correcting", !.read = read, !.becomes = becomes]
<1>1. /\ UNCHANGED <<bases, row>> /\ Go(c, fields) /\ DOMAIN becomes # {}
      /\ \A x \in DOMAIN becomes : Occupies(x)
      /\ call[c] = NoCall /\ CallsTypes /\ RowTypes /\ \A d \in Calls : CallInv(d)
  BY Idle DEF ReadCorrection, IInv, Types
<1>2. read \in [cast -> FitRows] /\ DOMAIN becomes = cast /\ DOMAIN read = cast
  BY <1>1, RowShape
<1>3. read \in CastsOf(FitRows) /\ becomes \in CastsOf(Kinds) /\ becomes # <<>>
  BY <1>1, <1>2, CastOf, NoCast
<1> HIDE DEF read
<1>4. /\ fields \in CallTypes /\ fields.at = "correcting" /\ fields.writes = <<>> /\ fields.read = read
      /\ fields.held = {} /\ fields.becomes = becomes
  BY <1>1, <1>3, NoCallType DEF CallTypes, Places
<1> HIDE DEF fields
<1>5. call'[c] = fields
  BY <1>1, <1>4, GoTypes
<1>6. \A d \in Calls \ {c} : Fresh(d) \cap (DOMAIN fields.read \cup DOMAIN fields.writes) = {}
  <2>1. \A x \in cast : row[x] # NoRow
    BY <1>1, <1>2 DEF Occupies
  <2> QED
    BY <1>1, <1>2, <1>4, <2>1, NoCast DEF CallInv, FreshInv
<1>7. RoomInv(c)'
  <2>1. Moves(c)' = {}
    BY <1>4, <1>5, NoCast DEF Moves
  <2> QED
    BY <1>1, <2>1, NothingComes
<1>8. CallInv(c)'
  BY <1>2, <1>3, <1>4, <1>5, <1>7, NoCast
  DEF CallInv, AcceptInv, FreshInv, Fresh, SingleInv, DraftInv, CorrectionInv, WaitInv, Correcting
<1> QED
  BY <1>1, <1>4, <1>6, <1>8, Decision

LEMMA ResolveCorrectionStep ==
    ASSUME IInv, NEW c \in Calls, NEW x \in Choreographies, ResolveCorrection(c, x)
    PROVE  IInv'
<1> DEFINE kind == call[c].becomes[x]
<1>1. PICK s \in Schedules :
        /\ IF Stays(c, x) THEN s = call[c].read[x].at ELSE Compatible(kind) = {s}
        /\ Go(c, [call[c] EXCEPT !.at = "asking",
                    !.next = <<x, IF Stays(c, x) THEN [call[c].read[x] EXCEPT !.kind = kind]
                                                 ELSE Place(kind, s)>>])
  BY DEF ResolveCorrection
<1> DEFINE place == IF Stays(c, x) THEN [call[c].read[x] EXCEPT !.kind = kind] ELSE Place(kind, s)
           fields == [call[c] EXCEPT !.at = "asking", !.next = <<x, place>>]
<1>2. /\ UNCHANGED <<bases, row>> /\ Go(c, fields) /\ call[c].at = "correcting" /\ CallsTypes
      /\ x \in DOMAIN call[c].read \ DOMAIN call[c].writes
      /\ \A d \in Calls : CallInv(d)
  BY <1>1 DEF ResolveCorrection, IInv, Types
<1>3. kind \in Kinds /\ call[c].read[x] \in FitRows
  <2>1. DOMAIN call[c].read = DOMAIN call[c].becomes
    BY <1>2 DEF CallInv, CorrectionInv, Correcting
  <2> QED
    BY <1>2, <2>1, CallShape
<1>4. place \in FitRows /\ (place.at = call[c].read[x].at => place.slot = call[c].read[x].slot)
  <2>1. CASE Stays(c, x)
    <3> DEFINE r == call[c].read[x]
    <3>1. place = [r EXCEPT !.kind = kind]
      BY <2>1
    <3>2. r \in FitRows /\ kind \in Kinds
      BY <1>3
    <3> HIDE DEF place, r, kind
    <3>3. place \in FitRows /\ place.slot = r.slot
      BY <3>1, <3>2 DEF FitRows, Rows
    <3> QED
      BY <3>3 DEF r
  <2>2. CASE ~Stays(c, x)
    <3>1. place = Place(kind, s) /\ s \in Compatible(kind) /\ call[c].read[x].at \notin Compatible(kind)
      BY <1>1, <2>2 DEF Stays
    <3>2. Place(kind, s) \in FitRows /\ Place(kind, s).at = s
      BY <1>3, PlaceFits
    <3> QED
      BY <3>1, <3>2
  <2> QED
    BY <2>1, <2>2
<1> HIDE DEF place, kind
<1>5. /\ fields \in CallTypes /\ fields.at = "asking" /\ fields.writes = call[c].writes
      /\ fields.read = call[c].read /\ fields.held = call[c].held /\ fields.becomes = call[c].becomes
      /\ fields.next = <<x, place>>
  BY <1>2, <1>4, ZenonT(40) DEF CallsTypes, CallTypes, Places
<1> HIDE DEF fields
<1>6. call'[c] = fields /\ row' = row /\ accepts' = accepts
  BY <1>2, <1>5, GoTypes DEF bases
<1>7. \A d \in Calls \ {c} : /\ fields.held \cap call[d].held = {}
                             /\ Fresh(d) \cap (DOMAIN fields.read \cup DOMAIN fields.writes) = {}
  BY <1>2, <1>5 DEF IInv, LocksInv, CallInv, FreshInv
<1>8. RoomInv(c)'
  <2>1. Moves(c)' = Moves(c) /\ call'[c].writes = call[c].writes
    BY <1>5, <1>6 DEF Moves
  <2> QED
    BY <1>2, <2>1, SameRoom DEF Granting
<1>9. AcceptInv(c)'
  BY <1>2, <1>5, <1>6 DEF CallInv, AcceptInv, Granting
<1>10. CorrectionInv(c)'
  <2>1. /\ fields.next # <<>> /\ fields.next[1] = x /\ fields.next[2] = place
    BY <1>5
  <2> QED
    BY <1>2, <1>4, <1>5, <1>6, <2>1 DEF CallInv, CorrectionInv, Correcting
<1>11. CallInv(c)'
  BY <1>5, <1>6, <1>8, <1>9, <1>10 DEF CallInv, FreshInv, Fresh, SingleInv, DraftInv, WaitInv
<1> QED
  BY <1>2, <1>5, <1>7, <1>11, Decision

LEMMA AndOne ==
    ASSUME NEW f \in {<<>>} \cup CastsOf(FitRows), NEW x \in Choreographies, NEW place \in FitRows
    PROVE  /\ And(f, x, place) \in CastsOf(FitRows) /\ DOMAIN And(f, x, place) = DOMAIN f \cup {x}
           /\ And(f, x, place)[x] = place
           /\ \A y \in DOMAIN f : y # x => And(f, x, place)[y] = f[y]
<1>1. DOMAIN f \subseteq Choreographies /\ \A y \in DOMAIN f : f[y] \in FitRows
  BY CastShape
<1>2. And(f, x, place) \in [DOMAIN f \cup {x} -> FitRows] /\ DOMAIN f \cup {x} \in SUBSET Choreographies
  BY <1>1 DEF And
<1>3. And(f, x, place) \in CastsOf(FitRows)
  BY <1>2, CastOf
<1> QED
  BY <1>2, <1>3 DEF And

\* What a correction asks a place for: with those it has been granted.
LEMMA GrantedAmongOthers ==
    ASSUME IInv, UNCHANGED <<bases, row>>, NEW c \in Calls, Granting(c), NEW x \in Choreographies,
           NEW place \in FitRows, HasRoom(x, place, Granted(c)), Moves(c)' \subseteq Moves(c) \cup {x},
           call'[c].writes[x] = place, x \notin Moves(c),
           \A y \in Moves(c) : call'[c].writes[y] = call[c].writes[y]
    PROVE  RoomInv(c)'
<1> SUFFICES ASSUME NEW s \in Schedules
             PROVE  /\ Cardinality(On(s) \cup Coming(c, s)') <= total[s]
                    /\ ComingIn(c, s)' # {} => Cardinality(InEntry(s) \cup ComingIn(c, s)') <= entry[s]
  <2>1. \A s \in Schedules : On(s)' = On(s) /\ InEntry(s)' = InEntry(s) /\ total' = total /\ entry' = entry
    BY DEF On, InEntry, Occupies, bases
  <2> QED
    BY <2>1 DEF RoomInv
<1>1. /\ Types /\ s # Null /\ total[s] \in Nat /\ entry[s] \in Nat /\ Moves(c) \subseteq Choreographies
      /\ place.slot \in {place.at, Null}
      /\ Cardinality(On(s) \cup Coming(c, s)) <= total[s]
      /\ ComingIn(c, s) # {} => Cardinality(InEntry(s) \cup ComingIn(c, s)) <= entry[s]
      /\ On(s) \in SUBSET Choreographies /\ InEntry(s) \in SUBSET Choreographies
      /\ Coming(c, s) \in SUBSET Choreographies /\ ComingIn(c, s) \subseteq Coming(c, s)
  BY NullAssumption, EntryOnSchedule, CallShape, FitRow
  DEF IInv, Types, BaseTypes, CallInv, RoomInv, Moves
<1>2. /\ DOMAIN Granted(c) = Moves(c) /\ \A y \in Moves(c) : Granted(c)[y] = call[c].writes[y]
  BY DEF Granted, Restrict
<1>3. /\ \A T \in SUBSET (Coming(c, place.at) \cup {x}) : Cardinality(On(place.at) \cup T) <= total[place.at]
      /\ \A T \in SUBSET (ComingIn(c, place.slot) \cup {x}) :
            place.slot # Null => Cardinality(InEntry(place.slot) \cup T) <= entry[place.slot]
  <2>1. /\ {y \in DOMAIN Granted(c) : Granted(c)[y].at = place.at} = Coming(c, place.at)
        /\ {y \in DOMAIN Granted(c) : Granted(c)[y].slot = place.slot} = ComingIn(c, place.slot)
    BY <1>2 DEF Coming, ComingIn
  <2> QED
    BY <1>1, <1>2, <2>1, RoomForOne, ZenonT(40)
<1>4. /\ Coming(c, s)' \subseteq Coming(c, s) \cup {x} /\ (place.at # s => Coming(c, s)' \subseteq Coming(c, s))
      /\ ComingIn(c, s)' \subseteq ComingIn(c, s) \cup {x}
      /\ (place.slot # s => ComingIn(c, s)' \subseteq ComingIn(c, s))
  BY DEF Coming, ComingIn
<1>5. Cardinality(On(s) \cup Coming(c, s)') <= total[s]
  <2>1. CASE place.at = s
    BY <1>3, <1>4, <2>1
  <2>2. CASE place.at # s
    <3>1. On(s) \cup Coming(c, s)' \in SUBSET (On(s) \cup Coming(c, s)) /\ On(s) \cup Coming(c, s) \in SUBSET Choreographies
      BY <1>1, <1>4, <2>2
    <3>2. /\ Cardinality(On(s) \cup Coming(c, s)') <= Cardinality(On(s) \cup Coming(c, s))
          /\ Cardinality(On(s) \cup Coming(c, s)') \in Nat /\ Cardinality(On(s) \cup Coming(c, s)) \in Nat
      BY <3>1, Fewer
    <3> QED
      BY <1>1, <3>2
  <2> QED
    BY <2>1, <2>2
<1>6. ASSUME ComingIn(c, s)' # {}
      PROVE  Cardinality(InEntry(s) \cup ComingIn(c, s)') <= entry[s]
  <2>1. CASE place.slot = s
    BY <1>1, <1>3, <1>4, <2>1
  <2>2. CASE place.slot # s
    <3>1. /\ InEntry(s) \cup ComingIn(c, s)' \in SUBSET (InEntry(s) \cup ComingIn(c, s))
          /\ InEntry(s) \cup ComingIn(c, s) \in SUBSET Choreographies /\ ComingIn(c, s) # {}
      BY <1>1, <1>4, <1>6, <2>2
    <3>2. /\ Cardinality(InEntry(s) \cup ComingIn(c, s)') <= Cardinality(InEntry(s) \cup ComingIn(c, s))
          /\ Cardinality(InEntry(s) \cup ComingIn(c, s)') \in Nat
          /\ Cardinality(InEntry(s) \cup ComingIn(c, s)) \in Nat
      BY <3>1, Fewer
    <3> QED
      BY <1>1, <3>1, <3>2
  <2> QED
    BY <2>1, <2>2
<1> QED
  BY <1>5, <1>6

LEMMA LockCorrectionStep ==
    ASSUME IInv, NEW c \in Calls, LockCorrection(c)
    PROVE  IInv'
<1> DEFINE x == call[c].next[1]
           place == call[c].next[2]
           writes == And(call[c].writes, x, place)
           to == IF DOMAIN writes = DOMAIN call[c].read THEN "writing" ELSE "correcting"
           fields == [call[c] EXCEPT !.writes = writes, !.next = <<>>,
                                     !.held = call[c].held \cup {place.at}, !.at = to]
<1>1. /\ UNCHANGED <<bases, row>> /\ Go(c, fields) /\ call[c].at = "asking" /\ CallsTypes
      /\ call[c] \in CallTypes /\ CallInv(c)
      /\ \A d \in Calls : CallInv(d)
      /\ IF place.at = call[c].read[x].at
         THEN Free(c, place.at) /\ place.kind \in accepts[place.at]
         ELSE Grant(c, x, place, Granted(c))
  BY DEF LockCorrection, IInv, Types, CallsTypes
<1>2. /\ x \in DOMAIN call[c].read \ DOMAIN call[c].writes /\ x \in Choreographies /\ place \in FitRows
      /\ place.at = call[c].read[x].at => place.slot = call[c].read[x].slot
      /\ place.at \in Schedules
      /\ DOMAIN call[c].read = DOMAIN call[c].becomes /\ call[c].becomes # <<>>
      /\ DOMAIN call[c].writes \subseteq DOMAIN call[c].read
  <2>1. call[c].next \in Choreographies \X FitRows
    BY <1>1 DEF CallTypes, CallInv, CorrectionInv
  <2> QED
    BY <1>1, <2>1, FitRow DEF CallInv, CorrectionInv, Correcting
<1>3. Free(c, place.at) /\ place.kind \in accepts[place.at]
  BY <1>1 DEF Grant
<1>4. place.at # call[c].read[x].at => HasRoom(x, place, Granted(c))
  BY <1>1 DEF Grant
<1>5. /\ writes \in CastsOf(FitRows) /\ DOMAIN writes = DOMAIN call[c].writes \cup {x} /\ writes[x] = place
      /\ \A y \in DOMAIN call[c].writes : writes[y] = call[c].writes[y]
  <2>1. call[c].writes \in {<<>>} \cup CastsOf(FitRows)
    BY <1>1 DEF CallTypes
  <2> HIDE DEF x, place
  <2>2. /\ And(call[c].writes, x, place) \in CastsOf(FitRows)
        /\ DOMAIN And(call[c].writes, x, place) = DOMAIN call[c].writes \cup {x}
        /\ And(call[c].writes, x, place)[x] = place
        /\ \A y \in DOMAIN call[c].writes : y # x => And(call[c].writes, x, place)[y] = call[c].writes[y]
    <3> DEFINE f == call[c].writes
    <3>1. x \in Choreographies /\ place \in FitRows /\ f \in {<<>>} \cup CastsOf(FitRows)
      BY <1>2, <2>1
    <3> HIDE DEF f
    <3>2. /\ And(f, x, place) \in CastsOf(FitRows) /\ DOMAIN And(f, x, place) = DOMAIN f \cup {x}
          /\ And(f, x, place)[x] = place
          /\ \A y \in DOMAIN f : y # x => And(f, x, place)[y] = f[y]
      BY <3>1, AndOne
    <3> QED
      BY <3>2 DEF f
  <2> QED
    BY <1>2, <2>2
<1>6. to \in {"writing", "correcting"}
  OBVIOUS
<1> HIDE DEF writes, to, x, place
<1>7. /\ fields \in CallTypes /\ fields.at = to /\ fields.writes = writes
      /\ fields.read = call[c].read /\ fields.held = call[c].held \cup {place.at}
      /\ fields.becomes = call[c].becomes
  BY <1>1, <1>2, <1>5, <1>6 DEF CallTypes, Places
<1> HIDE DEF fields
<1>8. call'[c] = fields /\ row' = row /\ accepts' = accepts
  BY <1>1, <1>7, GoTypes DEF bases
<1>9. \A d \in Calls \ {c} : fields.held \cap call[d].held = {}
  BY <1>3, <1>7 DEF IInv, LocksInv, Free
<1>10. \A d \in Calls \ {c} : Fresh(d) \cap (DOMAIN fields.read \cup DOMAIN fields.writes) = {}
  BY <1>1, <1>2, <1>5, <1>7 DEF CallInv, FreshInv
<1>11. RoomInv(c)'
  <2>1. /\ Moves(c)' \subseteq Moves(c) \cup {x} /\ Moves(c) \subseteq Moves(c)' /\ x \notin Moves(c)
        /\ \A y \in Moves(c) : call'[c].writes[y] = call[c].writes[y]
    BY <1>2, <1>5, <1>7, <1>8 DEF Moves
  <2>2. CASE place.at = call[c].read[x].at
    <3>1. Moves(c)' = Moves(c)
      BY <1>2, <1>5, <1>7, <1>8, <2>1, <2>2 DEF Moves
    <3> QED
      BY <1>1, <2>1, <3>1, SameRoom DEF Granting
  <2>3. CASE place.at # call[c].read[x].at
    BY <1>1, <1>2, <1>4, <1>5, <1>7, <1>8, <2>1, <2>3, GrantedAmongOthers DEF Granting
  <2> QED
    BY <2>2, <2>3
<1>12. AcceptInv(c)'
  BY <1>1, <1>3, <1>5, <1>7, <1>8 DEF CallInv, AcceptInv, Granting
<1>13. CorrectionInv(c)' /\ DraftInv(c)' /\ FreshInv(c)'
  BY <1>2, <1>5, <1>6, <1>7, <1>8 DEF CorrectionInv, Correcting, DraftInv, FreshInv, Fresh
<1>14. CallInv(c)'
  BY <1>6, <1>7, <1>8, <1>11, <1>12, <1>13 DEF CallInv, SingleInv, WaitInv
<1> QED
  BY <1>1, <1>7, <1>9, <1>10, <1>14, Decision

-----------------------------------------------------------------------------
\* THE WRITE

\* A call writes what it was granted: who arrives had a place kept, and nobody
\* else's place on that schedule was being counted meanwhile.
LEMMA Landed ==
    ASSUME IInv, UNCHANGED bases, NEW c \in Calls, Granting(c), End(c), RowTypes',
           \A s \in Schedules : /\ On(s)' \subseteq On(s) \cup Coming(c, s)
                                /\ InEntry(s)' \subseteq InEntry(s) \cup ComingIn(c, s),
           \A x \in Choreographies :
              \/ row'[x] = row[x]
              \/ /\ x \in DOMAIN call[c].writes
                 /\ \A d \in Calls \ {c} : x \notin call[d].held \cap DOMAIN call[d].read
    PROVE  IInv'
<1> DEFINE D == Calls \ {c}
<1>1. CallsTypes' /\ call'[c] = NoCall /\ \A d \in D : call'[d] = call[d]
  BY GoTypes, NoCallType DEF IInv, Types, End
<1>2. LocksInv'
  BY <1>1, NoCallType DEF IInv, LocksInv
<1>3. ASSUME NEW s \in Schedules
      PROVE  Cardinality(On(s)') <= total[s]
  <2>1. /\ On(s) \cup Coming(c, s) \in SUBSET Choreographies
        /\ On(s)' \in SUBSET (On(s) \cup Coming(c, s))
    BY EntryOnSchedule DEF IInv
  <2>2. /\ Cardinality(On(s)') \in Nat /\ Cardinality(On(s) \cup Coming(c, s)) \in Nat
        /\ Cardinality(On(s)') <= Cardinality(On(s) \cup Coming(c, s))
    BY <2>1, Fewer
  <2>3. Cardinality(On(s) \cup Coming(c, s)) <= total[s] /\ total[s] \in Nat
    BY DEF IInv, CallInv, RoomInv, Types, BaseTypes
  <2> QED
    BY <2>2, <2>3
<1>4. ASSUME NEW s \in Schedules, NEW d \in D, Granting(d), Coming(d, s) # {}
      PROVE  On(s)' \subseteq On(s) /\ InEntry(s)' \subseteq InEntry(s)
  <2>1. /\ Types /\ CallInv(c) /\ CallInv(d) /\ call[c].held \cap call[d].held = {}
    BY DEF IInv, LocksInv
  <2>2. /\ ComingIn(c, s) \subseteq Coming(c, s) /\ Coming(c, s) \subseteq DOMAIN call[c].writes
        /\ Coming(d, s) \subseteq DOMAIN call[d].writes
    BY <2>1, EntryOnSchedule
  <2>3. s \in call[d].held
    BY <1>4, <2>1, <2>2 DEF CallInv, AcceptInv, Coming
  <2>4. Coming(c, s) = {}
    BY <2>1, <2>2, <2>3 DEF CallInv, AcceptInv, Coming
  <2> QED
    BY <2>2, <2>4
<1>5. ASSUME NEW x \in Choreographies, row'[x] # row[x], NEW d \in D
      PROVE  x \notin call[d].held \cap DOMAIN call[d].read /\ x \notin Fresh(d)
  BY <1>5 DEF IInv, CallInv, FreshInv
<1>6. D \in SUBSET Calls /\ Calls \ D = {c}
  OBVIOUS
<1> HIDE DEF D
<1> QED
  BY <1>1, <1>2, <1>3, <1>4, <1>5, <1>6, RowsWritten

LEMMA WritePlacedStep ==
    ASSUME IInv, NEW c \in Calls, WritePlaced(c)
    PROVE  /\ IInv'
           /\ \A s \in Schedules : InEntry(s)' \subseteq InEntry(s) \cup ComingIn(c, s)
<1>1. /\ UNCHANGED bases /\ End(c) /\ Granting(c) /\ call[c].at = "writing" /\ call[c].becomes = <<>>
      /\ row' = [x \in Choreographies |->
                   IF x \in DOMAIN call[c].writes THEN call[c].writes[x] ELSE row[x]]
      /\ Types /\ RowTypes /\ CallsTypes /\ CallInv(c)
  BY DEF WritePlaced, Placed, Granting, IInv, Types
<1>2. /\ DOMAIN call[c].writes \subseteq Choreographies
      /\ \A x \in DOMAIN call[c].writes : call[c].writes[x] \in FitRows /\ call[c].writes[x] # NoRow
      /\ \A x \in DOMAIN call[c].read : /\ x \in call[c].held /\ row[x] = call[c].read[x]
                                        /\ call[c].read[x] # NoRow
  BY <1>1, CallShape, FitRow DEF CallInv, DraftInv
<1>3. RowTypes'
  BY <1>1, <1>2 DEF RowTypes
<1>4. ASSUME NEW s \in Schedules
      PROVE  /\ On(s)' \subseteq On(s) \cup Coming(c, s)
             /\ InEntry(s)' \subseteq InEntry(s) \cup ComingIn(c, s)
  <2> SUFFICES ASSUME NEW x \in Choreographies, row'[x] # NoRow
               PROVE  /\ row'[x].at = s => x \in On(s) \cup Coming(c, s)
                      /\ row'[x].slot = s => x \in InEntry(s) \cup ComingIn(c, s)
    BY DEF On, InEntry, Occupies
  <2>1. CASE x \in Moves(c)
    BY <1>1, <2>1 DEF Coming, ComingIn, Moves
  <2>2. CASE x \in DOMAIN call[c].writes \ Moves(c)
    <3>1. /\ x \in DOMAIN call[c].read
          /\ call[c].writes[x].at = call[c].read[x].at /\ call[c].writes[x].slot = call[c].read[x].slot
      BY <2>2 DEF Moves
    <3> QED
      BY <1>1, <1>2, <2>2, <3>1 DEF On, InEntry, Occupies
  <2>3. CASE x \notin DOMAIN call[c].writes
    BY <1>1, <2>3 DEF On, InEntry, Occupies
  <2> QED
    BY <2>1, <2>2, <2>3 DEF Moves
<1>5. ASSUME NEW x \in Choreographies, row'[x] # row[x]
      PROVE  /\ x \in DOMAIN call[c].writes
             /\ \A d \in Calls \ {c} : x \notin call[d].held \cap DOMAIN call[d].read
  <2>1. x \in DOMAIN call[c].writes
    BY <1>1, <1>5
  <2>2. CASE x \in DOMAIN call[c].read
    BY <1>2, <2>1, <2>2 DEF IInv, LocksInv
  <2>3. CASE x \notin DOMAIN call[c].read
    BY <1>1, <2>1, <2>3 DEF CallInv, FreshInv, Fresh
  <2> QED
    BY <2>1, <2>2, <2>3
<1> QED
  BY <1>1, <1>3, <1>4, <1>5, Landed

LEMMA WriteCorrectionStep ==
    ASSUME IInv, NEW c \in Calls, WriteCorrection(c)
    PROVE  /\ IInv'
           /\ \A s \in Schedules : InEntry(s)' \subseteq InEntry(s) \cup ComingIn(c, s)
<1>1. /\ UNCHANGED bases /\ End(c) /\ Granting(c) /\ \A x \in DOMAIN call[c].writes : Free(c, x)
      /\ row' = [x \in Choreographies |->
                   IF x \in DOMAIN call[c].writes /\ Occupies(x)
                   THEN IF x \in Moves(c) THEN call[c].writes[x]
                        ELSE [row[x] EXCEPT !.kind = call[c].writes[x].kind]
                   ELSE row[x]]
      /\ Types /\ RowTypes /\ CallsTypes
  BY DEF WriteCorrection, Corrected, Granting, IInv, Types
<1>2. /\ DOMAIN call[c].writes \subseteq Choreographies
      /\ \A x \in DOMAIN call[c].writes : call[c].writes[x] \in FitRows /\ call[c].writes[x].kind \in Kinds
  BY <1>1, CallShape, FitRow
<1>3. ASSUME NEW r \in FitRows, NEW kind \in Kinds
      PROVE  /\ [r EXCEPT !.kind = kind] \in FitRows
             /\ [r EXCEPT !.kind = kind].at = r.at /\ [r EXCEPT !.kind = kind].slot = r.slot
  BY DEF FitRows, Rows
<1>4. RowTypes'
  <2> SUFFICES ASSUME NEW x \in Choreographies
               PROVE  row'[x] \in FitRows \cup {NoRow}
    BY <1>1 DEF RowTypes
  <2>1. row[x] \in FitRows \cup {NoRow} /\ (Occupies(x) => row[x] \in FitRows)
    BY <1>1, RowShape
  <2> QED
    BY <1>1, <1>2, <1>3, <2>1
<1>5. ASSUME NEW s \in Schedules
      PROVE  /\ On(s)' \subseteq On(s) \cup Coming(c, s)
             /\ InEntry(s)' \subseteq InEntry(s) \cup ComingIn(c, s)
  <2> SUFFICES ASSUME NEW x \in Choreographies, row'[x] # NoRow
               PROVE  /\ row'[x].at = s => x \in On(s) \cup Coming(c, s)
                      /\ row'[x].slot = s => x \in InEntry(s) \cup ComingIn(c, s)
    BY DEF On, InEntry, Occupies
  <2>1. CASE x \in DOMAIN call[c].writes /\ Occupies(x)
    <3>1. row[x] \in FitRows
      BY <1>1, <2>1, RowShape
    <3>2. CASE x \in Moves(c)
      BY <1>1, <2>1, <3>2 DEF Coming, ComingIn
    <3>3. CASE x \notin Moves(c)
      <4>1. row'[x].at = row[x].at /\ row'[x].slot = row[x].slot
        BY <1>1, <1>2, <1>3, <2>1, <3>1, <3>3
      <4> QED
        BY <2>1, <4>1 DEF On, InEntry
    <3> QED
      BY <3>2, <3>3
  <2>2. CASE ~(x \in DOMAIN call[c].writes /\ Occupies(x))
    BY <1>1, <2>2 DEF On, InEntry, Occupies
  <2> QED
    BY <2>1, <2>2
<1>6. ASSUME NEW x \in Choreographies, row'[x] # row[x]
      PROVE  /\ x \in DOMAIN call[c].writes
             /\ \A d \in Calls \ {c} : x \notin call[d].held \cap DOMAIN call[d].read
  BY <1>1, <1>6 DEF Free
<1> QED
  BY <1>1, <1>4, <1>5, <1>6, Landed

-----------------------------------------------------------------------------
\* REMOVAL

LEMMA RemoveStep ==
    ASSUME IInv, NEW x \in Choreographies, RemoveChoreography(x)
    PROVE  /\ IInv'
           /\ \A s \in Schedules : InEntry(s)' \subseteq InEntry(s)
<1>1. /\ UNCHANGED bases /\ call' = call /\ row' = [row EXCEPT ![x] = NoRow]
      /\ \A d \in Calls : x \notin call[d].held
      /\ Types /\ RowTypes /\ row[x] # NoRow
  BY DEF RemoveChoreography, Occupies, IInv, Types
<1>2. RowTypes' /\ CallsTypes' /\ LocksInv'
  BY <1>1 DEF IInv, Types, RowTypes, CallsTypes, LocksInv
<1>3. \A y \in Choreographies : row'[y] = (IF y = x THEN NoRow ELSE row[y])
  BY <1>1 DEF RowTypes
<1>4. \A s \in Schedules : On(s)' \subseteq On(s) /\ InEntry(s)' \subseteq InEntry(s)
  BY <1>3 DEF On, InEntry, Occupies
<1>5. ASSUME NEW s \in Schedules
      PROVE  Cardinality(On(s)') <= total[s]
  <2>1. On(s) \in SUBSET Choreographies /\ On(s)' \in SUBSET On(s)
    BY <1>1, <1>4, EntryOnSchedule
  <2>2. /\ Cardinality(On(s)') <= Cardinality(On(s)) /\ Cardinality(On(s)') \in Nat
        /\ Cardinality(On(s)) \in Nat
    BY <2>1, Fewer
  <2>3. Cardinality(On(s)) <= total[s] /\ total[s] \in Nat
    BY DEF IInv, TotalHoldsItsOccupants, Types, BaseTypes
  <2> QED
    BY <2>2, <2>3
<1>6. \A y \in Choreographies :
        \/ row'[y] = row[y]
        \/ \A d \in Calls : y \notin call[d].held \cap DOMAIN call[d].read /\ (y \in Fresh(d) => row'[y] = NoRow)
  BY <1>1, <1>3
<1>7. Calls \in SUBSET Calls /\ Calls \ Calls = {}
  OBVIOUS
<1> QED
  BY <1>1, <1>2, <1>4, <1>5, <1>6, <1>7, RowsWritten

-----------------------------------------------------------------------------
\* SCHEDULES

\* A call that only knows what it is about to edit.
LEMMA WaitStep ==
    ASSUME IInv, UNCHANGED <<bases, row>>, NEW c \in Calls, NEW fields \in CallTypes, Go(c, fields),
           fields.at \in {"editing", "sizing"}, fields.read = <<>>, fields.writes = <<>>, fields.held = {},
           fields.at = "editing" => fields.plan # <<>>, fields.at = "sizing" => fields.size # <<>>
    PROVE  IInv'
<1>1. call'[c] = fields
  BY GoTypes DEF IInv, Types
<1>2. CallInv(c)'
  BY <1>1, NoCast
  DEF CallInv, AcceptInv, RoomInv, FreshInv, Fresh, SingleInv, DraftInv, CorrectionInv, WaitInv, Correcting, Granting
<1> QED
  BY <1>2, NoCast, Decision

LEMMA ReadEditStep ==
    ASSUME IInv, NEW c \in Calls, NEW s \in Schedules, NEW plan \in Plans, ReadEdit(c, s, plan)
    PROVE  IInv'
<1> DEFINE what == <<s, plan, entry[s] > 0>>
           fields == [call[c] EXCEPT !.at = "editing", !.plan = what]
<1>1. UNCHANGED <<bases, row>> /\ Go(c, fields) /\ call[c] = NoCall
  BY Idle DEF ReadEdit
<1>2. what \in Schedules \X Plans \X BOOLEAN /\ what # <<>>
  <2> DEFINE had == entry[s] > 0
  <2>1. had \in BOOLEAN
    OBVIOUS
  <2> HIDE DEF had
  <2>2. <<s, plan, had>> \in Schedules \X Plans \X BOOLEAN /\ <<s, plan, had>> # <<>>
    BY <2>1
  <2> QED
    BY <2>2 DEF had
<1> HIDE DEF what
<1>3. /\ fields \in CallTypes /\ fields.at = "editing" /\ fields.read = <<>> /\ fields.writes = <<>>
      /\ fields.held = {} /\ fields.plan = what
  BY <1>1, <1>2, NoCallType DEF CallTypes, Places
<1> HIDE DEF fields
<1> QED
  BY <1>1, <1>2, <1>3, WaitStep

LEMMA ReadSizeStep ==
    ASSUME IInv, NEW c \in Calls, NEW s \in Schedules, NEW capacity \in Capacities, ReadSize(c, s, capacity)
    PROVE  IInv'
<1> DEFINE what == <<s, capacity, entry[s] > 0>>
           fields == [call[c] EXCEPT !.at = "sizing", !.size = what]
<1>1. UNCHANGED <<bases, row>> /\ Go(c, fields) /\ call[c] = NoCall
  BY Idle DEF ReadSize
<1>2. what \in Schedules \X Capacities \X BOOLEAN /\ what # <<>>
  <2> DEFINE had == entry[s] > 0
  <2>1. had \in BOOLEAN
    OBVIOUS
  <2> HIDE DEF had
  <2>2. <<s, capacity, had>> \in Schedules \X Capacities \X BOOLEAN /\ <<s, capacity, had>> # <<>>
    BY <2>1
  <2> QED
    BY <2>2 DEF had
<1> HIDE DEF what
<1>3. /\ fields \in CallTypes /\ fields.at = "sizing" /\ fields.read = <<>> /\ fields.writes = <<>>
      /\ fields.held = {} /\ fields.size = what
  BY <1>1, <1>2, NoCallType DEF CallTypes, Places
<1> HIDE DEF fields
<1> QED
  BY <1>1, <1>2, <1>3, WaitStep

LEMMA EntryAfterTypes ==
    ASSUME BaseTypes, NEW s \in Schedules, NEW had \in BOOLEAN, NEW capacity \in Nat
    PROVE  /\ EntryAfter(s, had, capacity) \in [Schedules -> Nat]
           /\ \A other \in Schedules \ {s} : EntryAfter(s, had, capacity)[other] = entry[other]
BY DEF BaseTypes, EntryAfter

\* What an edit waits with.
LEMMA WhatIsEdited ==
    ASSUME IInv, NEW c \in Calls
    PROVE  /\ call[c].at = "editing" => /\ call[c].plan[1] \in Schedules /\ call[c].plan[2] \in Plans
                                        /\ call[c].plan[2][1] \in Nat /\ call[c].plan[2][2] \in SUBSET Kinds
                                        /\ call[c].plan[2][3] \in Nat /\ call[c].plan[3] \in BOOLEAN
           /\ call[c].at = "sizing" => /\ call[c].size[1] \in Schedules /\ call[c].size[2] \in Nat
                                       /\ call[c].size[3] \in BOOLEAN
<1>1. /\ call[c].plan \in {<<>>} \cup (Schedules \X Plans \X BOOLEAN)
      /\ call[c].size \in {<<>>} \cup (Schedules \X Capacities \X BOOLEAN)
  BY DEF IInv, Types, CallsTypes, CallTypes
<1>2. WaitInv(c)
  BY DEF IInv, CallInv
<1>3. ASSUME call[c].at = "editing"
      PROVE  /\ call[c].plan[1] \in Schedules /\ call[c].plan[2] \in Plans
             /\ call[c].plan[2][1] \in Nat /\ call[c].plan[2][2] \in SUBSET Kinds
             /\ call[c].plan[2][3] \in Nat /\ call[c].plan[3] \in BOOLEAN
  <2>1. call[c].plan \in Schedules \X Plans \X BOOLEAN
    BY <1>1, <1>2, <1>3 DEF WaitInv
  <2>2. call[c].plan[2] \in Nat \X (SUBSET Kinds) \X Nat
    BY <2>1, PlansAssumption
  <2> QED
    BY <2>1, <2>2
<1>4. ASSUME call[c].at = "sizing"
      PROVE  call[c].size[1] \in Schedules /\ call[c].size[2] \in Nat /\ call[c].size[3] \in BOOLEAN
  BY <1>1, <1>2, <1>4, PlansAssumption DEF WaitInv
<1> QED
  BY <1>3, <1>4

LEMMA EditStep ==
    ASSUME IInv, NEW c \in Calls, Edit(c)
    PROVE  IInv'
<1> DEFINE s == call[c].plan[1]
           plan == call[c].plan[2]
           had == call[c].plan[3]
<1>1. /\ \A d \in Calls : s \notin call[d].held
      /\ EditAllowed(s, plan) /\ End(c) /\ row' = row
      /\ total' = [total EXCEPT ![s] = plan[1]]
      /\ accepts' = [accepts EXCEPT ![s] = plan[2]]
      /\ entry' = EntryAfter(s, had, plan[3])
  BY DEF Edit
<1>2. /\ s \in Schedules /\ plan[1] \in Nat /\ plan[2] \in SUBSET Kinds /\ plan[3] \in Nat /\ had \in BOOLEAN
      /\ BaseTypes
  BY WhatIsEdited DEF Edit, IInv, Types
<1> HIDE DEF s, plan, had
<1>3. BaseTypes' /\ \A other \in Schedules \ {s} : entry'[other] = entry[other]
  BY <1>1, <1>2, EntryAfterTypes DEF BaseTypes
<1>4. \A other \in Schedules \ {s} : total'[other] = total[other] /\ accepts'[other] = accepts[other]
  BY <1>1, <1>2 DEF BaseTypes
<1>5. ASSUME NEW any \in Schedules
      PROVE  Cardinality(On(any)) <= total'[any]
  <2>1. Cardinality(On(any)) <= total[any]
    BY DEF IInv, TotalHoldsItsOccupants
  <2>2. CASE any = s
    BY <1>1, <1>2, <2>1, <2>2 DEF EditAllowed, BaseTypes
  <2>3. CASE any # s
    BY <1>4, <2>1, <2>3
  <2> QED
    BY <2>2, <2>3
<1> QED
  BY <1>1, <1>3, <1>4, <1>5, BasesEdited

LEMMA WriteSizeStep ==
    ASSUME IInv, NEW c \in Calls, WriteSize(c)
    PROVE  IInv'
<1> DEFINE s == call[c].size[1]
           capacity == call[c].size[2]
           had == call[c].size[3]
<1>1. /\ IF had THEN EntryFree(s) ELSE \A d \in Calls : s \notin call[d].held
      /\ entry' = EntryAfter(s, had, capacity)
      /\ End(c) /\ total' = total /\ accepts' = accepts /\ row' = row
  BY DEF WriteSize
<1>2. s \in Schedules /\ capacity \in Nat /\ had \in BOOLEAN /\ BaseTypes
  BY WhatIsEdited DEF WriteSize, IInv, Types
<1> HIDE DEF s, capacity, had
<1>3. BaseTypes' /\ \A other \in Schedules \ {s} : entry'[other] = entry[other]
  BY <1>1, <1>2, EntryAfterTypes DEF BaseTypes
<1>4. \A any \in Schedules : Cardinality(On(any)) <= total'[any]
  BY <1>1 DEF IInv, TotalHoldsItsOccupants
<1>5. ASSUME NEW d \in Calls \ {c}, s \in call[d].held
      PROVE  ~ \E x \in Moves(d) : call[d].writes[x].slot = s
  BY <1>1, <1>5 DEF EntryFree
<1> QED
  BY <1>1, <1>3, <1>4, <1>5, BasesEdited

-----------------------------------------------------------------------------
\* THE INVARIANT

LEMMA Start == Init => IInv
<1> SUFFICES ASSUME Init
             PROVE  IInv
  OBVIOUS
<1>1. PICK plan \in [Schedules -> Plans] :
        /\ total = [s \in Schedules |-> plan[s][1]]
        /\ accepts = [s \in Schedules |-> plan[s][2]]
        /\ entry = [s \in Schedules |-> plan[s][3]]
  BY DEF Init
<1>2. row = [x \in Choreographies |-> NoRow] /\ \A c \in Calls : call[c] = NoCall
  BY DEF Init
<1>3. Types
  <2>1. \A s \in Schedules : plan[s] \in Nat \X (SUBSET Kinds) \X Nat
    BY PlansAssumption
  <2>2. BaseTypes
    BY <1>1, <2>1 DEF BaseTypes
  <2>3. RowTypes /\ CallsTypes
    BY <1>2, NoCallType DEF Init, RowTypes, CallsTypes
  <2> QED
    BY <2>2, <2>3 DEF Types
<1>4. TotalHoldsItsOccupants
  <2>1. \A s \in Schedules : On(s) = {} /\ InEntry(s) = {} /\ total[s] \in Nat
    BY <1>2, <1>3 DEF On, InEntry, Occupies, Types, BaseTypes
  <2>2. Cardinality({}) = 0
    BY FS_EmptySet
  <2> QED
    BY <2>1, <2>2 DEF TotalHoldsItsOccupants
<1>5. LocksInv
  BY <1>2, NoCallType DEF LocksInv
<1>6. \A c \in Calls : CallInv(c)
  BY <1>2, NoCallType, NoCast
  DEF CallInv, AcceptInv, RoomInv, FreshInv, Fresh, SingleInv, DraftInv, CorrectionInv, WaitInv, Correcting, Granting
<1> QED
  BY <1>3, <1>4, <1>5, <1>6 DEF IInv

LEMMA StutterStep ==
    ASSUME IInv, UNCHANGED vars
    PROVE  IInv'
<1>1. total' = total /\ accepts' = accepts /\ entry' = entry /\ row' = row /\ call' = call
  BY DEF vars, bases
<1>2. Types'
  BY <1>1 DEF IInv, Types, BaseTypes, RowTypes, CallsTypes
<1>3. LocksInv'
  BY <1>1 DEF IInv, LocksInv
<1>4. \A s \in Schedules : /\ On(s)' = On(s) /\ InEntry(s)' = InEntry(s)
                           /\ \A c \in Calls : Coming(c, s)' = Coming(c, s) /\ ComingIn(c, s)' = ComingIn(c, s)
  BY <1>1 DEF On, InEntry, Occupies, Coming, ComingIn, Moves
<1>5. TotalHoldsItsOccupants'
  BY <1>1, <1>4 DEF IInv, TotalHoldsItsOccupants
<1>6. ASSUME NEW c \in Calls
      PROVE  CallInv(c)'
  <2>1. CallInv(c)
    BY DEF IInv
  <2>2. AcceptInv(c)' /\ RoomInv(c)'
    BY <1>1, <1>4, <2>1 DEF CallInv, AcceptInv, RoomInv, Granting
  <2>3. FreshInv(c)' /\ SingleInv(c)' /\ DraftInv(c)' /\ CorrectionInv(c)' /\ WaitInv(c)'
    BY <1>1, <2>1 DEF CallInv, FreshInv, Fresh, SingleInv, DraftInv, CorrectionInv, WaitInv, Correcting
  <2> QED
    BY <2>2, <2>3 DEF CallInv
<1> QED
  BY <1>2, <1>3, <1>5, <1>6 DEF IInv

LEMMA NextStep ==
    ASSUME IInv, [Next]_vars
    PROVE  IInv'
<1>1. CASE UNCHANGED vars
  BY <1>1, StutterStep
<1>2. ASSUME NEW c \in Calls,
             \/ Abandon(c) \/ LockRegistration(c) \/ LockDraft(c) \/ PlaceDraft(c)
             \/ LockCorrection(c) \/ WritePlaced(c) \/ WriteCorrection(c)
             \/ Edit(c) \/ WriteSize(c)
      PROVE  IInv'
  BY <1>2, AbandonStep, LockRegistrationStep, LockDraftStep, PlaceDraftStep, LockCorrectionStep,
     WritePlacedStep, WriteCorrectionStep, EditStep, WriteSizeStep
<1>3. ASSUME NEW c \in Calls, NEW x \in Choreographies,
             \/ ResolveCorrection(c, x)
             \/ \E kind \in Kinds, s \in Schedules :
                 ReadRegistration(c, x, kind, s) \/ ReadDraft(c, x, kind, s)
      PROVE  IInv'
  BY <1>3, ResolveCorrectionStep, ReadRegistrationStep, ReadDraftStep
<1>4. ASSUME NEW c \in Calls, NEW cast \in SUBSET Choreographies, NEW becomes \in [cast -> Kinds],
             ReadCorrection(c, becomes)
      PROVE  IInv'
  BY <1>4, ReadCorrectionStep
<1>5. ASSUME NEW c \in Calls, NEW s \in Schedules,
             \/ \E plan \in Plans : ReadEdit(c, s, plan)
             \/ \E capacity \in Capacities : ReadSize(c, s, capacity)
      PROVE  IInv'
  BY <1>5, ReadEditStep, ReadSizeStep
<1>6. ASSUME NEW x \in Choreographies, RemoveChoreography(x)
      PROVE  IInv'
  BY <1>6, RemoveStep
<1> QED
  BY <1>1, <1>2, <1>3, <1>4, <1>5, <1>6, Zenon DEF Next

-----------------------------------------------------------------------------
\* THEOREMS

\* The invariant holds in every reachable state, whatever is edited and whoever
\* is moved meanwhile.
THEOREM Inductive == Spec => []IInv
BY Start, NextStep, PTL DEF Spec

\* Every call and every row stays of its type: a choreography that is not
\* withdrawn has a category, a schedule, and no entry but that schedule's.
THEOREM TypeCorrect == Spec => []TypeOK
<1>1. IInv => TypeOK
  <2> SUFFICES ASSUME IInv
               PROVE  TypeOK
    OBVIOUS
  <2>1. BaseTypes /\ row \in [Choreographies -> Rows \cup {NoRow}]
    BY DEF IInv, Types, RowTypes, FitRows
  <2>2. ASSUME NEW c \in Calls
        PROVE  /\ call[c].at \in Places /\ DOMAIN call[c].writes \subseteq Choreographies
               /\ call[c].held \subseteq Schedules \cup Choreographies
    BY CallShape DEF IInv, Types, CallTypes
  <2> QED
    BY <2>1, <2>2 DEF TypeOK, BaseTypes
<1> QED
  BY <1>1, Inductive, PTL

\* No schedule is ever occupied above its total, and who is in its entry is on it:
\* what the schedule's lock decided is still true when it is written.
THEOREM TotalsHold == Spec => []TotalHoldsItsOccupants
<1>1. IInv => TotalHoldsItsOccupants
  BY DEF IInv
<1> QED
  BY <1>1, Inductive, PTL

\* Only the writes and the removals touch a row.
LEMMA WhoWrites ==
    ASSUME Next
    PROVE  \/ row' = row
           \/ \E c \in Calls : WritePlaced(c) \/ WriteCorrection(c)
           \/ \E x \in Choreographies : RemoveChoreography(x)
<1>1. ASSUME NEW c \in Calls,
             \/ Abandon(c) \/ LockRegistration(c) \/ LockDraft(c) \/ PlaceDraft(c)
             \/ LockCorrection(c) \/ Edit(c) \/ WriteSize(c)
      PROVE  row' = row
  BY <1>1 DEF Abandon, LockRegistration, LockDraft, PlaceDraft, LockCorrection, Edit, WriteSize
<1>2. ASSUME NEW c \in Calls, NEW x \in Choreographies,
             \/ ResolveCorrection(c, x)
             \/ \E kind \in Kinds, s \in Schedules :
                 ReadRegistration(c, x, kind, s) \/ ReadDraft(c, x, kind, s)
      PROVE  row' = row
  BY <1>2 DEF ResolveCorrection, ReadRegistration, ReadDraft
<1>3. ASSUME NEW c \in Calls, NEW becomes, ReadCorrection(c, becomes)
      PROVE  row' = row
  BY <1>3 DEF ReadCorrection
<1>4. ASSUME NEW c \in Calls, NEW s \in Schedules,
             \/ \E plan \in Plans : ReadEdit(c, s, plan)
             \/ \E capacity \in Capacities : ReadSize(c, s, capacity)
      PROVE  row' = row
  BY <1>4 DEF ReadEdit, ReadSize
<1> QED
  BY <1>1, <1>2, <1>3, <1>4, Zenon DEF Next

\* Nobody is ever put into an entry above what it holds, whoever else is put in
\* it meanwhile and whether or not its capacity is being edited.
THEOREM NobodyEntersFull == Spec => NobodyEntersAFullEntry
<1>1. ASSUME IInv, Next, NEW s \in Schedules, Cardinality(InEntry(s))' > Cardinality(InEntry(s))
      PROVE  Cardinality(InEntry(s))' <= entry'[s]
  <2>1. Types /\ InEntry(s) \in SUBSET Choreographies /\ entry[s] \in Nat
    BY <1>1, EntryOnSchedule DEF IInv, Types, BaseTypes
  <2>2. ~ InEntry(s)' \subseteq InEntry(s)
    <3> SUFFICES ASSUME InEntry(s)' \subseteq InEntry(s)
                 PROVE  FALSE
      OBVIOUS
    <3> QED
      BY <1>1, <2>1, Fewer
  <2>3. PICK c \in Calls : WritePlaced(c) \/ WriteCorrection(c)
    <3>1. CASE row' = row
      BY <2>2, <3>1 DEF InEntry, Occupies
    <3>2. CASE \E x \in Choreographies : RemoveChoreography(x)
      BY <1>1, <2>2, <3>2, RemoveStep
    <3> QED
      BY <1>1, <3>1, <3>2, WhoWrites
  <2>4. /\ InEntry(s)' \subseteq InEntry(s) \cup ComingIn(c, s) /\ Granting(c) /\ entry' = entry
    BY <1>1, <2>3, WritePlacedStep, WriteCorrectionStep DEF WritePlaced, WriteCorrection, Granting, bases
  <2>5. ComingIn(c, s) # {} /\ InEntry(s) \cup ComingIn(c, s) \in SUBSET Choreographies
    BY <2>1, <2>2, <2>4, EntryOnSchedule
  <2>6. Cardinality(InEntry(s) \cup ComingIn(c, s)) <= entry[s]
    BY <1>1, <2>4, <2>5 DEF IInv, CallInv, RoomInv
  <2>7. /\ Cardinality(InEntry(s)') <= Cardinality(InEntry(s) \cup ComingIn(c, s))
        /\ Cardinality(InEntry(s)') \in Nat /\ Cardinality(InEntry(s) \cup ComingIn(c, s)) \in Nat
    BY <2>4, <2>5, Fewer
  <2> QED
    BY <2>1, <2>4, <2>6, <2>7
<1>2. IInv /\ [Next]_vars =>
        [\A s \in Schedules :
            Cardinality(InEntry(s))' > Cardinality(InEntry(s)) => Cardinality(InEntry(s))' <= entry'[s]]_vars
  BY <1>1
<1> QED
  BY <1>2, Inductive, PTL DEF Spec, NobodyEntersAFullEntry

\* The one way to a schedule that does not accept a choreography: a correction
\* that writes a kind over a row that is no longer the one it read.
THEOREM OnlyStaleCorrections == Spec => OnlyAStaleCorrectionMisplaces
<1>1. ASSUME IInv, Next, NEW x \in Choreographies, Misplaced(x)', ~Misplaced(x)
      PROVE  \E c \in Calls :
                /\ call[c].at = "writing" /\ call'[c] = NoCall
                /\ x \in DOMAIN call[c].becomes /\ call[c].read[x] # row[x]
  <2>1. Types /\ BaseTypes /\ RowTypes /\ CallsTypes /\ \A c \in Calls : CallInv(c)
    BY <1>1 DEF IInv, Types
  <2>2. accepts' = accepts \/ \E c \in Calls : Edit(c)
    <3>1. ASSUME NEW c \in Calls,
                 \/ Abandon(c) \/ LockRegistration(c) \/ LockDraft(c) \/ PlaceDraft(c)
                 \/ LockCorrection(c) \/ WritePlaced(c) \/ WriteCorrection(c) \/ WriteSize(c)
          PROVE  accepts' = accepts
      BY <3>1 DEF Abandon, LockRegistration, LockDraft, PlaceDraft, LockCorrection, WritePlaced, WriteCorrection,
         WriteSize, bases
    <3>2. ASSUME NEW c \in Calls, NEW y \in Choreographies,
                 \/ ResolveCorrection(c, y)
                 \/ \E kind \in Kinds, s \in Schedules :
                     ReadRegistration(c, y, kind, s) \/ ReadDraft(c, y, kind, s)
          PROVE  accepts' = accepts
      BY <3>2 DEF ResolveCorrection, ReadRegistration, ReadDraft, bases
    <3>3. ASSUME NEW c \in Calls, NEW becomes, ReadCorrection(c, becomes)
          PROVE  accepts' = accepts
      BY <3>3 DEF ReadCorrection, bases
    <3>4. ASSUME NEW c \in Calls, NEW s \in Schedules,
                 \/ \E plan \in Plans : ReadEdit(c, s, plan)
                 \/ \E capacity \in Capacities : ReadSize(c, s, capacity)
          PROVE  accepts' = accepts
      BY <3>4 DEF ReadEdit, ReadSize, bases
    <3>5. ASSUME NEW y \in Choreographies, RemoveChoreography(y)
          PROVE  accepts' = accepts
      BY <3>5 DEF RemoveChoreography, bases
    <3> QED
      BY <1>1, <3>1, <3>2, <3>3, <3>4, <3>5, Zenon DEF Next
  <2>3. ASSUME NEW c \in Calls, Edit(c)
        PROVE  FALSE
    <3> DEFINE s == call[c].plan[1]
               plan == call[c].plan[2]
    <3>1. /\ EditAllowed(s, plan) /\ row' = row /\ accepts' = [accepts EXCEPT ![s] = plan[2]]
          /\ s \in Schedules
      BY <1>1, <2>3, WhatIsEdited DEF Edit
    <3> HIDE DEF s, plan
    <3>2. row[x] # NoRow /\ row[x].kind \notin accepts'[row[x].at] /\ row[x].kind \in accepts[row[x].at]
      BY <1>1, <3>1 DEF Misplaced, Occupies
    <3>3. row[x].at = s
      <4>1. row[x].at \in Schedules
        BY <2>1, <3>2, RowShape, FitRow
      <4> QED
        BY <2>1, <3>1, <3>2, <4>1 DEF BaseTypes
    <3>4. row[x].kind \in plan[2]
      BY <3>1, <3>2, <3>3 DEF EditAllowed, On, Occupies
    <3> QED
      BY <2>1, <3>1, <3>2, <3>3, <3>4 DEF BaseTypes
  <2>4. accepts' = accepts /\ row'[x] # row[x] /\ row'[x] # NoRow /\ row'[x].kind \notin accepts[row'[x].at]
    BY <1>1, <2>2, <2>3 DEF Misplaced, Occupies
  <2>5. PICK c \in Calls : WritePlaced(c) \/ WriteCorrection(c)
    <3>1. ASSUME NEW y \in Choreographies, RemoveChoreography(y)
          PROVE  FALSE
      BY <2>1, <2>4, <3>1 DEF RemoveChoreography, RowTypes
    <3> QED
      BY <1>1, <2>4, <3>1, WhoWrites
  <2>6. \A y \in DOMAIN call[c].writes : call[c].writes[y].kind \in accepts[call[c].writes[y].at]
    BY <2>1, <2>5 DEF CallInv, AcceptInv, Granting, WritePlaced, WriteCorrection
  <2>7. WriteCorrection(c)
    <3> SUFFICES ASSUME WritePlaced(c)
                 PROVE  FALSE
      BY <2>5
    <3> QED
      BY <2>4, <2>6 DEF WritePlaced, Placed
  <2>8. /\ call[c].at = "writing" /\ call[c].becomes # <<>>
        /\ row'[x] = IF x \in DOMAIN call[c].writes /\ Occupies(x) THEN Corrected(c, x) ELSE row[x]
        /\ call'[c] = NoCall
    BY <2>1, <2>7, GoTypes, NoCallType DEF WriteCorrection, End
  <2>9. /\ x \in DOMAIN call[c].writes /\ x \notin Moves(c) /\ Occupies(x)
        /\ row'[x] = [row[x] EXCEPT !.kind = call[c].writes[x].kind]
    BY <2>4, <2>6, <2>8 DEF Corrected
  <2>10. x \in DOMAIN call[c].read /\ x \in DOMAIN call[c].becomes /\ call[c].writes[x].at = call[c].read[x].at
    BY <2>1, <2>8, <2>9 DEF CallInv, CorrectionInv, Correcting, Moves
  <2>11. call[c].read[x] # row[x]
    <3>1. row[x] \in FitRows
      BY <2>1, <2>9, RowShape
    <3>2. row'[x].at = row[x].at /\ row'[x].kind = call[c].writes[x].kind
      BY <2>9, <3>1 DEF FitRows, Rows
    <3> QED
      BY <2>4, <2>6, <2>9, <2>10, <3>2
  <2> QED
    BY <2>8, <2>10, <2>11
<1>2. ASSUME IInv, [Next]_vars
      PROVE  [\A x \in Choreographies :
                Misplaced(x)' /\ ~Misplaced(x) =>
                    \E c \in Calls :
                        /\ call[c].at = "writing" /\ call'[c] = NoCall
                        /\ x \in DOMAIN call[c].becomes /\ call[c].read[x] # row[x]]_vars
  BY <1>1, <1>2
<1> QED
  BY <1>2, Inductive, PTL DEF Spec, OnlyAStaleCorrectionMisplaces
=============================================================================
