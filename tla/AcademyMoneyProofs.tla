------------------------- MODULE AcademyMoneyProofs -------------------------
(***************************************************************************)
(* Proofs about AcademyMoney, for any academies, rosters and calls: an     *)
(* inscription that a comprobante or a live reservation names is never     *)
(* deleted, nor a choreography's that has money on it; money only pays for *)
(* its own academy's inscriptions; a refund is only written over the one   *)
(* its page showed; a deadlock is one of two kinds; and the sums it keeps. *)
(* There are six invariants: IInv of the documents and the refunds, and    *)
(* PriceInv of the prices; MoneyInv of the payments and OrderInv of the    *)
(* order of the locks, which lean on them; and RowSums and PoolSums of the *)
(* sums, which say of every call past its locks what it is about to write  *)
(* and rest on the first three: whoever is past a lock is alone on what it *)
(* read.                                                                   *)
(*                                                                         *)
(* The sums are what a row holds against the price it is read at, what a   *)
(* payment has given against its amount, what an academy's pool is worth   *)
(* against its refunds.  A sum over a finite set is counted, coin by coin, *)
(* which needs no induction; a spread over a pool is an overlap of         *)
(* stretches laid end to end, and so is what releasing takes off a row.    *)
(***************************************************************************)
EXTENDS AcademyMoney, FiniteSetTheorems, TLAPS

-----------------------------------------------------------------------------
\* THE INDUCTIVE INVARIANT

\* The rows these proofs read, and the shape of a call.
RowsInv ==
    /\ roster \in [Inscriptions -> {"active", "withdrawn", "deleted"}]
    /\ document \in [Inscriptions -> {"none", "reserved", "recorded"}]
    /\ unit \in [Units -> {"standing", "withdrawn", "deleted"}]
    /\ academyOf \in [Units -> Academies]
    /\ refund \in [Refunds -> [owner : Academies, amount : Nat, version : Nat]]
    /\ nextRefund \in Nat
    /\ \A r \in Refunds : refund[r].amount > 0 => r < nextRefund
CallsInv ==
    /\ DOMAIN held = Calls /\ DOMAIN call = Calls
    /\ \A c \in Calls : DOMAIN call[c] = DOMAIN NoCall

\* A lock has one holder.
ExclusiveInv == \A c, d \in Calls : c # d => held[c] \cap held[d] = {}

\* Where each operation can be, and what it is about.
Removals == {"sync-roster", "remove-choreography", "remove-seminar-row"}
OfChoreography == {"sync-roster", "remove-choreography"}
Placed(c) ==
    /\ call[c].op = "none" <=> call[c].at = "idle"
    /\ call[c].at = "anchor" => call[c].op \in {"sync-roster", "remove-seminar-row"}
    /\ call[c].at = "reading" => call[c].op = "remove-seminar-row"
    /\ call[c].at = "choreography" => call[c].op \in OfChoreography
    /\ call[c].op = "emit" <=> call[c].at \in {"reserve", "settle"}
    /\ call[c].at = "academies" => call[c].op = "merge"
    /\ call[c].op = "merge" => call[c].at \in {"pool", "academies", "write"}
    /\ call[c].op \in RefundChanges => call[c].at \in {"pool", "write"}
OfOneUnit(c) ==
    call[c].op \in Removals \cup {"emit"} =>
        /\ call[c].unit \in Units
        /\ call[c].op = "remove-seminar-row" => call[c].unit \notin Choreographies
        /\ call[c].op \in OfChoreography => call[c].unit \in Choreographies
        /\ call[c].rows \subseteq RowsOf(call[c].unit)
        /\ call[c].cut \subseteq RowsOf(call[c].unit)
OfOneOwner(c) ==
    /\ call[c].op \in RefundChanges \cup {"merge"} => call[c].scope \in Academies
    /\ call[c].op = "merge" => call[c].into \in Academies
    /\ call[c].op \in RefundChanges => call[c].n \in Nat
    /\ call[c].op \in {"edit-refund", "delete-refund"} => call[c].item \in Refunds

\* The locks a removal, an emission, a refund and a merge work under.
Anchored(c) == <<"anchor", call[c].unit>> \in held[c]
OnChoreography(c) == <<"choreography", call[c].unit>> \in held[c]
Locked(c) ==
    /\ call[c].op \in {"sync-roster", "remove-seminar-row"} /\ call[c].at # "anchor" => Anchored(c)
    /\ call[c].op = "emit" => Anchored(c)
    /\ call[c].op \in OfChoreography /\ call[c].at \notin {"anchor", "choreography"} => OnChoreography(c)
    /\ call[c].op \in RefundChanges /\ call[c].at = "write" => <<"pool", call[c].scope>> \in held[c]
    /\ call[c].op = "merge" /\ call[c].at # "pool" =>
          <<"pool", call[c].scope>> \in held[c] /\ <<"pool", call[c].into>> \in held[c]

\* What a removal is about to delete stays without documents until it does, and
\* its choreography stands; what an emission is about to name stays or goes with its choreography, and
\* the refund a call is about to write is still the one it was shown.
CutClean(c) ==
    call[c].op \in Removals =>
        /\ call[c].at \in {"anchor", "choreography"} => call[c].cut = {}
        /\ \A i \in call[c].cut : document[i] = "none"
        /\ call[c].op = "remove-choreography" /\ call[c].cut # {} => call[c].cut = Kept(call[c].unit)
        /\ call[c].op \in OfChoreography /\ call[c].at \notin {"anchor", "choreography"} =>
              unit[call[c].unit] = "standing"
NamedStay(c) ==
    call[c].op = "emit" /\ call[c].at = "reserve" =>
        unit[call[c].unit] = "deleted" \/ \A i \in call[c].rows : roster[i] # "deleted"
ShownStays(c) ==
    call[c].at = "write" /\ call[c].op \in {"edit-refund", "delete-refund"} =>
        /\ refund[call[c].item].amount > 0
        /\ refund[call[c].item].owner = call[c].scope
        /\ refund[call[c].item].version = call[c].version

CallInv(c) == /\ Placed(c) /\ OfOneUnit(c) /\ OfOneOwner(c) /\ Locked(c)
              /\ CutClean(c) /\ NamedStay(c) /\ ShownStays(c)

IInv == /\ RowsInv /\ CallsInv /\ ExclusiveInv /\ DocumentedKeepsRow
        /\ \A c \in Calls : CallInv(c)

-----------------------------------------------------------------------------
\* HOW A CALL MOVES

\* A step of c moves c alone, and takes no lock from another.
Framed(c) ==
    /\ DOMAIN held' = Calls /\ DOMAIN call' = Calls /\ DOMAIN call'[c] = DOMAIN NoCall
    /\ \A d \in Calls \ {c} : /\ call'[d] = call[d] /\ held'[d] = held[d]
                             /\ held'[c] \cap held[d] = {}
Tables == <<roster, document, unit, academyOf, refund, nextRefund>>

\* A call that ends holds nothing and is nowhere.
LEMMA EndMoves ==
    ASSUME CallsInv, NEW c \in Calls, End(c)
    PROVE  Framed(c) /\ call'[c] = NoCall /\ held'[c] = {} /\ CallInv(c)'
<1>1. Framed(c) /\ call'[c] = NoCall /\ held'[c] = {}
  BY DEF CallsInv, End, Framed
<1>2. call'[c].op = "none" /\ call'[c].at = "idle"
  BY <1>1 DEF NoCall
<1> QED
  BY <1>1, <1>2 DEF CallInv, Placed, OfOneUnit, OfOneOwner, Locked, CutClean, NamedStay,
     ShownStays, Removals, OfChoreography, RefundChanges

\* A call whose fields change without a lock.
LEMMA BecomeMoves ==
    ASSUME CallsInv, ExclusiveInv, NEW c \in Calls, NEW fields, Become(c, fields), held' = held,
           DOMAIN fields = DOMAIN NoCall
    PROVE  Framed(c) /\ call'[c] = fields /\ held'[c] = held[c]
BY DEF CallsInv, ExclusiveInv, Become, Framed

\* A call whose fields change as it takes some locks.
LEMMA AcquireMoves ==
    ASSUME CallsInv, ExclusiveInv, NEW c \in Calls, NEW fields, Become(c, fields),
           NEW S, Acquire(c, S), DOMAIN fields = DOMAIN NoCall
    PROVE  Framed(c) /\ call'[c] = fields /\ held'[c] = held[c] \cup S
BY DEF CallsInv, ExclusiveInv, Become, Acquire, NotHeldByOthers, Framed

\* When the rows these proofs read do not change, one call's invariant is enough.
LEMMA QuietStep ==
    ASSUME IInv, NEW c \in Calls, Framed(c), UNCHANGED Tables, CallInv(c)'
    PROVE  IInv'
<1>1. RowsInv' /\ DocumentedKeepsRow'
  BY DEF IInv, RowsInv, DocumentedKeepsRow, Tables
<1>2. CallsInv'
  BY DEF IInv, CallsInv, Framed
<1>3. ExclusiveInv'
  BY DEF IInv, ExclusiveInv, Framed
<1>4. ASSUME NEW d \in Calls, d # c
      PROVE  CallInv(d)'
  <2>1. call'[d] = call[d] /\ held'[d] = held[d] /\ CallInv(d)
    BY <1>4 DEF Framed, IInv
  <2> QED
    BY <2>1 DEF CallInv, Placed, OfOneUnit, OfOneOwner, Locked, Anchored, OnChoreography, CutClean,
       NamedStay, ShownStays, Kept, Tables
<1> QED
  BY <1>1, <1>2, <1>3, <1>4 DEF IInv

-----------------------------------------------------------------------------
\* A CALL BEGINS

\* A call that begins without a lock: its fields say what it is.
LEMMA BeginStep ==
    ASSUME IInv, NEW c \in Calls, NEW fields, Begin(c, fields), DOMAIN fields = DOMAIN NoCall,
           fields.at \in {"anchor", "choreography", "rows", "pool"},
           fields.op \notin {"none", "emit"},
           fields.at = "anchor" => fields.op \in {"sync-roster", "remove-seminar-row"},
           fields.at = "choreography" => fields.op \in OfChoreography,
           fields.at = "rows" => fields.op \in Gestures \cup Charges,
           fields.at = "pool" => fields.op \notin Removals,
           fields.op \in {"sync-roster", "remove-seminar-row"} => fields.at = "anchor",
           fields.op \in RefundChanges \cup {"merge"} => fields.at = "pool" /\ fields.scope \in Academies,
           fields.op = "merge" => fields.into \in Academies,
           fields.op \in RefundChanges => fields.n \in Nat,
           fields.op \in {"edit-refund", "delete-refund"} => fields.item \in Refunds,
           fields.op \in Removals => /\ fields.unit \in Units /\ fields.cut = {}
                                     /\ fields.rows \subseteq RowsOf(fields.unit)
                                     /\ fields.op = "remove-seminar-row" <=> fields.unit \notin Choreographies
    PROVE  IInv'
<1>1. Framed(c) /\ call'[c] = fields /\ UNCHANGED Tables /\ (\A u : RowsOf(u)' = RowsOf(u))
  BY BecomeMoves DEF IInv, Begin, Become, Tables, rows, RowsOf
<1>2. CallInv(c)'
  BY <1>1 DEF CallInv, Placed, OfOneUnit, OfOneOwner, Locked, CutClean, NamedStay, ShownStays,
     Removals, OfChoreography, RefundChanges, Gestures, Charges
<1> QED
  BY <1>1, <1>2, QuietStep

LEMMA OwnerType ==
    ASSUME RowsInv, NEW i \in Inscriptions
    PROVE  UnitOf[i] \in Units /\ Owner(i) \in Academies
BY UnitAssumption DEF RowsInv, Owner

\* Every operation begins where its invariant says.
LEMMA StartStep ==
    ASSUME IInv, NEW c \in Calls, Start(c)
    PROVE  IInv'
<1> USE DEF Gestures, Charges, RefundChanges, Removals, OfChoreography, NoCall
<1>1. ASSUME NEW op \in Gestures, NEW i \in Inscriptions, NEW n \in Amount, NEW pick \in Prices \cup {None},
             StartGesture(c, op, i, n, pick)
      PROVE  IInv'
  BY <1>1, BeginStep DEF StartGesture
<1>2. ASSUME NEW op \in Charges, NEW u \in Units, NEW pick \in Prices \cup {None}, StartCharge(c, op, u, pick)
      PROVE  IInv'
  BY <1>2, BeginStep DEF StartCharge
<1>3. ASSUME NEW u \in Units, NEW R \in SUBSET Inscriptions, StartRosterSync(c, u, R)
      PROVE  IInv'
  BY <1>3, BeginStep DEF StartRosterSync, ActiveRows, RowsOf
<1>4. ASSUME NEW u \in Units, StartChoreographyRemoval(c, u)
      PROVE  IInv'
  BY <1>4, BeginStep DEF StartChoreographyRemoval, RowsOf
<1>5. ASSUME NEW i \in Inscriptions, StartSeminarRemoval(c, i)
      PROVE  IInv'
  <2>1. UnitOf[i] \in Units
    BY OwnerType DEF IInv
  <2> QED
    BY <1>5, <2>1, BeginStep DEF StartSeminarRemoval, RowsOf
<1>6. ASSUME NEW u \in Units, NEW S \in SUBSET Inscriptions, StartEmission(c, u, S)
      PROVE  IInv'
  <2>1. /\ Framed(c) /\ UNCHANGED Tables
        /\ call'[c] = [NoCall EXCEPT !.op = "emit", !.at = "reserve", !.unit = u, !.rows = S,
                                     !.scope = academyOf[u]]
        /\ <<"anchor", u>> \in held'[c]
    <3> DEFINE fields == [NoCall EXCEPT !.op = "emit", !.at = "reserve", !.unit = u, !.rows = S,
                                        !.scope = academyOf[u]]
               S1 == {<<"anchor", u>>}
    <3>1. DOMAIN fields = DOMAIN NoCall
      OBVIOUS
    <3>2. Become(c, fields) /\ Acquire(c, S1) /\ UNCHANGED rows
      BY <1>6 DEF StartEmission
    <3> HIDE DEF fields, S1
    <3>3. Framed(c) /\ call'[c] = fields /\ held'[c] = held[c] \cup S1
      BY <3>1, <3>2, AcquireMoves DEF IInv
    <3> QED
      BY <3>2, <3>3 DEF fields, S1, rows, Tables
  <2>2. CallInv(c)'
    BY <1>6, <2>1 DEF StartEmission, CallInv, Placed, OfOneUnit, OfOneOwner, Locked, Anchored, CutClean,
       NamedStay, ShownStays, Kept, RowsOf, Tables
  <2> QED
    BY <2>1, <2>2, QuietStep
<1>7. ASSUME NEW p \in Payments, NEW a \in Academies, NEW n \in Amount, NEW op \in {"delete-payment", "edit-payment"},
             StartPaymentChange(c, op, p, n, a)
      PROVE  IInv'
  BY <1>7, BeginStep DEF StartPaymentChange
<1>8. ASSUME NEW a \in Academies, NEW n \in Amounts, StartRefund(c, a, n)
      PROVE  IInv'
  <2>1. n \in Nat
    BY PriceAssumption DEF Amounts
  <2> QED
    BY <1>8, <2>1, BeginStep DEF StartRefund
<1>9. ASSUME NEW op \in RefundChanges \ {"register-refund"}, NEW r \in Refunds, NEW n \in Amount,
             StartRefundChange(c, op, r, n)
      PROVE  IInv'
  <2>1. refund[r].owner \in Academies /\ n \in Nat
    BY PriceAssumption DEF IInv, RowsInv, Amount
  <2> QED
    BY <1>9, <2>1, BeginStep DEF StartRefundChange
<1>10. ASSUME NEW a \in Academies, NEW b \in Academies, StartMerge(c, a, b)
       PROVE  IInv'
  BY <1>10, BeginStep DEF StartMerge
<1>11. 0 \in Amount /\ Amounts \subseteq Amount
  BY PriceAssumption DEF Amount, Amounts
<1> QED
  BY <1>1, <1>2, <1>3, <1>4, <1>5, <1>6, <1>7, <1>8, <1>9, <1>10, <1>11 DEF Start

-----------------------------------------------------------------------------
\* A CALL GOES ON WITHOUT WRITING THESE ROWS

LEMMA EndStep ==
    ASSUME IInv, NEW c \in Calls, End(c), UNCHANGED Tables
    PROVE  IInv'
BY EndMoves, QuietStep DEF IInv

LEMMA RefuseStep ==
    ASSUME IInv, NEW c \in Calls, Refuse(c)
    PROVE  IInv'
BY EndStep DEF Refuse, rows, Tables

\* A gesture, a charge or a payment's change, which these invariants say little of.
LEMMA MoneyStep ==
    ASSUME IInv, NEW c \in Calls, Framed(c), UNCHANGED Tables,
           call[c].op \in Gestures \cup Charges \cup {"edit-payment", "delete-payment"},
           call'[c].op = call[c].op, call'[c].at \in {"rows", "pool", "write"}
    PROVE  IInv'
<1>1. CallInv(c)'
  BY DEF CallInv, Placed, OfOneUnit, OfOneOwner, Locked, CutClean, NamedStay, ShownStays,
     Removals, OfChoreography, RefundChanges, Gestures, Charges
<1> QED
  BY <1>1, QuietStep

\* With one pool to lock, the call goes on to write with the fields it is given.
LEMMA PoolMoves ==
    ASSUME CallsInv, ExclusiveInv, NEW c \in Calls, NEW fields, LockPool(c), WithPool(c, fields),
           DOMAIN fields = DOMAIN NoCall
    PROVE  /\ Framed(c) /\ UNCHANGED Tables
           /\ call'[c] = [fields EXCEPT !.at = "write"]
           /\ held'[c] = held[c] \cup NextPool(c)
<1>1. Acquire(c, NextPool(c)) /\ Become(c, [fields EXCEPT !.at = "write"]) /\ UNCHANGED rows
  BY DEF LockPool, WithPool
<1> QED
  BY <1>1, AcquireMoves DEF rows, Tables

\* One lemma per step: the locks it takes and what it now knows.
LEMMA ReadGestureStep ==
    ASSUME IInv, NEW c \in Calls, NEW i \in Inscriptions, ReadGesture(c, i)
    PROVE  IInv'
<1>1. CASE Refuse(c)
  BY <1>1, RefuseStep
<1>2. CASE ~Refuse(c)
  <2>1. PICK amount, below : /\ UNCHANGED <<rows, held>>
                             /\ Become(c, [call[c] EXCEPT !.at = "pool", !.need[i] = amount, !.onPrice = below])
    BY <1>2 DEF ReadGesture
  <2>2. Framed(c) /\ call'[c] = [call[c] EXCEPT !.at = "pool", !.need[i] = amount, !.onPrice = below]
    BY <2>1, BecomeMoves DEF IInv, CallsInv
  <2>3. call'[c].op = call[c].op /\ call'[c].at = "pool"
    BY <2>2 DEF IInv, CallsInv, NoCall
  <2> QED
    BY <2>1, <2>2, <2>3, MoneyStep DEF ReadGesture, rows, Tables
<1> QED
  BY <1>1, <1>2

LEMMA ReadDepositReleaseStep ==
    ASSUME IInv, NEW c \in Calls, NEW i \in Inscriptions, ReadDepositRelease(c, i)
    PROVE  IInv'
<1>1. CASE Refuse(c)
  BY <1>1, RefuseStep
<1>2. CASE ~Refuse(c)
  <2>1. UNCHANGED <<rows, held>> /\ Become(c, [call[c] EXCEPT !.at = "pool"])
    BY <1>2 DEF ReadDepositRelease, Go
  <2>2. Framed(c) /\ call'[c] = [call[c] EXCEPT !.at = "pool"]
    BY <2>1, BecomeMoves DEF IInv, CallsInv
  <2>3. call'[c].op = call[c].op /\ call'[c].at = "pool"
    BY <2>2 DEF IInv, CallsInv, NoCall
  <2> QED
    BY <2>1, <2>2, <2>3, MoneyStep DEF ReadDepositRelease, Gestures, rows, Tables
<1> QED
  BY <1>1, <1>2

\* What a charge decides under the locks of its rows: it refuses, or it plans a
\* cover or the first of its rows, or it only stores prices.
LEMMA ChargeDecides ==
    ASSUME CallsInv, NEW c \in Calls, ReadCharge(c)
    PROVE  \/ Refuse(c)
           \/ End(c) /\ stored' = [i \in Inscriptions |-> IF i \in OnPrice(c) THEN Taken(c, i) ELSE stored[i]]
           \/ /\ UNCHANGED <<rows, held>>
              /\ \/ Become(c, [call[c] EXCEPT !.at = "pool", !.rows = Charged(c), !.onPrice = OnPrice(c),
                                             !.need = Cover(c), !.rate = call[c].rate])
                 \/ Become(c, [call[c] EXCEPT !.at = "pool", !.rows = Charged(c), !.onPrice = OnPrice(c),
                                             !.need = Opening(c),
                                             !.rate = [i \in Inscriptions |-> Found(c, i)]])
<1>1. DOMAIN call[c] = DOMAIN NoCall
  BY DEF CallsInv
<1> DEFINE priced == [call[c] EXCEPT !.at = "pool", !.rows = Charged(c), !.onPrice = OnPrice(c)]
<1>2. [priced EXCEPT !.need = Cover(c)]
        = [call[c] EXCEPT !.at = "pool", !.rows = Charged(c), !.onPrice = OnPrice(c), !.need = Cover(c),
                          !.rate = call[c].rate]
  BY <1>1 DEF NoCall
<1> QED
  BY <1>2 DEF ReadCharge

LEMMA ReadChargeStep ==
    ASSUME IInv, NEW c \in Calls, ReadCharge(c)
    PROVE  IInv'
<1>1. CASE Refuse(c)
  BY <1>1, RefuseStep
<1>2. CASE ~Refuse(c) /\ End(c)
  <2>1. UNCHANGED Tables
    BY <1>2 DEF ReadCharge, Refuse, rows, Tables
  <2> QED
    BY <1>2, <2>1, EndStep
<1>3. CASE ~Refuse(c) /\ ~End(c)
  <2>1. PICK still, need, below, rate :
            /\ UNCHANGED <<rows, held>>
            /\ Become(c, [call[c] EXCEPT !.at = "pool", !.rows = still, !.onPrice = below, !.need = need,
                                         !.rate = rate])
    BY <1>3, ChargeDecides DEF IInv
  <2>2. Framed(c) /\ call'[c] = [call[c] EXCEPT !.at = "pool", !.rows = still, !.onPrice = below, !.need = need,
                                               !.rate = rate]
    BY <2>1, BecomeMoves DEF IInv, CallsInv
  <2>3. call'[c].op = call[c].op /\ call'[c].at = "pool"
    BY <2>2 DEF IInv, CallsInv, NoCall
  <2> QED
    BY <2>1, <2>2, <2>3, MoneyStep DEF ReadCharge, rows, Tables
<1> QED
  BY <1>1, <1>2, <1>3

\* A gesture or a charge that has planned its moves under the pool's lock.
LEMMA PlannedStep ==
    ASSUME IInv, NEW c \in Calls, NEW moves, call[c].op \in Gestures \cup Charges,
           LockPool(c), WithPool(c, [call[c] EXCEPT !.moves = moves])
    PROVE  IInv'
<1> DEFINE fields == [call[c] EXCEPT !.moves = moves]
<1>1. DOMAIN fields = DOMAIN NoCall /\ CallsInv /\ ExclusiveInv
  BY DEF IInv, CallsInv
<1>2. WithPool(c, fields)
  OBVIOUS
<1>3. fields.op = call[c].op
  BY <1>1 DEF NoCall, IInv, CallsInv
<1> HIDE DEF fields
<1>4. /\ Framed(c) /\ UNCHANGED Tables
      /\ call'[c] = [fields EXCEPT !.at = "write"]
  BY <1>1, <1>2, PoolMoves
<1>5. call'[c].op = call[c].op /\ call'[c].at = "write"
  BY <1>1, <1>3, <1>4 DEF NoCall
<1> QED
  BY <1>4, <1>5, MoneyStep

LEMMA FundFromPoolStep ==
    ASSUME IInv, NEW c \in Calls, FundFromPool(c)
    PROVE  IInv'
BY RefuseStep, PlannedStep DEF FundFromPool, Gestures

LEMMA UnwindFromRowStep ==
    ASSUME IInv, NEW c \in Calls, NEW i \in Inscriptions, UnwindFromRow(c, i)
    PROVE  IInv'
BY RefuseStep, PlannedStep DEF UnwindFromRow

LEMMA LockRowStep ==
    ASSUME IInv, NEW c \in Calls, LockRow(c)
    PROVE  IInv'
<1>1. PICK S : Acquire(c, S) /\ UNCHANGED <<rows, call>> /\ call[c].at = "rows"
  BY DEF LockRow
<1>2. Framed(c) /\ UNCHANGED Tables /\ call'[c] = call[c] /\ held'[c] = held[c] \cup S
  BY <1>1 DEF IInv, CallsInv, ExclusiveInv, Acquire, NotHeldByOthers, Framed, Tables, rows
<1>3. CallInv(c)'
  BY <1>2 DEF IInv, CallInv, Placed, OfOneUnit, OfOneOwner, Locked, Anchored, OnChoreography, CutClean,
     NamedStay, ShownStays, Kept, RowsOf, Tables
<1> QED
  BY <1>2, <1>3, QuietStep

LEMMA LockAnchorStep ==
    ASSUME IInv, NEW c \in Calls, LockAnchor(c)
    PROVE  IInv'
<1> DEFINE fields == [call[c] EXCEPT !.at = IF call[c].op = "sync-roster" THEN "choreography" ELSE "reading"]
<1>1. /\ CallsInv /\ ExclusiveInv /\ DOMAIN fields = DOMAIN NoCall
      /\ Acquire(c, {<<"anchor", call[c].unit>>}) /\ Become(c, fields) /\ UNCHANGED rows
  BY DEF LockAnchor, Go, IInv, CallsInv
<1>2. Framed(c) /\ UNCHANGED Tables /\ call'[c] = fields /\ <<"anchor", call[c].unit>> \in held'[c]
  <2> HIDE DEF fields
  <2> QED
    BY <1>1, AcquireMoves DEF rows, Tables
<1>3. CallInv(c)'
  BY <1>2 DEF LockAnchor, IInv, CallsInv, NoCall, CallInv, Placed, OfOneUnit, OfOneOwner, Locked,
     Anchored, OnChoreography, CutClean, NamedStay, ShownStays, RowsOf, Tables, Removals, OfChoreography,
     RefundChanges
<1> QED
  BY <1>2, <1>3, QuietStep

LEMMA LockChoreographyStep ==
    ASSUME IInv, NEW c \in Calls, LockChoreography(c)
    PROVE  IInv'
<1>1. CASE Refuse(c)
  BY <1>1, RefuseStep
<1>2. CASE ~Refuse(c)
  <2> DEFINE taken == IF call[c].op = "sync-roster" THEN call[c].rows \cap ActiveRows(call[c].unit)
                                                    ELSE ActiveRows(call[c].unit)
             fields == [call[c] EXCEPT !.at = "rows", !.rows = taken, !.scope = academyOf[call[c].unit]]
  <2>1. /\ CallsInv /\ ExclusiveInv /\ DOMAIN fields = DOMAIN NoCall
        /\ Acquire(c, {<<"choreography", call[c].unit>>}) /\ Become(c, fields) /\ UNCHANGED rows
    BY <1>2 DEF LockChoreography, IInv, CallsInv
  <2>2. /\ Framed(c) /\ UNCHANGED Tables /\ call'[c] = fields
        /\ held'[c] = held[c] \cup {<<"choreography", call[c].unit>>}
    <3> HIDE DEF fields
    <3> QED
      BY <2>1, AcquireMoves DEF rows, Tables
  <2>3. taken \subseteq RowsOf(call[c].unit)
    BY DEF ActiveRows, RowsOf
  <2> HIDE DEF taken
  <2>4. /\ call'[c].op = call[c].op /\ call'[c].unit = call[c].unit /\ call'[c].cut = call[c].cut
        /\ call'[c].at = "rows" /\ call'[c].rows = taken
    BY <2>1, <2>2 DEF NoCall, CallsInv
  <2>5. call[c].at = "choreography" /\ CallInv(c) /\ unit'[call[c].unit] = "standing"
    BY <1>2, <2>2 DEF LockChoreography, IInv, Tables
  <2> HIDE DEF fields
  <2>6. CallInv(c)'
    BY <2>2, <2>3, <2>4, <2>5 DEF CallInv, Placed, OfOneUnit, OfOneOwner, Locked, Anchored,
       OnChoreography, CutClean, NamedStay, ShownStays, RowsOf, Removals, OfChoreography, RefundChanges
  <2> QED
    BY <2>2, <2>6, QuietStep
<1> QED
  BY <1>1, <1>2

\* A removal's decision: what it cuts has no evidence, hence no document.
LEMMA DecideStep ==
    ASSUME IInv, NEW c \in Calls, NEW place \in {"rows", "pool", "write"}, NEW cut,
           call[c].op \in Removals, call[c].at \notin {"anchor", "choreography"},
           Become(c, [call[c] EXCEPT !.at = place, !.cut = cut]), UNCHANGED <<rows, held>>,
           cut \subseteq RowsOf(call[c].unit), \A i \in cut : document[i] = "none",
           call[c].op = "remove-choreography" /\ cut # {} => cut = Kept(call[c].unit)
    PROVE  IInv'
<1> DEFINE fields == [call[c] EXCEPT !.at = place, !.cut = cut]
<1>1. /\ CallsInv /\ ExclusiveInv /\ DOMAIN fields = DOMAIN NoCall
      /\ Become(c, fields) /\ held' = held /\ UNCHANGED rows
  BY DEF IInv, CallsInv
<1>2. Framed(c) /\ UNCHANGED Tables /\ call'[c] = fields /\ held'[c] = held[c]
  <2> HIDE DEF fields
  <2> QED
    BY <1>1, BecomeMoves DEF rows, Tables
<1>3. /\ call'[c].op = call[c].op /\ call'[c].unit = call[c].unit /\ call'[c].rows = call[c].rows
      /\ call'[c].at = place /\ call'[c].cut = cut /\ CallInv(c)
  BY <1>1, <1>2 DEF NoCall, CallsInv, IInv
<1> HIDE DEF fields
<1>4. CallInv(c)'
  BY <1>2, <1>3 DEF CallInv, Placed, OfOneUnit, OfOneOwner, Locked, Anchored,
     OnChoreography, CutClean, NamedStay, ShownStays, Kept, RowsOf, Tables, Removals, OfChoreography,
     RefundChanges
<1> QED
  BY <1>2, <1>4, QuietStep

LEMMA NoDocument ==
    ASSUME NEW i \in Inscriptions, ~Evidence(i)
    PROVE  document[i] = "none"
BY DEF Evidence

LEMMA DecideRosterRemovalStep ==
    ASSUME IInv, NEW c \in Calls, DecideRosterRemoval(c)
    PROVE  IInv'
<1> DEFINE cut == {i \in call[c].rows : ~Evidence(i)}
           place == IF cut = call[c].rows THEN "write" ELSE "pool"
<1>1. call[c].op = "sync-roster" /\ call[c].at = "rows" /\ call[c].rows \subseteq RowsOf(call[c].unit)
  BY DEF DecideRosterRemoval, RowsLocked, IInv, CallInv, OfOneUnit, Removals
<1>2. /\ cut \subseteq RowsOf(call[c].unit) /\ \A i \in cut : document[i] = "none"
      /\ place \in {"rows", "pool", "write"}
  BY <1>1, NoDocument DEF RowsOf
<1>3. Become(c, [call[c] EXCEPT !.at = place, !.cut = cut]) /\ UNCHANGED <<rows, held>>
  BY DEF DecideRosterRemoval
<1> HIDE DEF cut, place
<1>4. call[c].op \in Removals /\ call[c].at \notin {"anchor", "choreography"}
  BY <1>1 DEF Removals
<1>5. call[c].op = "remove-choreography" /\ cut # {} => cut = Kept(call[c].unit)
  BY <1>1
<1> QED
  BY <1>2, <1>3, <1>4, <1>5, DecideStep

LEMMA DecideChoreographyRemovalStep ==
    ASSUME IInv, NEW c \in Calls, DecideChoreographyRemoval(c)
    PROVE  IInv'
<1> DEFINE cut == IF \E i \in Kept(call[c].unit) : Evidence(i) THEN {} ELSE Kept(call[c].unit)
           place == IF cut # {} \/ call[c].rows = {} THEN "write" ELSE "pool"
<1>1. call[c].op = "remove-choreography" /\ call[c].at = "rows"
  BY DEF DecideChoreographyRemoval, RowsLocked
<1>2. /\ cut \subseteq RowsOf(call[c].unit) /\ \A i \in cut : document[i] = "none"
      /\ place \in {"rows", "pool", "write"} /\ (cut # {} => cut = Kept(call[c].unit))
  BY NoDocument DEF Kept, RowsOf
<1>3. Become(c, [call[c] EXCEPT !.at = place, !.cut = cut]) /\ UNCHANGED <<rows, held>>
  BY DEF DecideChoreographyRemoval
<1> HIDE DEF cut, place
<1>4. call[c].op \in Removals /\ call[c].at \notin {"anchor", "choreography"}
  BY <1>1 DEF Removals
<1> QED
  BY <1>2, <1>3, <1>4, DecideStep

LEMMA DecideSeminarRemovalStep ==
    ASSUME IInv, NEW c \in Calls, DecideSeminarRemoval(c)
    PROVE  IInv'
<1> DEFINE cut == {i \in call[c].rows : ~Evidence(i)}
<1>1. call[c].op = "remove-seminar-row" /\ call[c].at = "reading" /\ call[c].rows \subseteq RowsOf(call[c].unit)
  BY DEF DecideSeminarRemoval, IInv, CallInv, Placed, OfOneUnit, Removals
<1>2. cut \subseteq RowsOf(call[c].unit) /\ \A i \in cut : document[i] = "none"
  BY <1>1, NoDocument DEF RowsOf
<1>3. Become(c, [call[c] EXCEPT !.at = "rows", !.cut = cut]) /\ UNCHANGED <<rows, held>>
  BY DEF DecideSeminarRemoval
<1> HIDE DEF cut
<1>4. /\ call[c].op \in Removals /\ call[c].at \notin {"anchor", "choreography"}
      /\ call[c].op = "remove-choreography" => FALSE
  BY <1>1 DEF Removals
<1> QED
  BY <1>2, <1>3, <1>4, DecideStep

\* A removal goes on to its pool or to its write, with what it has decided.
LEMMA CarryStep ==
    ASSUME IInv, NEW c \in Calls, Framed(c), UNCHANGED Tables, held[c] \subseteq held'[c],
           call[c].op \in Removals, call[c].at \notin {"anchor", "choreography"},
           call'[c].op = call[c].op, call'[c].unit = call[c].unit, call'[c].rows = call[c].rows,
           call'[c].cut = call[c].cut, call'[c].at \in {"rows", "pool", "write"}
    PROVE  IInv'
<1>1. CallInv(c)
  BY DEF IInv
<1>2. CallInv(c)'
  BY <1>1 DEF CallInv, Placed, OfOneUnit, OfOneOwner, Locked, Anchored, OnChoreography, CutClean,
     NamedStay, ShownStays, Kept, RowsOf, Tables, Removals, OfChoreography, RefundChanges
<1> QED
  BY <1>2, QuietStep

LEMMA WriteSeminarRowStep ==
    ASSUME IInv, NEW c \in Calls, WriteSeminarRow(c)
    PROVE  IInv'
<1> DEFINE place == IF call[c].cut = {} THEN "pool" ELSE "write"
<1>1. /\ CallsInv /\ ExclusiveInv /\ held' = held /\ UNCHANGED rows
      /\ Become(c, [call[c] EXCEPT !.at = place])
      /\ call[c].op = "remove-seminar-row" /\ call[c].at = "rows"
  BY DEF WriteSeminarRow, RowsLocked, Go, IInv
<1>2. DOMAIN [call[c] EXCEPT !.at = place] = DOMAIN NoCall /\ place \in {"rows", "pool", "write"}
  BY <1>1 DEF CallsInv
<1> HIDE DEF place
<1>3. /\ Framed(c) /\ UNCHANGED Tables /\ held'[c] = held[c]
      /\ call'[c] = [call[c] EXCEPT !.at = place]
  BY <1>1, <1>2, BecomeMoves DEF rows, Tables
<1>4. /\ call'[c].op = call[c].op /\ call'[c].unit = call[c].unit /\ call'[c].rows = call[c].rows
      /\ call'[c].cut = call[c].cut /\ call'[c].at = place
  BY <1>1, <1>3 DEF CallsInv, NoCall
<1>5. call[c].op \in Removals /\ call[c].at \notin {"anchor", "choreography"}
  BY <1>1 DEF Removals
<1> QED
  BY <1>2, <1>3, <1>4, <1>5, CarryStep

LEMMA ReleaseAboveDepositStep ==
    ASSUME IInv, NEW c \in Calls, ReleaseAboveDeposit(c)
    PROVE  IInv'
<1>1. PICK moves : LockPool(c) /\ WithPool(c, [call[c] EXCEPT !.moves = moves])
  BY DEF ReleaseAboveDeposit
<1>2. /\ CallsInv /\ ExclusiveInv /\ call[c].op \in Removals /\ call[c].at = "pool"
      /\ DOMAIN [call[c] EXCEPT !.moves = moves] = DOMAIN NoCall
  BY DEF ReleaseAboveDeposit, LockPool, IInv, CallsInv, Removals
<1>3. /\ Framed(c) /\ UNCHANGED Tables /\ held'[c] = held[c] \cup NextPool(c)
      /\ call'[c] = [[call[c] EXCEPT !.moves = moves] EXCEPT !.at = "write"]
  BY <1>1, <1>2, PoolMoves
<1>4. /\ call'[c].op = call[c].op /\ call'[c].unit = call[c].unit /\ call'[c].rows = call[c].rows
      /\ call'[c].cut = call[c].cut /\ call'[c].at = "write"
  BY <1>2, <1>3 DEF CallsInv, NoCall
<1> QED
  BY <1>2, <1>3, <1>4, CarryStep

LEMMA LockPaymentPoolStep ==
    ASSUME IInv, NEW c \in Calls, NEW p \in Payments, LockPaymentPool(c, p)
    PROVE  IInv'
<1>1. CASE Refuse(c)
  BY <1>1, RefuseStep
<1>2. CASE ~Refuse(c)
  <2>1. /\ LockPool(c) /\ WithPool(c, call[c]) /\ CallsInv /\ ExclusiveInv
        /\ call[c].op \in {"edit-payment", "delete-payment"}
    BY <1>2 DEF LockPaymentPool, IInv
  <2>2. Framed(c) /\ UNCHANGED Tables /\ call'[c] = [call[c] EXCEPT !.at = "write"]
    BY <2>1, PoolMoves DEF CallsInv
  <2>3. call'[c].op = call[c].op /\ call'[c].at = "write"
    BY <2>1, <2>2 DEF CallsInv, NoCall
  <2> QED
    BY <2>1, <2>2, <2>3, MoneyStep
<1> QED
  BY <1>1, <1>2

\* A refund's call with its pool: the refund is the one it was shown.
LEMMA LockRefundPoolStep ==
    ASSUME IInv, NEW c \in Calls, LockRefundPool(c)
    PROVE  IInv'
<1>1. CASE Refuse(c)
  BY <1>1, RefuseStep
<1>2. CASE ~Refuse(c)
  <2>1. /\ LockPool(c) /\ WithPool(c, call[c]) /\ CallsInv /\ ExclusiveInv /\ CallInv(c)
        /\ call[c].op \in RefundChanges /\ RefundAllowed(c)
    BY <1>2 DEF LockRefundPool, IInv
  <2>2. /\ Framed(c) /\ UNCHANGED Tables /\ call'[c] = [call[c] EXCEPT !.at = "write"]
        /\ held'[c] = held[c] \cup NextPool(c)
    BY <2>1, PoolMoves DEF CallsInv
  <2>3. /\ call'[c].op = call[c].op /\ call'[c].scope = call[c].scope /\ call'[c].n = call[c].n
        /\ call'[c].item = call[c].item /\ call'[c].version = call[c].version /\ call'[c].at = "write"
    BY <2>1, <2>2 DEF CallsInv, NoCall
  <2>4. <<"pool", call[c].scope>> \in held'[c]
    <3>1. call[c].scope \in Nat /\ PoolsOf(c) = {call[c].scope}
      BY <2>1, OrderAssumption DEF CallInv, OfOneOwner, PoolsOf, RefundChanges
    <3> QED
      BY <2>2, <3>1 DEF NextPool, First
  <2>5. CallInv(c)'
    BY <2>1, <2>2, <2>3, <2>4 DEF RefundAllowed, CallInv, Placed, OfOneUnit, OfOneOwner, Locked,
       CutClean, NamedStay, ShownStays, Removals, OfChoreography, RefundChanges, Tables
  <2> QED
    BY <2>2, <2>5, QuietStep
<1> QED
  BY <1>1, <1>2

\* A merge moves on to the academies when it holds both pools.
LEMMA LockMergePoolStep ==
    ASSUME IInv, NEW c \in Calls, LockMergePool(c)
    PROVE  IInv'
<1> DEFINE place == IF PoolsOf(c) = {a \in PoolsOf(c) : <<"pool", a>> \in held'[c]} THEN "academies" ELSE "pool"
<1>1. /\ CallsInv /\ ExclusiveInv /\ CallInv(c) /\ call[c].op = "merge" /\ call[c].at = "pool"
      /\ Acquire(c, NextPool(c)) /\ Become(c, [call[c] EXCEPT !.at = place]) /\ UNCHANGED rows
  BY DEF LockMergePool, LockPool, Go, IInv
<1>2. PoolsOf(c) = {call[c].scope, call[c].into}
  BY <1>1 DEF PoolsOf
<1>3. place \in {"pool", "academies"} /\ (place = "academies" =>
        <<"pool", call[c].scope>> \in held'[c] /\ <<"pool", call[c].into>> \in held'[c])
  BY <1>2
<1>4. DOMAIN [call[c] EXCEPT !.at = place] = DOMAIN NoCall
  BY <1>1 DEF CallsInv
<1> HIDE DEF place
<1>5. Framed(c) /\ UNCHANGED Tables /\ call'[c] = [call[c] EXCEPT !.at = place]
  BY <1>1, <1>4, AcquireMoves DEF rows, Tables
<1>6. /\ call'[c].op = call[c].op /\ call'[c].scope = call[c].scope /\ call'[c].into = call[c].into
      /\ call'[c].at = place
  BY <1>1, <1>5 DEF CallsInv, NoCall
<1>7. CallInv(c)'
  BY <1>1, <1>3, <1>6 DEF CallInv, Placed, OfOneUnit, OfOneOwner, Locked, CutClean, NamedStay, ShownStays,
     Removals, OfChoreography, RefundChanges
<1> QED
  BY <1>5, <1>7, QuietStep

LEMMA LockAcademiesStep ==
    ASSUME IInv, NEW c \in Calls, LockAcademies(c)
    PROVE  IInv'
<1>1. CASE Refuse(c)
  BY <1>1, RefuseStep
<1>2. CASE ~Refuse(c)
  <2>1. /\ CallsInv /\ ExclusiveInv /\ CallInv(c) /\ call[c].at = "academies" /\ UNCHANGED rows
        /\ Acquire(c, {"academy"} \X PoolsOf(c)) /\ Become(c, [call[c] EXCEPT !.at = "write"])
    BY <1>2 DEF LockAcademies, Go, IInv
  <2>2. DOMAIN [call[c] EXCEPT !.at = "write"] = DOMAIN NoCall
    BY <2>1 DEF CallsInv
  <2>3. /\ Framed(c) /\ UNCHANGED Tables /\ call'[c] = [call[c] EXCEPT !.at = "write"]
        /\ held[c] \subseteq held'[c]
    BY <2>1, <2>2, AcquireMoves DEF rows, Tables
  <2>4. /\ call'[c].op = "merge" /\ call'[c].scope = call[c].scope /\ call'[c].into = call[c].into
        /\ call'[c].at = "write" /\ call[c].op = "merge"
    BY <2>1, <2>3 DEF CallsInv, NoCall, CallInv, Placed
  <2>5. CallInv(c)'
    BY <2>1, <2>3, <2>4 DEF CallInv, Placed, OfOneUnit, OfOneOwner, Locked, CutClean, NamedStay, ShownStays,
       Removals, OfChoreography, RefundChanges
  <2> QED
    BY <2>3, <2>5, QuietStep
<1> QED
  BY <1>1, <1>2

-----------------------------------------------------------------------------
\* A CALL WRITES

\* The commit of a removal: what it deletes has no document, no other removal
\* of the choreography is past its locks, and no emission names what goes.
LEMMA CommitRemovalStep ==
    ASSUME IInv, NEW c \in Calls, CommitRemoval(c)
    PROVE  IInv'
<1> DEFINE u == call[c].unit
           cut == call[c].cut
<1>1. /\ call[c].op \in Removals /\ call[c].at = "write" /\ End(c)
      /\ roster' = [i \in Inscriptions |->
                       IF i \in cut THEN "deleted"
                       ELSE IF i \in call[c].rows /\ roster[i] # "deleted" THEN "withdrawn" ELSE roster[i]]
      /\ unit' = IF call[c].op = "remove-choreography"
                  THEN [unit EXCEPT ![u] = IF cut = Kept(u) THEN "deleted" ELSE "withdrawn"] ELSE unit
      /\ UNCHANGED <<document, academyOf, refund, nextRefund>>
  BY DEF CommitRemoval, Removals
<1>2. /\ RowsInv /\ CallsInv /\ ExclusiveInv /\ CallInv(c) /\ DocumentedKeepsRow
      /\ \A i \in cut : document[i] = "none"
      /\ cut \subseteq RowsOf(u) /\ u \in Units
      /\ call[c].op = "remove-choreography" /\ cut # {} => cut = Kept(u)
      /\ call[c].op = "remove-seminar-row" <=> u \notin Choreographies
      /\ call[c].op # "remove-choreography" => <<"anchor", u>> \in held[c]
      /\ call[c].op # "remove-seminar-row" => <<"choreography", u>> \in held[c] /\ unit[u] = "standing"
  BY <1>1 DEF IInv, CallInv, OfOneUnit, CutClean, Locked, Anchored, OnChoreography, Removals, OfChoreography
<1>3. RowsInv' /\ DocumentedKeepsRow'
  BY <1>1, <1>2 DEF RowsInv, DocumentedKeepsRow
<1>4. Framed(c) /\ CallInv(c)'
  BY <1>1, <1>2, EndMoves
<1>5. CallsInv' /\ ExclusiveInv'
  BY <1>2, <1>4 DEF CallsInv, ExclusiveInv, Framed
<1>6. \A i \in Inscriptions : /\ roster'[i] = "deleted" <=> roster[i] = "deleted" \/ i \in cut
                              /\ i \in cut => UnitOf[i] = u
  BY <1>1, <1>2 DEF RowsOf
<1>7. ASSUME NEW d \in Calls, d # c
      PROVE  CallInv(d)'
  <2>1. /\ call'[d] = call[d] /\ held'[d] = held[d] /\ held[c] \cap held[d] = {} /\ CallInv(d)
    BY <1>2, <1>4, <1>7 DEF Framed, ExclusiveInv, IInv
  <2>2. /\ Placed(d)' /\ OfOneUnit(d)' /\ OfOneOwner(d)' /\ Locked(d)' /\ ShownStays(d)'
    BY <1>1, <2>1 DEF CallInv, Placed, OfOneUnit, OfOneOwner, Locked, Anchored, OnChoreography,
       ShownStays, RowsOf
  <2>3. CutClean(d)'
    <3>1. CASE call[d].op = "remove-choreography" /\ call[d].cut # {}
      <4>1. /\ call[d].cut = Kept(call[d].unit) /\ call[d].unit \in Choreographies
            /\ <<"choreography", call[d].unit>> \in held[d]
        BY <2>1, <3>1 DEF CallInv, CutClean, Locked, OnChoreography, OfOneUnit, Removals, OfChoreography
      <4>2. call[d].unit # u
        BY <1>1, <1>2, <2>1, <4>1
      <4>3. Kept(call[d].unit)' = Kept(call[d].unit)
        <5>1. \A i \in RowsOf(call[d].unit) : roster'[i] = "deleted" <=> roster[i] = "deleted"
          BY <1>6, <4>2 DEF RowsOf
        <5> QED
          BY <2>1, <5>1 DEF Kept, RowsOf
      <4>4. unit'[call[d].unit] = unit[call[d].unit]
        BY <1>1, <1>2, <4>2 DEF RowsInv
      <4> QED
        BY <1>1, <2>1, <4>1, <4>3, <4>4 DEF CallInv, CutClean
    <3>2. CASE ~(call[d].op = "remove-choreography" /\ call[d].cut # {})
      <4>1. ASSUME call[d].op \in OfChoreography, call[d].at \notin {"anchor", "choreography"}
            PROVE  unit'[call[d].unit] = "standing"
        <5>1. /\ <<"choreography", call[d].unit>> \in held[d] /\ unit[call[d].unit] = "standing"
          BY <2>1, <4>1 DEF CallInv, CutClean, Locked, OnChoreography, Removals, OfChoreography
        <5>2. call[c].op = "remove-choreography" => call[d].unit # u
          BY <1>2, <2>1, <5>1
        <5> QED
          BY <1>1, <1>2, <5>1, <5>2 DEF RowsInv
      <4> QED
        BY <1>1, <2>1, <3>2, <4>1 DEF CallInv, CutClean
    <3> QED
      BY <3>1, <3>2
  <2>4. NamedStay(d)'
    <3> SUFFICES ASSUME call[d].op = "emit", call[d].at = "reserve"
                 PROVE  unit'[call[d].unit] = "deleted" \/ \A i \in call[d].rows : roster'[i] # "deleted"
      BY <2>1 DEF NamedStay
    <3>1. /\ <<"anchor", call[d].unit>> \in held[d] /\ call[d].rows \subseteq RowsOf(call[d].unit)
          /\ call[d].unit \in Units
          /\ unit[call[d].unit] = "deleted" \/ \A i \in call[d].rows : roster[i] # "deleted"
      BY <2>1 DEF CallInv, Locked, Anchored, OfOneUnit, NamedStay
    <3>2. CASE call[d].unit # u
      BY <1>1, <1>2, <1>6, <3>1, <3>2 DEF RowsInv, RowsOf
    <3>3. CASE call[d].unit = u
      <4>1. call[c].op = "remove-choreography"
        BY <1>1, <1>2, <2>1, <3>1, <3>3
      <4>2. CASE cut # {}
        BY <1>1, <1>2, <3>3, <4>1, <4>2 DEF RowsInv
      <4>3. CASE cut = {}
        <5>1. \A i \in call[d].rows : roster[i] # "deleted" => roster'[i] # "deleted"
          BY <1>6, <3>1, <4>3 DEF RowsOf
        <5> QED
          BY <1>2, <3>1, <3>3, <4>1, <5>1
      <4> QED
        BY <4>2, <4>3
    <3> QED
      BY <3>2, <3>3
  <2> QED
    BY <2>2, <2>3, <2>4 DEF CallInv
<1> QED
  BY <1>3, <1>4, <1>5, <1>7 DEF IInv

\* An emission reserves lines whose rows stand: a removal that is past its
\* decision holds the anchor, or the choreography the reservation waits for.
LEMMA ReserveLinesStep ==
    ASSUME IInv, NEW c \in Calls, ReserveLines(c)
    PROVE  IInv'
<1>1. CASE Refuse(c)
  BY <1>1, RefuseStep
<1>2. CASE ~Refuse(c)
  <2> DEFINE u == call[c].unit
             named == call[c].rows
  <2>1. /\ call[c].at = "reserve" /\ NotHeldByOthers(c, WriteNeeds(c)) /\ unit[u] # "deleted"
        /\ document' = [i \in Inscriptions |-> IF i \in named THEN "reserved" ELSE document[i]]
        /\ Become(c, [call[c] EXCEPT !.at = "settle"]) /\ held' = held
        /\ UNCHANGED <<roster, unit, academyOf, refund, nextRefund>>
    BY <1>2 DEF ReserveLines, Go
  <2>2. /\ RowsInv /\ CallsInv /\ ExclusiveInv /\ CallInv(c) /\ DocumentedKeepsRow
        /\ call[c].op = "emit" /\ u \in Units /\ named \subseteq RowsOf(u) /\ <<"anchor", u>> \in held[c]
        /\ \A i \in named : roster[i] # "deleted"
    BY <2>1 DEF IInv, CallInv, Placed, OfOneUnit, Locked, Anchored, NamedStay
  <2>3. DOMAIN [call[c] EXCEPT !.at = "settle"] = DOMAIN NoCall
    BY <2>2 DEF CallsInv
  <2>4. Framed(c) /\ call'[c] = [call[c] EXCEPT !.at = "settle"] /\ held'[c] = held[c]
    BY <2>1, <2>2, <2>3, BecomeMoves
  <2>5. /\ call'[c].op = "emit" /\ call'[c].unit = u /\ call'[c].rows = named
        /\ call'[c].cut = call[c].cut /\ call'[c].at = "settle"
    BY <2>2, <2>4 DEF CallsInv, NoCall
  <2>6. CallInv(c)'
    BY <2>2, <2>4, <2>5 DEF CallInv, Placed, OfOneUnit, OfOneOwner, Locked, Anchored, CutClean,
       NamedStay, ShownStays, RowsOf, Removals, OfChoreography, RefundChanges
  <2>7. RowsInv' /\ DocumentedKeepsRow'
    BY <2>1, <2>2 DEF RowsInv, DocumentedKeepsRow
  <2>8. CallsInv' /\ ExclusiveInv'
    BY <2>2, <2>4 DEF CallsInv, ExclusiveInv, Framed
  <2>9. ASSUME NEW d \in Calls, d # c
        PROVE  CallInv(d)'
    <3>1. /\ call'[d] = call[d] /\ held'[d] = held[d] /\ held[c] \cap held[d] = {} /\ CallInv(d)
      BY <2>2, <2>4, <2>9 DEF Framed, ExclusiveInv, IInv
    <3>2. /\ Placed(d)' /\ OfOneUnit(d)' /\ OfOneOwner(d)' /\ Locked(d)' /\ NamedStay(d)' /\ ShownStays(d)'
      BY <2>1, <3>1 DEF CallInv, Placed, OfOneUnit, OfOneOwner, Locked, Anchored, OnChoreography,
         NamedStay, ShownStays, RowsOf
    <3>3. ASSUME call[d].op \in Removals, NEW i \in call[d].cut
          PROVE  document'[i] = "none"
      <4>1. /\ document[i] = "none" /\ i \in RowsOf(call[d].unit)
            /\ call[d].at \notin {"anchor", "choreography"}
        BY <3>1, <3>3 DEF CallInv, CutClean, OfOneUnit
      <4>2. CASE call[d].unit # u
        BY <2>1, <2>2, <4>1, <4>2 DEF RowsOf
      <4>3. CASE call[d].unit = u /\ call[d].op = "remove-choreography"
        <5>1. <<"choreography", u>> \in held[d] /\ u \in Choreographies
          BY <3>1, <3>3, <4>1, <4>3 DEF CallInv, Locked, OnChoreography, OfOneUnit, Removals, OfChoreography
        <5>2. <<"choreography", u>> \in WriteNeeds(c)
          BY <2>2, <5>1 DEF WriteNeeds
        <5> QED
          BY <2>1, <2>9, <5>1, <5>2 DEF NotHeldByOthers
      <4>4. CASE call[d].unit = u /\ call[d].op # "remove-choreography"
        BY <2>2, <3>1, <3>3, <4>1, <4>4 DEF CallInv, Locked, Anchored, Removals
      <4> QED
        BY <4>2, <4>3, <4>4
    <3>4. CutClean(d)'
      BY <2>1, <3>1, <3>3 DEF CallInv, CutClean, Kept, RowsOf
    <3> QED
      BY <3>2, <3>4 DEF CallInv
  <2> QED
    BY <2>6, <2>7, <2>8, <2>9 DEF IInv
<1> QED
  BY <1>1, <1>2

\* What a reservation's end writes: no inscription gets its first document.
LEMMA SettledStep ==
    ASSUME IInv, NEW u \in Units, NEW outcome \in {"recorded", "none", "reserved"}, Settled(u, outcome),
           UNCHANGED <<roster, unit, academyOf, refund, nextRefund>>
    PROVE  /\ RowsInv' /\ DocumentedKeepsRow'
           /\ \A i \in Inscriptions : document[i] = "none" => document'[i] = "none"
BY DEF IInv, RowsInv, DocumentedKeepsRow, Settled

LEMMA SettledCall ==
    ASSUME IInv, NEW d \in Calls, call'[d] = call[d], held'[d] = held[d],
           UNCHANGED <<roster, unit, academyOf, refund, nextRefund>>,
           \A i \in Inscriptions : document[i] = "none" => document'[i] = "none"
    PROVE  CallInv(d)'
<1>1. CallInv(d) /\ (call[d].op \in Removals => call[d].cut \subseteq Inscriptions)
  BY DEF IInv, CallInv, OfOneUnit, RowsOf
<1> QED
  BY <1>1 DEF CallInv, Placed, OfOneUnit, OfOneOwner, Locked, Anchored, OnChoreography, CutClean,
     NamedStay, ShownStays, Kept, RowsOf

LEMMA SettleEmissionStep ==
    ASSUME IInv, NEW c \in Calls, SettleEmission(c)
    PROVE  IInv'
<1>1. PICK outcome \in {"recorded", "none", "reserved"} : Settled(call[c].unit, outcome)
  BY DEF SettleEmission
<1>2. /\ End(c) /\ UNCHANGED <<roster, unit, academyOf, refund, nextRefund>>
      /\ call[c].unit \in Units
  BY DEF SettleEmission, IInv, CallInv, Placed, OfOneUnit
<1>3. Framed(c) /\ CallInv(c)'
  BY <1>2, EndMoves DEF IInv
<1>4. \A d \in Calls \ {c} : CallInv(d)'
  BY <1>1, <1>2, <1>3, SettledStep, SettledCall DEF Framed
<1>5. CallsInv' /\ ExclusiveInv'
  BY <1>3 DEF IInv, CallsInv, ExclusiveInv, Framed
<1> QED
  BY <1>1, <1>2, <1>3, <1>4, <1>5, SettledStep DEF IInv

LEMMA SettleReservationStep ==
    ASSUME IInv, NEW u \in Units, SettleReservation(u)
    PROVE  IInv'
<1>1. PICK outcome \in {"recorded", "none", "reserved"} : Settled(u, outcome)
  BY DEF SettleReservation
<1>2. UNCHANGED <<roster, unit, academyOf, refund, nextRefund, held, call>>
  BY DEF SettleReservation
<1>3. \A d \in Calls : CallInv(d)'
  BY <1>1, <1>2, SettledStep, SettledCall
<1>4. CallsInv' /\ ExclusiveInv'
  BY <1>2 DEF IInv, CallsInv, ExclusiveInv
<1> QED
  BY <1>1, <1>2, <1>3, <1>4, SettledStep DEF IInv

\* When only refunds or owners change, another call's invariant is what it was
\* shown.
LEMMA RefundCall ==
    ASSUME IInv, NEW d \in Calls, call'[d] = call[d], held'[d] = held[d],
           UNCHANGED <<roster, document, unit>>, ShownStays(d)'
    PROVE  CallInv(d)'
BY DEF IInv, CallInv, Placed, OfOneUnit, OfOneOwner, Locked, Anchored, OnChoreography, CutClean,
   NamedStay, Kept, RowsOf

\* A refund is written by the holder of its pool, or under a number of its own.
LEMMA WriteRefundStep ==
    ASSUME IInv, NEW c \in Calls, WriteRefund(c)
    PROVE  IInv'
<1> DEFINE r == IF call[c].op = "register-refund" THEN nextRefund ELSE call[c].item
           written == [owner |-> call[c].scope, amount |-> call[c].n, version |-> refund[r].version + 1]
<1>1. /\ call[c].op \in RefundChanges /\ call[c].at = "write" /\ r \in Refunds /\ End(c)
      /\ refund' = [refund EXCEPT ![r] = written]
      /\ nextRefund' = IF call[c].op = "register-refund" THEN r + 1 ELSE nextRefund
      /\ UNCHANGED <<roster, document, unit, academyOf>>
  BY DEF WriteRefund
<1>2. RowsInv /\ CallsInv /\ ExclusiveInv /\ CallInv(c)
  BY DEF IInv
<1>3. call[c].scope \in Academies /\ call[c].n \in Nat /\ <<"pool", call[c].scope>> \in held[c]
  BY <1>1, <1>2 DEF CallInv, OfOneOwner, Locked
<1>4. refund[r].version + 1 \in Nat /\ written \in [owner : Academies, amount : Nat, version : Nat]
  BY <1>1, <1>2, <1>3 DEF RowsInv
<1>5. call[c].op # "register-refund" => refund[r].amount > 0 /\ refund[r].owner = call[c].scope
  BY <1>1, <1>2 DEF CallInv, ShownStays, RefundChanges
<1> HIDE DEF written
<1>6. RowsInv'
  <2>1. \A q \in Refunds : refund'[q].amount > 0 => q < nextRefund'
    <3> TAKE q \in Refunds
    <3>1. q \in Nat /\ r \in Nat /\ nextRefund \in Nat
      BY <1>1, <1>2, NumbersAssumption DEF RowsInv
    <3>2. CASE q = r
      BY <1>1, <1>2, <1>5, <3>1, <3>2 DEF RowsInv
    <3>3. CASE q # r
      BY <1>1, <1>2, <3>1, <3>3 DEF RowsInv
    <3> QED
      BY <3>2, <3>3
  <2>2. nextRefund' \in Nat
    BY <1>1, <1>2 DEF RowsInv
  <2> QED
    BY <1>1, <1>2, <1>4, <2>1, <2>2 DEF RowsInv
<1>7. Framed(c) /\ CallInv(c)'
  BY <1>1, <1>2, EndMoves
<1>8. CallsInv' /\ ExclusiveInv' /\ DocumentedKeepsRow'
  BY <1>1, <1>2, <1>7 DEF IInv, CallsInv, ExclusiveInv, Framed, DocumentedKeepsRow
<1>9. ASSUME NEW d \in Calls, d # c
      PROVE  CallInv(d)'
  <2>1. /\ call'[d] = call[d] /\ held'[d] = held[d] /\ held[c] \cap held[d] = {} /\ CallInv(d)
    BY <1>2, <1>7, <1>9 DEF Framed, ExclusiveInv, IInv
  <2>2. ShownStays(d)'
    <3> SUFFICES ASSUME call[d].at = "write", call[d].op \in {"edit-refund", "delete-refund"}
                 PROVE  call[d].item # r /\ call[d].item \in Refunds
      BY <1>1, <1>2, <2>1 DEF CallInv, ShownStays, RowsInv
    <3>1. /\ call[d].item \in Refunds /\ <<"pool", call[d].scope>> \in held[d]
          /\ refund[call[d].item].amount > 0 /\ refund[call[d].item].owner = call[d].scope
      BY <2>1 DEF CallInv, OfOneOwner, Locked, ShownStays, RefundChanges
    <3>2. CASE call[c].op = "register-refund"
      BY <1>2, <3>1, <3>2 DEF RowsInv
    <3>3. CASE call[c].op # "register-refund"
      BY <1>3, <1>5, <2>1, <3>1, <3>3
    <3> QED
      BY <3>1, <3>2, <3>3
  <2> QED
    BY <1>1, <2>1, <2>2, RefundCall
<1> QED
  BY <1>6, <1>7, <1>8, <1>9 DEF IInv

\* A merge moves the refunds of a pool it holds.
LEMMA CommitMergeStep ==
    ASSUME IInv, NEW c \in Calls, CommitMerge(c)
    PROVE  IInv'
<1>1. CASE Refuse(c)
  BY <1>1, RefuseStep
<1>2. CASE ~Refuse(c)
  <2> DEFINE from == call[c].scope
             to == call[c].into
             Moves(row) == IF row.owner = from THEN [[row EXCEPT !.owner = to] EXCEPT !.version = @ + 1]
                                               ELSE row
  <2>1. /\ call[c].op = "merge" /\ call[c].at = "write" /\ End(c)
        /\ academyOf' = [u \in Units |-> IF academyOf[u] = from THEN to ELSE academyOf[u]]
        /\ refund' = [r \in Refunds |-> Moves(refund[r])]
        /\ UNCHANGED <<roster, document, unit, nextRefund>>
    BY <1>2 DEF CommitMerge
  <2>2. /\ RowsInv /\ CallsInv /\ ExclusiveInv /\ CallInv(c)
        /\ to \in Academies /\ <<"pool", from>> \in held[c]
    BY <2>1 DEF IInv, CallInv, OfOneOwner, Locked
  <2>3. \A r \in Refunds : /\ refund'[r] \in [owner : Academies, amount : Nat, version : Nat]
                           /\ refund'[r].amount = refund[r].amount
                           /\ refund[r].owner # from => refund'[r] = refund[r]
    <3> TAKE r \in Refunds
    <3>1. refund[r] \in [owner : Academies, amount : Nat, version : Nat] /\ refund'[r] = Moves(refund[r])
      BY <2>1, <2>2 DEF RowsInv
    <3>2. refund[r].version \in Nat /\ refund[r].version + 1 \in Nat
      BY <3>1
    <3> QED
      BY <2>2, <3>1, <3>2
  <2>4. RowsInv'
    BY <2>1, <2>2, <2>3 DEF RowsInv
  <2>5. Framed(c) /\ CallInv(c)'
    BY <2>1, <2>2, EndMoves
  <2>6. CallsInv' /\ ExclusiveInv' /\ DocumentedKeepsRow'
    BY <2>1, <2>2, <2>5 DEF IInv, CallsInv, ExclusiveInv, Framed, DocumentedKeepsRow
  <2>7. ASSUME NEW d \in Calls, d # c
        PROVE  CallInv(d)'
    <3>1. /\ call'[d] = call[d] /\ held'[d] = held[d] /\ held[c] \cap held[d] = {} /\ CallInv(d)
      BY <2>2, <2>5, <2>7 DEF Framed, ExclusiveInv, IInv
    <3>2. ShownStays(d)'
      <4> SUFFICES ASSUME call[d].at = "write", call[d].op \in {"edit-refund", "delete-refund"}
                   PROVE  call[d].item \in Refunds /\ refund[call[d].item].owner # from
        BY <2>3, <3>1 DEF CallInv, ShownStays
      <4> QED
        BY <2>2, <3>1 DEF CallInv, OfOneOwner, Locked, ShownStays, RefundChanges
    <3> QED
      BY <2>1, <3>1, <3>2, RefundCall
  <2> QED
    BY <2>4, <2>5, <2>6, <2>7 DEF IInv
<1> QED
  BY <1>1, <1>2

-----------------------------------------------------------------------------
\* THE INVARIANT

\* Every step of a running call.
LEMMA CallStep ==
    ASSUME IInv, NEW c \in Calls, Step(c)
    PROVE  IInv'
<1>1. CASE MoveMoney(c) \/ \E p \in Payments : UpdatePayment(c, p) \/ DeletePayment(c, p)
  BY <1>1, EndStep DEF MoveMoney, UpdatePayment, DeletePayment, Tables
<1>2. CASE DeadlockVictim(c)
  BY <1>2, RefuseStep DEF DeadlockVictim
<1> QED
  BY <1>1, <1>2, ReadGestureStep, ReadDepositReleaseStep, UnwindFromRowStep, ReadChargeStep, FundFromPoolStep,
     LockRowStep, LockAnchorStep, LockChoreographyStep, DecideRosterRemovalStep,
     DecideChoreographyRemovalStep, DecideSeminarRemovalStep, WriteSeminarRowStep, ReleaseAboveDepositStep,
     CommitRemovalStep, ReserveLinesStep, SettleEmissionStep, LockPaymentPoolStep, LockRefundPoolStep,
     WriteRefundStep, LockMergePoolStep, LockAcademiesStep, CommitMergeStep
     DEF Step

\* Nothing these proofs read changes.
LEMMA IdleStep ==
    ASSUME IInv, UNCHANGED <<roster, document, unit, academyOf, refund, nextRefund, held, call>>
    PROVE  IInv'
<1>1. RowsInv' /\ CallsInv' /\ ExclusiveInv' /\ DocumentedKeepsRow'
  BY DEF IInv, RowsInv, CallsInv, ExclusiveInv, DocumentedKeepsRow
<1>2. ASSUME NEW d \in Calls
      PROVE  CallInv(d)'
  BY DEF IInv, CallInv, Placed, OfOneUnit, OfOneOwner, Locked, Anchored, OnChoreography, CutClean,
     NamedStay, ShownStays, Kept, RowsOf
<1> QED
  BY <1>1, <1>2 DEF IInv

LEMMA ElsewhereStep ==
    ASSUME IInv, Elsewhere
    PROVE  IInv'
<1>1. CASE \E u \in Units : SettleReservation(u)
  BY <1>1, SettleReservationStep
<1>2. CASE ~\E u \in Units : SettleReservation(u)
  <2>1. UNCHANGED <<roster, document, unit, academyOf, refund, nextRefund, held, call>>
    BY <1>2 DEF Elsewhere, Quiet, RegisterPayment, Waive, Unwaive, TotalMoves, vars, rows
  <2> QED
    BY <2>1, IdleStep
<1> QED
  BY <1>1, <1>2

\* The invariant holds in every state, however the calls and their steps interleave.
THEOREM Inductive == Spec => []IInv
<1>1. ASSUME Init
      PROVE  IInv
  <2>1. RowsInv
    <3>1. (CHOOSE a \in Academies : TRUE) \in Academies
      BY OrderAssumption
    <3> QED
      BY <1>1, <3>1, UnitAssumption DEF Init, RowsInv
  <2>2. CallsInv /\ ExclusiveInv /\ DocumentedKeepsRow
    BY <1>1 DEF Init, CallsInv, ExclusiveInv, DocumentedKeepsRow
  <2>3. ASSUME NEW c \in Calls
        PROVE  CallInv(c)
    <3>1. call[c].op = "none" /\ call[c].at = "idle"
      BY <1>1 DEF Init, NoCall
    <3> QED
      BY <3>1 DEF CallInv, Placed, OfOneUnit, OfOneOwner, Locked, CutClean, NamedStay, ShownStays,
         Removals, OfChoreography, RefundChanges
  <2> QED
    BY <2>1, <2>2, <2>3 DEF IInv
<1>2. ASSUME IInv, [Next]_vars
      PROVE  IInv'
  <2>1. CASE UNCHANGED vars
    <3>1. UNCHANGED <<roster, document, unit, academyOf, refund, nextRefund, held, call>>
      BY <2>1 DEF vars, rows
    <3> QED
      BY <1>2, <3>1, IdleStep
  <2> QED
    BY <1>2, <2>1, StartStep, CallStep, ElsewhereStep DEF Next
<1> QED
  BY <1>1, <1>2, PTL DEF Spec

\* The inscription a comprobante or a live reservation names is never deleted,
\* whatever roster saves, removals and emissions run at once.
THEOREM DocumentedRowsStay == Spec => []DocumentedKeepsRow
<1>1. IInv => DocumentedKeepsRow
  BY DEF IInv
<1> QED
  BY <1>1, Inductive, PTL

\* A call about to write a refund has the refund its page showed, under any
\* edits, deletions and merges of academies.
THEOREM RefundsAreThoseShown == Spec => []RefundWrittenIsTheOneShown
<1>1. IInv => RefundWrittenIsTheOneShown
  BY DEF IInv, CallInv, ShownStays, RefundWrittenIsTheOneShown, RefundChanges
<1> QED
  BY <1>1, Inductive, PTL

-----------------------------------------------------------------------------
\* THE PRICES OF A CALL

\* Who puts money on inscriptions: only they are given a price, for rows they lock.
Payers == Charges \cup {"allocate"}
PricedAs(f) ==
    /\ f.pick \in Prices \cup {None}
    /\ f.rate \in [Inscriptions -> Prices \cup {None}]
    /\ f.pick # None => f.op \in Payers /\ f.onPrice \subseteq f.rows
PriceInv ==
    /\ stored \in [Inscriptions -> Prices \cup {None}]
    /\ today \in [Inscriptions -> Prices]
    /\ \A c \in Calls : PricedAs(call[c])

\* The price a row is read at is one of the list.
LEMMA EffectiveIn ==
    ASSUME NEW price \in Prices \cup {None}, NEW now \in Prices, NEW money
    PROVE  Effective(price, now, money) \in Prices
BY DEF Effective, Covers

LEMMA PricesRead ==
    ASSUME PriceInv, NEW c \in Calls, NEW i \in Inscriptions
    PROVE  /\ stored[i] \in Prices \cup {None} /\ today[i] \in Prices /\ PriceOf(i) \in Prices
           /\ Taken(c, i) \in Prices \cup {None} /\ StoredBy(c, i) \in Prices \cup {None}
           /\ Found(c, i) \in Prices /\ Rate(c, i) \in Prices
<1>1. /\ stored[i] \in Prices \cup {None} /\ today[i] \in Prices /\ call[c].pick \in Prices \cup {None}
      /\ call[c].rate[i] \in Prices \cup {None}
  BY DEF PriceInv, PricedAs
<1>2. Taken(c, i) \in Prices \cup {None} /\ StoredBy(c, i) \in Prices \cup {None}
  BY <1>1 DEF Taken, StoredBy
<1>3. PriceOf(i) \in Prices /\ Found(c, i) \in Prices
  BY <1>1, <1>2, EffectiveIn DEF PriceOf, Found
<1>4. Rate(c, i) \in Prices
  BY <1>1, <1>2, EffectiveIn DEF Rate
<1> QED
  BY <1>1, <1>2, <1>3, <1>4

LEMMA AskedNat ==
    ASSUME NEW op, NEW price \in Prices, NEW money \in Nat
    PROVE  Asked(op, price, money) \in Nat
<1>1. DepositAt[price] \in Nat /\ TotalAt[price] \in Nat
  BY PriceAssumption
<1> QED
  BY <1>1 DEF Asked, AtLeastZero, Larger

LEMMA PricesBecome ==
    ASSUME IInv, PriceInv, NEW c \in Calls, NEW f, Become(c, f), PricedAs(f), UNCHANGED <<stored, today>>
    PROVE  PriceInv'
<1>1. \A d \in Calls : call'[d] = IF d = c THEN f ELSE call[d]
  BY DEF IInv, CallsInv, Become
<1>2. \A d \in Calls : PricedAs(call'[d])
  BY <1>1 DEF PriceInv
<1> QED
  BY <1>2 DEF PriceInv

LEMMA PricesGoOn ==
    ASSUME IInv, PriceInv, NEW c \in Calls, NEW f, Become(c, f), UNCHANGED <<stored, today>>,
           f.op = call[c].op, f.pick = call[c].pick, f.rate = call[c].rate,
           f.onPrice = call[c].onPrice, f.rows = call[c].rows \/ call[c].op \notin Payers
    PROVE  PriceInv'
<1>1. PricedAs(f)
  BY DEF PriceInv, PricedAs
<1> QED
  BY <1>1, PricesBecome

LEMMA PricesEnd ==
    ASSUME IInv, PriceInv, NEW c \in Calls, End(c), today' = today,
           stored' \in [Inscriptions -> Prices \cup {None}]
    PROVE  PriceInv'
<1>1. \A d \in Calls : call'[d] = IF d = c THEN NoCall ELSE call[d]
  BY DEF IInv, CallsInv, End
<1>2. PricedAs(NoCall)
  BY DEF PricedAs, NoCall, NoRates
<1>3. \A d \in Calls : PricedAs(call'[d])
  BY <1>1, <1>2 DEF PriceInv
<1> QED
  BY <1>3 DEF PriceInv

LEMMA PricesRefused ==
    ASSUME IInv, PriceInv, NEW c \in Calls, Refuse(c)
    PROVE  PriceInv'
BY PricesEnd DEF Refuse, rows, PriceInv

LEMMA PricesStart ==
    ASSUME IInv, PriceInv, NEW c \in Calls, Start(c)
    PROVE  PriceInv'
<1>1. \A f : Begin(c, f) => Become(c, f) /\ UNCHANGED <<stored, today>>
  BY DEF Begin, Become, rows
<1>2. \A f : f.pick = None /\ f.rate = NoRates => PricedAs(f)
  BY DEF PricedAs, NoRates
<1>3. ASSUME NEW f, Begin(c, f), PricedAs(f)
      PROVE  PriceInv'
  BY <1>1, <1>3, PricesBecome
<1>4. ASSUME NEW op \in Gestures, NEW i \in Inscriptions, NEW n \in Amount, NEW pick \in Prices \cup {None},
             StartGesture(c, op, i, n, pick)
      PROVE  PriceInv'
  <2> DEFINE f == [NoCall EXCEPT !.op = op, !.at = "rows", !.unit = UnitOf[i], !.rows = {i},
                                 !.scope = Owner(i), !.n = n, !.pick = pick]
  <2>1. Begin(c, f) /\ (pick # None => op = "allocate")
    BY <1>4 DEF StartGesture
  <2>2. f.op = op /\ f.pick = pick /\ f.rate = NoRates /\ f.onPrice = {}
    BY DEF NoCall
  <2> HIDE DEF f
  <2>3. PricedAs(f)
    BY <2>1, <2>2 DEF PricedAs, NoRates, Payers
  <2> QED
    BY <1>3, <2>1, <2>3
<1>5. ASSUME NEW op \in Charges, NEW u \in Units, NEW pick \in Prices \cup {None}, StartCharge(c, op, u, pick)
      PROVE  PriceInv'
  <2> DEFINE f == [NoCall EXCEPT !.op = op, !.at = "rows", !.unit = u, !.rows = ActiveRows(u),
                                 !.scope = academyOf[u], !.pick = pick]
  <2>1. Begin(c, f)
    BY <1>5 DEF StartCharge
  <2>2. f.op = op /\ f.pick = pick /\ f.rate = NoRates /\ f.onPrice = {}
    BY DEF NoCall
  <2> HIDE DEF f
  <2>3. PricedAs(f)
    BY <2>1, <2>2 DEF PricedAs, NoRates, Payers
  <2> QED
    BY <1>3, <2>1, <2>3
<1>6. ASSUME NEW u \in Units, NEW S, StartRosterSync(c, u, S) \/ StartChoreographyRemoval(c, u)
      PROVE  PriceInv'
  BY <1>2, <1>3, <1>6 DEF StartRosterSync, StartChoreographyRemoval, NoCall
<1>7. ASSUME NEW i \in Inscriptions, StartSeminarRemoval(c, i)
      PROVE  PriceInv'
  BY <1>2, <1>3, <1>7 DEF StartSeminarRemoval, NoCall
<1>8. ASSUME NEW u \in Units, NEW S, StartEmission(c, u, S)
      PROVE  PriceInv'
  BY <1>2, <1>8, PricesBecome DEF StartEmission, NoCall, rows
<1>9. ASSUME NEW op, NEW p, NEW n, NEW a, StartPaymentChange(c, op, p, n, a) \/ StartRefundChange(c, op, p, n)
      PROVE  PriceInv'
  BY <1>2, <1>3, <1>9 DEF StartPaymentChange, StartRefundChange, NoCall
<1>10. ASSUME NEW a, NEW b, StartRefund(c, a, b) \/ StartMerge(c, a, b)
       PROVE  PriceInv'
  BY <1>2, <1>3, <1>10 DEF StartRefund, StartMerge, NoCall
<1> QED
  BY <1>4, <1>5, <1>6, <1>7, <1>8, <1>9, <1>10 DEF Start

\* What a gesture or a charge decides, and where it writes the prices.
LEMMA PricesDecided ==
    ASSUME IInv, PriceInv, NEW c \in Calls,
           ReadCharge(c) \/ MoveMoney(c) \/ \E i \in Inscriptions : ReadGesture(c, i)
    PROVE  PriceInv'
<1>0. CallsInv /\ DOMAIN call[c] = DOMAIN NoCall /\ PricedAs(call[c])
  BY DEF IInv, CallsInv, PriceInv
<1>1. CASE Refuse(c)
  BY <1>1, PricesRefused
<1>2. CASE MoveMoney(c)
  <2>1. \A i \in Inscriptions : StoredBy(c, i) \in Prices \cup {None}
    BY PricesRead
  <2> QED
    BY <1>2, <2>1, PricesEnd DEF MoveMoney
<1>3. ASSUME NEW i \in Inscriptions, ReadGesture(c, i), ~Refuse(c)
      PROVE  PriceInv'
  <2> DEFINE amount == GestureAmount(c, i)
             below == IF Crossed(i) THEN {} ELSE {i}
             f == [call[c] EXCEPT !.at = "pool", !.need[i] = amount, !.onPrice = below]
  <2>1. Become(c, f) /\ UNCHANGED <<stored, today>> /\ below \subseteq call[c].rows
    BY <1>3 DEF ReadGesture, rows
  <2>2. f.op = call[c].op /\ f.pick = call[c].pick /\ f.rate = call[c].rate /\ f.onPrice = below
        /\ f.rows = call[c].rows
    BY <1>0 DEF NoCall
  <2> HIDE DEF f, below
  <2>3. PricedAs(f)
    BY <1>0, <2>1, <2>2 DEF PricedAs
  <2> QED
    BY <2>1, <2>3, PricesBecome
<1>4. CASE ReadCharge(c) /\ ~Refuse(c) /\ End(c)
  <2>1. stored' = stored \/ stored' = [i \in Inscriptions |-> IF i \in OnPrice(c) THEN Taken(c, i) ELSE stored[i]]
    BY <1>4 DEF ReadCharge, Refuse, rows
  <2>2. \A i \in Inscriptions : Taken(c, i) \in Prices \cup {None} /\ stored[i] \in Prices \cup {None}
    BY PricesRead
  <2>3. today' = today /\ stored' \in [Inscriptions -> Prices \cup {None}]
    BY <1>4, <2>1, <2>2 DEF ReadCharge, Refuse, rows, PriceInv
  <2> QED
    BY <1>4, <2>3, PricesEnd
<1>5. CASE ReadCharge(c) /\ ~Refuse(c) /\ ~End(c)
  <2>1. PICK need, rate :
            /\ Become(c, [call[c] EXCEPT !.at = "pool", !.rows = Charged(c), !.onPrice = OnPrice(c),
                                         !.need = need, !.rate = rate])
            /\ rate = call[c].rate \/ rate = [i \in Inscriptions |-> Found(c, i)]
            /\ UNCHANGED <<stored, today>>
    BY <1>0, <1>5, ChargeDecides DEF rows
  <2> DEFINE f == [call[c] EXCEPT !.at = "pool", !.rows = Charged(c), !.onPrice = OnPrice(c),
                                  !.need = need, !.rate = rate]
  <2>2. f.op = call[c].op /\ f.pick = call[c].pick /\ f.rate = rate /\ f.onPrice = OnPrice(c)
        /\ f.rows = Charged(c)
    BY <1>0 DEF NoCall
  <2>3. Become(c, f)
    BY <2>1
  <2> HIDE DEF f
  <2>4. rate \in [Inscriptions -> Prices \cup {None}]
    BY <1>0, <2>1, PricesRead DEF PricedAs
  <2>5. PricedAs(f)
    BY <1>0, <2>2, <2>4 DEF PricedAs, OnPrice
  <2> QED
    BY <2>1, <2>3, <2>5, PricesBecome
<1> QED
  BY <1>1, <1>2, <1>3, <1>4, <1>5

\* Every other step leaves the prices, or ends its call.
LEMMA PricesStep ==
    ASSUME IInv, PriceInv, NEW c \in Calls, Step(c)
    PROVE  PriceInv'
<1> DEFINE Same == PriceInv'
<1>0. DOMAIN call[c] = DOMAIN NoCall /\ CallInv(c)
  BY DEF IInv, CallsInv
<1>1. Refuse(c) => Same
  BY PricesRefused
<1>2. End(c) /\ UNCHANGED <<stored, today>> => Same
  BY PricesEnd DEF PriceInv
<1>3. \A place : Go(c, place) /\ UNCHANGED <<stored, today>> => Same
  <2> SUFFICES ASSUME NEW place, Go(c, place), UNCHANGED <<stored, today>>
               PROVE  Same
    OBVIOUS
  <2> QED
    BY <1>0, PricesGoOn DEF Go, NoCall
<1>4. \A moves : WithPool(c, [call[c] EXCEPT !.moves = moves]) => Same
  <2> SUFFICES ASSUME NEW moves, WithPool(c, [call[c] EXCEPT !.moves = moves])
               PROVE  Same
    OBVIOUS
  <2> QED
    BY <1>0, PricesGoOn DEF WithPool, NoCall, rows
<1>5. WithPool(c, call[c]) => Same
  BY <1>0, PricesGoOn DEF WithPool, NoCall, rows
<1>6. \A place, cut : Become(c, [call[c] EXCEPT !.at = place, !.cut = cut]) /\ UNCHANGED <<stored, today>> => Same
  <2> SUFFICES ASSUME NEW place, NEW cut, Become(c, [call[c] EXCEPT !.at = place, !.cut = cut]),
                      UNCHANGED <<stored, today>>
               PROVE  Same
    OBVIOUS
  <2> QED
    BY <1>0, PricesGoOn DEF NoCall
<1>7. UNCHANGED <<stored, today, call>> => Same
  BY DEF PriceInv
<1> HIDE DEF Same
<1>8. ReadCharge(c) \/ MoveMoney(c) \/ (\E i \in Inscriptions : ReadGesture(c, i)) => Same
  BY PricesDecided DEF Same
<1>9. (\E i \in Inscriptions : ReadDepositRelease(c, i) \/ UnwindFromRow(c, i)) \/ FundFromPool(c) => Same
  BY <1>1, <1>3, <1>4 DEF ReadDepositRelease, UnwindFromRow, FundFromPool, rows
<1>10. LockRow(c) \/ LockAnchor(c) => Same
  BY <1>1, <1>3, <1>7 DEF LockRow, LockAnchor, rows
<1>11. LockChoreography(c) => Same
  <2> SUFFICES ASSUME LockChoreography(c)
               PROVE  Same
    OBVIOUS
  <2>1. CASE Refuse(c)
    BY <1>1, <2>1
  <2>2. CASE ~Refuse(c)
    <3>1. PICK taken, scope : Become(c, [call[c] EXCEPT !.at = "rows", !.rows = taken, !.scope = scope])
                              /\ UNCHANGED <<stored, today>>
      BY <2>2 DEF LockChoreography, rows
    <3>2. call[c].op \notin Payers
      BY <1>0 DEF LockChoreography, CallInv, Placed, OfChoreography, Payers, Charges
    <3> QED
      BY <1>0, <3>1, <3>2, PricesGoOn DEF Same, NoCall
  <2> QED
    BY <2>1, <2>2
<1>12. DecideRosterRemoval(c) \/ DecideChoreographyRemoval(c) \/ DecideSeminarRemoval(c) \/ WriteSeminarRow(c)
         \/ ReleaseAboveDeposit(c) => Same
  BY <1>3, <1>4, <1>6 DEF DecideRosterRemoval, DecideChoreographyRemoval, DecideSeminarRemoval, WriteSeminarRow,
     ReleaseAboveDeposit, rows
<1>13. CommitRemoval(c) \/ ReserveLines(c) \/ SettleEmission(c) => Same
  BY <1>1, <1>2, <1>3 DEF CommitRemoval, ReserveLines, SettleEmission
<1>14. (\E p \in Payments : LockPaymentPool(c, p) \/ UpdatePayment(c, p) \/ DeletePayment(c, p)) => Same
  BY <1>1, <1>2, <1>5 DEF LockPaymentPool, UpdatePayment, DeletePayment
<1>15. LockRefundPool(c) \/ WriteRefund(c) \/ LockMergePool(c) \/ LockAcademies(c) \/ CommitMerge(c) => Same
  BY <1>1, <1>2, <1>3, <1>5 DEF LockRefundPool, WriteRefund, LockMergePool, LockAcademies, CommitMerge, rows
<1>16. DeadlockVictim(c) => Same
  BY <1>1 DEF DeadlockVictim
<1> QED
  BY <1>8, <1>9, <1>10, <1>11, <1>12, <1>13, <1>14, <1>15, <1>16 DEF Step, Same

\* The prices a call was given and those it found are of the list, and the one it was
\* given is only for rows it locks.
THEOREM PricesInductive == Spec => []PriceInv
<1>1. Init => PriceInv
  BY PriceAssumption DEF Init, PriceInv, PricedAs, NoCall, NoRates
<1>2. ASSUME PriceInv, Elsewhere
      PROVE  PriceInv'
  <2>1. call' = call
    BY <1>2 DEF Elsewhere, Quiet, RegisterPayment, Waive, Unwaive, TotalMoves, SettleReservation, vars
  <2>2. CASE UNCHANGED <<stored, today>>
    BY <1>2, <2>1, <2>2 DEF PriceInv
  <2>3. CASE ~UNCHANGED <<stored, today>>
    <3>1. PICK i \in Inscriptions : TotalMoves(i)
      BY <1>2, <2>3 DEF Elsewhere, Quiet, RegisterPayment, Waive, Unwaive, SettleReservation, vars, rows
    <3>2. Candidates[UnitOf[i]] \subseteq Prices
      BY PriceAssumption, UnitAssumption
    <3>3. stored' \in [Inscriptions -> Prices \cup {None}] /\ today' \in [Inscriptions -> Prices]
      BY <1>2, <3>1, <3>2 DEF TotalMoves, PriceInv
    <3> QED
      BY <1>2, <2>1, <3>3 DEF PriceInv
  <2> QED
    BY <2>2, <2>3
<1>3. ASSUME IInv, PriceInv, [Next]_vars
      PROVE  PriceInv'
  <2>1. CASE UNCHANGED vars
    BY <1>3, <2>1 DEF vars, rows, PriceInv
  <2> QED
    BY <1>2, <1>3, <2>1, PricesStart, PricesStep DEF Next
<1> QED
  BY <1>1, <1>3, Inductive, PTL DEF Spec

-----------------------------------------------------------------------------
\* MONEY: THE INDUCTIVE INVARIANT

\* Who moves money at all.
Movers == Charges \cup Gestures
PaymentChanges == {"edit-payment", "delete-payment"}

\* The rows the money is read from.
MoneyRows ==
    /\ payment \in [Payments -> Payment]
    /\ nextPayment \in Nat
    /\ \A p \in Payments : payment[p].amount > 0 => p < nextPayment /\ payment[p].owner \notin merged
    /\ allocated \in [Payments -> [Inscriptions -> Nat]]
    /\ \A p \in Payments, i \in Inscriptions : allocated[p][i] > 0 =>
          /\ payment[p].amount > 0 /\ payment[p].owner = Owner(i)
          /\ roster[i] # "deleted"
    /\ merged \subseteq Academies
OtherRows ==
    /\ \A r \in Refunds : refund[r].amount \in Amount
    /\ waived \subseteq Inscriptions

\* What a call may be at, and what it may hold.
Shaped(c) ==
    /\ call[c].at \in Places
    /\ call[c].rows \subseteq Inscriptions
    /\ call[c].scope \in Academies \cup {None}
    /\ call[c].at \notin {"idle", "anchor", "choreography"} \/ call[c].op = "remove-seminar-row" =>
          call[c].scope \in Academies
    /\ call[c].op \in RefundChanges \cup Gestures => call[c].n \in Amount
    /\ held[c] \subseteq Locks
    /\ call[c].at = "idle" => held[c] = {}

\* The rows a call has locked.
RowHeld(c, i) == <<"row", i>> \in held[c]
PoolHeld(c) == <<"pool", call[c].scope>> \in held[c]

\* A gesture or a charge past its rows' locks is about rows of its academy, or of
\* one merged since; what it puts money on is on a roster.
Planning(c) ==
    /\ call[c].need \in [Inscriptions -> Nat]
    /\ \A i \in Inscriptions : call[c].need[i] > 0 => call[c].op \in Movers /\ i \in call[c].rows
    /\ call[c].op \in Gestures => \A i, j \in call[c].rows : i = j
    /\ call[c].op \in Charges => call[c].rows \subseteq RowsOf(call[c].unit)
    /\ call[c].op \in Movers /\ call[c].at \in {"pool", "write"} =>
          \A i \in call[c].rows : /\ RowHeld(c, i)
                                  /\ Owner(i) = call[c].scope \/ call[c].scope \in merged
                                  /\ call[c].op \in Payers => roster[i] = "active"

\* Money about to be put on an inscription comes from its own academy's payments.
Moving(c) ==
    /\ call[c].moves \in [Payments -> [Inscriptions -> Int]]
    /\ call[c].op \in Payers /\ call[c].at = "write" => PoolHeld(c)
    /\ \A p \in Payments, i \in Inscriptions : call[c].moves[p][i] > 0 =>
          /\ call[c].op \in Payers /\ call[c].at = "write" /\ i \in call[c].rows
          /\ payment[p].amount > 0 /\ payment[p].owner = call[c].scope /\ Owner(i) = call[c].scope

\* A removal has locked the rows it takes.  What it deletes of a choreography
\* holds nothing, and nobody can put anything on it: its row is locked, or off
\* the roster already.
Removing(c) ==
    /\ call[c].op \in Removals /\ call[c].op # "remove-choreography" => call[c].cut \subseteq call[c].rows
    /\ call[c].op \in Removals /\ call[c].at \in {"pool", "write"} =>
          \A i \in call[c].rows : RowHeld(c, i)
    /\ call[c].op = "remove-choreography" /\ call[c].at # "choreography" =>
          ActiveRows(call[c].unit) \subseteq call[c].rows
    /\ call[c].op \in OfChoreography =>
          \A i \in call[c].cut : /\ \A p \in Payments : allocated[p][i] = 0
                                 /\ RowHeld(c, i) \/ roster[i] # "active"

\* A payment about to change is still the pool's, and nothing is spent of one
\* that leaves it.
Changing(c) ==
    call[c].op \in PaymentChanges =>
        /\ call[c].item \in Payments /\ call[c].n \in Amount /\ call[c].into \in Academies
        /\ call[c].op = "edit-payment" => call[c].n > 0
        /\ call[c].at \in {"pool", "write"}
        /\ call[c].at = "write" =>
              /\ PoolHeld(c)
              /\ payment[call[c].item].amount > 0 /\ payment[call[c].item].owner = call[c].scope
              /\ call[c].op = "edit-payment" /\ call[c].into # call[c].scope =>
                    \A i \in Inscriptions : allocated[call[c].item][i] = 0

\* Neither academy of a merge about to commit was merged meanwhile.
Merging(c) ==
    call[c].op = "merge" =>
        /\ call[c].scope # call[c].into
        /\ call[c].at = "write" => {call[c].scope, call[c].into} \cap merged = {}

MoneyCall(c) == /\ Shaped(c) /\ Planning(c) /\ Moving(c) /\ Removing(c) /\ Changing(c) /\ Merging(c)
MoneyInv == MoneyRows /\ OtherRows /\ \A c \in Calls : MoneyCall(c)

MoneyTables == <<payment, nextPayment, allocated, merged, academyOf, roster>>

\* A sum of natural numbers is one, and is nothing only when all of them are.
LEMMA SumNat ==
    ASSUME NEW S, IsFiniteSet(S), NEW f \in [S -> Nat]
    PROVE  Sum(f) \in Nat /\ (Sum(f) = 0 <=> \A x \in S : f[x] = 0)
<1> DEFINE Part(x) == {x} \X (1 .. f[x])
           part == [x \in S |-> Part(x)]
           parts == {Part(x) : x \in S}
<1>1. Sum(f) = Cardinality(UNION parts)
  BY DEF Sum
<1>2. IsFiniteSet(parts)
  <2>1. part \in Surjection(S, parts)
    BY DEF Surjection
  <2> QED
    BY <2>1, FS_Surjection DEF ExistsSurjection
<1>3. ASSUME NEW x \in S
      PROVE  IsFiniteSet(Part(x)) /\ (Part(x) = {} <=> f[x] = 0)
  <2>1. f[x] \in Nat
    OBVIOUS
  <2>2. IsFiniteSet(1 .. f[x]) /\ IsFiniteSet({x})
    <3>1. 1 \in Int /\ f[x] \in Int
      BY <2>1
    <3>2. IsFiniteSet(1 .. f[x])
      BY <3>1, FS_Interval
    <3> QED
      BY <3>2, FS_Singleton
  <2>3. IsFiniteSet(Part(x))
    BY <2>2, FS_Product
  <2>4. 1 .. f[x] = {} <=> f[x] = 0
    BY <2>1
  <2>5. Part(x) = {} <=> 1 .. f[x] = {}
    <3>1. ASSUME NEW n \in 1 .. f[x]
          PROVE  <<x, n>> \in {x} \X (1 .. f[x])
      OBVIOUS
    <3>2. 1 .. f[x] = {} => {x} \X (1 .. f[x]) = {}
      OBVIOUS
    <3> QED
      BY <3>1, <3>2
  <2> QED
    BY <2>3, <2>4, <2>5
<1>4. \A T \in parts : IsFiniteSet(T)
  BY <1>3
<1>5. IsFiniteSet(UNION parts)
  BY <1>2, <1>4, FS_UNION
<1>6. UNION parts = {} <=> \A x \in S : Part(x) = {}
  OBVIOUS
<1>7. UNION parts = {} <=> \A x \in S : f[x] = 0
  BY <1>3, <1>6
<1> HIDE DEF parts
<1>8. Cardinality(UNION parts) \in Nat /\ (Cardinality(UNION parts) = 0 <=> UNION parts = {})
  BY <1>5, FS_CardinalityType, FS_EmptySet
<1> QED
  BY <1>1, <1>7, <1>8

LEMMA HeldNat ==
    ASSUME MoneyRows, NEW i \in Inscriptions
    PROVE  Held(i) \in Nat /\ (Held(i) = 0 <=> \A p \in Payments : allocated[p][i] = 0)
<1> DEFINE f == [p \in Payments |-> allocated[p][i]]
<1>1. f \in [Payments -> Nat]
  BY DEF MoneyRows
<1>2. Held(i) = Sum(f) /\ \A p \in Payments : f[p] = allocated[p][i]
  BY DEF Held
<1> HIDE DEF f
<1> QED
  BY <1>1, <1>2, SumNat, FiniteAssumption

LEMMA SpentNat ==
    ASSUME MoneyRows, NEW p \in Payments
    PROVE  Spent(p) \in Nat /\ (Spent(p) = 0 <=> \A i \in Inscriptions : allocated[p][i] = 0)
<1>1. allocated[p] \in [Inscriptions -> Nat]
  BY DEF MoneyRows
<1> QED
  BY <1>1, SumNat, FiniteAssumption DEF Spent

LEMMA FreeNat ==
    ASSUME MoneyRows, NEW p \in Payments
    PROVE  Free(p) \in Nat
<1>1. payment[p].amount \in Nat /\ Spent(p) \in Nat
  BY SpentNat, PriceAssumption DEF MoneyRows, Payment, Amount
<1> QED
  BY <1>1 DEF Free, AtLeastZero

LEMMA RefundedNat ==
    ASSUME OtherRows, NEW a
    PROVE  Refunded(a) \in Nat
<1> DEFINE f == [r \in RefundsOf(a) |-> refund[r].amount]
<1>1. RefundsOf(a) \subseteq Refunds /\ \A r \in RefundsOf(a) : refund[r].amount \in Nat
  BY PriceAssumption DEF RefundsOf, OtherRows, Amount
<1>2. IsFiniteSet(RefundsOf(a)) /\ f \in [RefundsOf(a) -> Nat]
  BY <1>1, FS_Subset, FiniteAssumption
<1>3. Refunded(a) = Sum(f)
  BY DEF Refunded
<1> HIDE DEF f
<1> QED
  BY <1>2, <1>3, SumNat

LEMMA AvailableNat ==
    ASSUME MoneyRows, OtherRows, NEW p \in Payments
    PROVE  Available(p) \in Nat
<1> DEFINE newer == After(PaymentsOf(payment[p].owner), p)
           f == [q \in newer |-> Free(q)]
<1>1. newer \subseteq Payments
  BY DEF After, PaymentsOf
<1>2. IsFiniteSet(newer)
  BY <1>1, FS_Subset, FiniteAssumption
<1>3. f \in [newer -> Nat]
  BY <1>1, FreeNat
<1>4. Available(p) = Free(p) - Smaller(Free(p), AtLeastZero(Refunded(payment[p].owner) - Sum(f)))
  BY DEF Available
<1> HIDE DEF f, newer
<1>5. Sum(f) \in Nat
  BY <1>2, <1>3, SumNat
<1>6. Free(p) \in Nat /\ Refunded(payment[p].owner) \in Nat
  BY FreeNat, RefundedNat
<1>7. \A x, y, z \in Nat : x - Smaller(x, AtLeastZero(y - z)) \in Nat
  BY DEF Smaller, AtLeastZero
<1> QED
  BY <1>4, <1>5, <1>6, <1>7

\* Two stretches overlap in no more than either.
LEMMA OverlapNat ==
    ASSUME NEW from \in Nat, NEW n \in Nat, NEW from2 \in Nat, NEW n2 \in Nat
    PROVE  /\ Overlap(from, n, from2, n2) \in Nat
           /\ Overlap(from, n, from2, n2) <= n /\ Overlap(from, n, from2, n2) <= n2
BY DEF Overlap, AtLeastZero, Smaller

\* Money is spread from the academy's payments over what needs it.
LEMMA SpreadIs ==
    ASSUME MoneyRows, OtherRows, NEW need \in [Inscriptions -> Nat], NEW a
    PROVE  /\ Spread(need, a) \in [Payments -> [Inscriptions -> Int]]
           /\ \A p \in Payments, i \in Inscriptions :
                 Spread(need, a)[p][i] > 0 => p \in PaymentsOf(a) /\ need[i] > 0
<1>1. ASSUME NEW p \in Payments, NEW i \in Inscriptions
      PROVE  /\ Spread(need, a)[p][i] \in Int
             /\ Spread(need, a)[p][i] > 0 => p \in PaymentsOf(a) /\ need[i] > 0
  <2> DEFINE f == [q \in Before(PaymentsOf(a), p) |-> Available(q)]
             g == [j \in Before(Inscriptions, i) |-> need[j]]
  <2>1. Before(PaymentsOf(a), p) \subseteq Payments /\ Before(Inscriptions, i) \subseteq Inscriptions
    BY DEF Before, PaymentsOf
  <2>2. /\ IsFiniteSet(Before(PaymentsOf(a), p)) /\ IsFiniteSet(Before(Inscriptions, i))
    BY <2>1, FS_Subset, FiniteAssumption
  <2>3. f \in [Before(PaymentsOf(a), p) -> Nat] /\ g \in [Before(Inscriptions, i) -> Nat]
    BY <2>1, AvailableNat
  <2>4. Spread(need, a)[p][i] = IF p \in PaymentsOf(a) THEN Overlap(Sum(f), Available(p), Sum(g), need[i]) ELSE 0
    BY DEF Spread
  <2> HIDE DEF f, g
  <2>5. Sum(f) \in Nat /\ Sum(g) \in Nat /\ Available(p) \in Nat /\ need[i] \in Nat
    BY <2>2, <2>3, SumNat, AvailableNat
  <2>6. /\ Overlap(Sum(f), Available(p), Sum(g), need[i]) \in Nat
        /\ Overlap(Sum(f), Available(p), Sum(g), need[i]) <= need[i]
    BY <2>5, OverlapNat
  <2> QED
    BY <2>4, <2>5, <2>6
<1>2. /\ DOMAIN Spread(need, a) = Payments
      /\ \A p \in Payments : DOMAIN Spread(need, a)[p] = Inscriptions
      /\ \A p \in Payments : Spread(need, a)[p] = [i \in Inscriptions |-> Spread(need, a)[p][i]]
      /\ Spread(need, a) = [p \in Payments |-> Spread(need, a)[p]]
  BY DEF Spread
<1> QED
  BY <1>1, <1>2

\* And only ever taken off when it unwinds.
LEMMA UnwindIs ==
    ASSUME MoneyRows, NEW need \in [Inscriptions -> Nat]
    PROVE  /\ Unwind(need) \in [Payments -> [Inscriptions -> Int]]
           /\ \A p \in Payments, i \in Inscriptions : ~(Unwind(need)[p][i] > 0)
<1>1. ASSUME NEW p \in Payments, NEW i \in Inscriptions
      PROVE  Unwind(need)[p][i] \in Int /\ ~(Unwind(need)[p][i] > 0)
  <2> DEFINE f == [q \in After(Payments, p) |-> allocated[q][i]]
  <2>1. After(Payments, p) \subseteq Payments
    BY DEF After
  <2>2. IsFiniteSet(After(Payments, p))
    BY <2>1, FS_Subset, FiniteAssumption
  <2>3. f \in [After(Payments, p) -> Nat]
    BY <2>1 DEF MoneyRows
  <2>4. Unwind(need)[p][i] = -Overlap(Sum(f), allocated[p][i], 0, need[i])
    BY DEF Unwind
  <2> HIDE DEF f
  <2>5. Sum(f) \in Nat /\ allocated[p][i] \in Nat /\ need[i] \in Nat
    BY <2>2, <2>3, SumNat DEF MoneyRows
  <2>6. Overlap(Sum(f), allocated[p][i], 0, need[i]) \in Nat
    BY <2>5, OverlapNat
  <2> QED
    BY <2>4, <2>6
<1>2. /\ DOMAIN Unwind(need) = Payments
      /\ \A p \in Payments : DOMAIN Unwind(need)[p] = Inscriptions
      /\ \A p \in Payments : Unwind(need)[p] = [i \in Inscriptions |-> Unwind(need)[p][i]]
      /\ Unwind(need) = [p \in Payments |-> Unwind(need)[p]]
  BY DEF Unwind
<1> QED
  BY <1>1, <1>2

-----------------------------------------------------------------------------
\* MONEY: A CALL MOVES

\* When the money's rows do not change, one call's invariant is enough.
LEMMA MoneyQuiet ==
    ASSUME MoneyInv, NEW c \in Calls, Framed(c), UNCHANGED MoneyTables, OtherRows', MoneyCall(c)'
    PROVE  MoneyInv'
<1>1. MoneyRows'
  BY DEF MoneyInv, MoneyRows, MoneyTables, Owner
<1>2. ASSUME NEW d \in Calls, d # c
      PROVE  MoneyCall(d)'
  <2>1. call'[d] = call[d] /\ held'[d] = held[d] /\ MoneyCall(d)
    BY <1>2 DEF Framed, MoneyInv
  <2> QED
    BY <2>1 DEF MoneyCall, Shaped, Planning, Moving, Removing, Changing, Merging, RowHeld, PoolHeld,
       Owner, ActiveRows, RowsOf, MoneyTables
<1> QED
  BY <1>1, <1>2 DEF MoneyInv

LEMMA MoneyEnds ==
    ASSUME CallsInv, NEW c \in Calls, End(c)
    PROVE  Framed(c) /\ call'[c] = NoCall /\ held'[c] = {} /\ MoneyCall(c)'
<1>1. Framed(c) /\ call'[c] = NoCall /\ held'[c] = {}
  BY EndMoves
<1>2. /\ call'[c].op = "none" /\ call'[c].at = "idle" /\ call'[c].rows = {} /\ call'[c].scope = None
      /\ call'[c].need = MoneyNowhere /\ call'[c].moves = NoMoves
  BY <1>1 DEF NoCall
<1>3. /\ MoneyNowhere \in [Inscriptions -> Nat] /\ NoMoves \in [Payments -> [Inscriptions -> Int]]
      /\ \A i \in Inscriptions : ~(MoneyNowhere[i] > 0)
      /\ \A p \in Payments, i \in Inscriptions : ~(NoMoves[p][i] > 0)
  BY DEF MoneyNowhere, NoMoves
<1> QED
  BY <1>1, <1>2, <1>3 DEF MoneyCall, Shaped, Planning, Moving, Removing, Changing, Merging, Places,
     Movers, Payers, Charges, Gestures, Removals, OfChoreography, PaymentChanges, RefundChanges

LEMMA MoneyRefused ==
    ASSUME IInv, MoneyInv, NEW c \in Calls, Refuse(c)
    PROVE  MoneyInv'
<1>1. Framed(c) /\ MoneyCall(c)'
  BY MoneyEnds DEF Refuse, IInv
<1>2. UNCHANGED MoneyTables /\ OtherRows'
  BY DEF Refuse, rows, MoneyTables, MoneyInv, OtherRows
<1> QED
  BY <1>1, <1>2, MoneyQuiet

\* A call that ends and leaves the money's rows.
LEMMA MoneySettles ==
    ASSUME IInv, MoneyInv, NEW c \in Calls, End(c), UNCHANGED MoneyTables, OtherRows'
    PROVE  MoneyInv'
BY MoneyEnds, MoneyQuiet DEF IInv

\* A call that begins without a lock.
LEMMA MoneyBegins ==
    ASSUME IInv, MoneyInv, NEW c \in Calls, NEW fields, Begin(c, fields), DOMAIN fields = DOMAIN NoCall,
           fields.at \in {"anchor", "choreography", "rows", "pool"}, fields.op \notin {"none", "emit"},
           fields.rows \subseteq Inscriptions, fields.scope \in Academies \cup {None},
           fields.at \in {"rows", "pool"} \/ fields.op = "remove-seminar-row" => fields.scope \in Academies,
           fields.op \in RefundChanges \cup Gestures => fields.n \in Amount,
           fields.need = MoneyNowhere, fields.moves = NoMoves,
           fields.op \in Movers => fields.at = "rows",
           fields.op \in Gestures => \A i, j \in fields.rows : i = j,
           fields.op \in Charges => fields.rows \subseteq RowsOf(fields.unit),
           fields.op \in Removals => fields.cut = {} /\ fields.at \in {"anchor", "choreography"},
           fields.op = "remove-choreography" => fields.at = "choreography",
           fields.op \in PaymentChanges =>
               /\ fields.at = "pool" /\ fields.item \in Payments /\ fields.n \in Amount
               /\ fields.into \in Academies /\ (fields.op = "edit-payment" => fields.n > 0),
           fields.op = "merge" => fields.at = "pool" /\ fields.scope # fields.into
    PROVE  MoneyInv'
<1>1. Framed(c) /\ call'[c] = fields /\ held'[c] = held[c] /\ held[c] \subseteq Locks
  BY BecomeMoves DEF IInv, Begin, Become, MoneyInv, MoneyCall, Shaped
<1>2. UNCHANGED MoneyTables /\ OtherRows'
  BY DEF Begin, rows, MoneyTables, MoneyInv, OtherRows
<1>3. /\ MoneyNowhere \in [Inscriptions -> Nat] /\ NoMoves \in [Payments -> [Inscriptions -> Int]]
      /\ \A i \in Inscriptions : ~(MoneyNowhere[i] > 0)
      /\ \A p \in Payments, i \in Inscriptions : ~(NoMoves[p][i] > 0)
  BY DEF MoneyNowhere, NoMoves
<1>4. Shaped(c)'
  BY <1>1 DEF Shaped, Places
<1>5. Planning(c)' /\ Moving(c)'
  BY <1>1, <1>3 DEF Planning, Moving, Payers, Movers, Gestures, Charges, RowsOf
<1>6. Removing(c)' /\ Changing(c)' /\ Merging(c)'
  BY <1>1 DEF Removing, Changing, Merging, Removals, OfChoreography, PaymentChanges
<1> QED
  BY <1>1, <1>2, <1>4, <1>5, <1>6, MoneyQuiet DEF MoneyCall

LEMMA MoneyStarts ==
    ASSUME IInv, MoneyInv, NEW c \in Calls, Start(c)
    PROVE  MoneyInv'
<1> USE DEF Gestures, Charges, RefundChanges, Removals, OfChoreography, NoCall, Movers, PaymentChanges
<1>0. RowsInv
  BY DEF IInv
<1>1. ASSUME NEW op \in Gestures, NEW i \in Inscriptions, NEW n \in Amount, NEW pick \in Prices \cup {None},
             StartGesture(c, op, i, n, pick)
      PROVE  MoneyInv'
  <2>1. Owner(i) \in Academies
    BY <1>0, OwnerType
  <2> QED
    BY <1>1, <2>1, MoneyBegins DEF StartGesture
<1>2. ASSUME NEW op \in Charges, NEW u \in Units, NEW pick \in Prices \cup {None}, StartCharge(c, op, u, pick)
      PROVE  MoneyInv'
  <2>1. academyOf[u] \in Academies /\ ActiveRows(u) \subseteq Inscriptions /\ ActiveRows(u) \subseteq RowsOf(u)
    BY <1>0 DEF RowsInv, ActiveRows, RowsOf
  <2> QED
    BY <1>2, <2>1, MoneyBegins DEF StartCharge
<1>3. ASSUME NEW u \in Units, NEW R \in SUBSET Inscriptions, StartRosterSync(c, u, R)
      PROVE  MoneyInv'
  BY <1>3, MoneyBegins DEF StartRosterSync
<1>4. ASSUME NEW u \in Units, StartChoreographyRemoval(c, u)
      PROVE  MoneyInv'
  BY <1>4, MoneyBegins DEF StartChoreographyRemoval
<1>5. ASSUME NEW i \in Inscriptions, StartSeminarRemoval(c, i)
      PROVE  MoneyInv'
  <2>1. Owner(i) \in Academies
    BY <1>0, OwnerType
  <2> QED
    BY <1>5, <2>1, MoneyBegins DEF StartSeminarRemoval
<1>6. ASSUME NEW u \in Units, NEW S \in SUBSET Inscriptions, StartEmission(c, u, S)
      PROVE  MoneyInv'
  <2> DEFINE fields == [NoCall EXCEPT !.op = "emit", !.at = "reserve", !.unit = u, !.rows = S,
                                      !.scope = academyOf[u]]
  <2>1. /\ Acquire(c, {<<"anchor", u>>}) /\ Become(c, fields) /\ UNCHANGED rows
        /\ CallsInv /\ ExclusiveInv /\ DOMAIN fields = DOMAIN NoCall
    BY <1>6 DEF StartEmission, IInv
  <2>2. /\ fields.op = "emit" /\ fields.at = "reserve" /\ fields.rows = S /\ fields.scope = academyOf[u]
        /\ fields.need = MoneyNowhere /\ fields.moves = NoMoves
    OBVIOUS
  <2> HIDE DEF fields
  <2>3. Framed(c) /\ call'[c] = fields /\ held'[c] = held[c] \cup {<<"anchor", u>>}
    BY <2>1, AcquireMoves
  <2>4. UNCHANGED MoneyTables /\ OtherRows'
    BY <2>1 DEF rows, MoneyTables, MoneyInv, OtherRows
  <2>5. /\ MoneyNowhere \in [Inscriptions -> Nat] /\ NoMoves \in [Payments -> [Inscriptions -> Int]]
        /\ \A i \in Inscriptions : ~(MoneyNowhere[i] > 0)
        /\ \A p \in Payments, i \in Inscriptions : ~(NoMoves[p][i] > 0)
    BY DEF MoneyNowhere, NoMoves
  <2>6. held[c] \subseteq Locks /\ <<"anchor", u>> \in Locks /\ academyOf[u] \in Academies
    BY <1>0 DEF MoneyInv, MoneyCall, Shaped, Locks, RowsInv
  <2>7. MoneyCall(c)'
    BY <2>2, <2>3, <2>5, <2>6 DEF MoneyCall, Shaped, Planning, Moving, Removing, Changing, Merging, Places,
       Payers
  <2> QED
    BY <2>3, <2>4, <2>7, MoneyQuiet
<1>7. ASSUME NEW p \in Payments, NEW a \in Academies, NEW op \in PaymentChanges, NEW n \in Amount,
             op = "edit-payment" => n > 0, StartPaymentChange(c, op, p, n, a)
      PROVE  MoneyInv'
  <2>1. payment[p].owner \in Academies
    BY DEF MoneyInv, MoneyRows, Payment
  <2> QED
    BY <1>7, <2>1, MoneyBegins DEF StartPaymentChange
<1>8. ASSUME NEW a \in Academies, NEW n \in Amounts, StartRefund(c, a, n)
      PROVE  MoneyInv'
  <2>1. n \in Amount
    BY PriceAssumption DEF Amount, Amounts
  <2> QED
    BY <1>8, <2>1, MoneyBegins DEF StartRefund
<1>9. ASSUME NEW op \in RefundChanges \ {"register-refund"}, NEW r \in Refunds, NEW n \in Amount,
             StartRefundChange(c, op, r, n)
      PROVE  MoneyInv'
  <2>1. refund[r].owner \in Academies
    BY <1>0 DEF RowsInv
  <2> QED
    BY <1>9, <2>1, MoneyBegins DEF StartRefundChange
<1>10. ASSUME NEW a \in Academies, NEW b \in Academies, StartMerge(c, a, b)
       PROVE  MoneyInv'
  BY <1>10, MoneyBegins DEF StartMerge
<1>11. 0 \in Amount /\ \A n \in Amounts : n \in Amount /\ n > 0
  BY PriceAssumption DEF Amount, Amounts
<1> QED
  BY <1>1, <1>2, <1>3, <1>4, <1>5, <1>6, <1>7, <1>8, <1>9, <1>10, <1>11 DEF Start

\* A gesture or a charge goes on.
LEMMA MoverGoesOn ==
    ASSUME MoneyInv, NEW c \in Calls, Framed(c), UNCHANGED rows,
           call[c].op \in Movers, call'[c].op = call[c].op, call'[c].n = call[c].n,
           call'[c].scope = call[c].scope, call[c].scope \in Academies,
           call'[c].at \in {"rows", "pool", "write"}, call'[c].rows \subseteq Inscriptions,
           held'[c] \subseteq Locks, Planning(c)', Moving(c)'
    PROVE  MoneyInv'
<1>1. UNCHANGED MoneyTables /\ OtherRows'
  BY DEF rows, MoneyTables, MoneyInv, OtherRows
<1>2. Shaped(c)'
  BY DEF MoneyInv, MoneyCall, Shaped, Places, Movers, Charges, Gestures, RefundChanges
<1>3. Removing(c)' /\ Changing(c)' /\ Merging(c)'
  BY DEF Removing, Changing, Merging, Removals, OfChoreography, PaymentChanges, Movers, Charges, Gestures
<1> QED
  BY <1>1, <1>2, <1>3, MoneyQuiet DEF MoneyCall

\* A removal goes on.
LEMMA RemovalGoesOn ==
    ASSUME MoneyInv, NEW c \in Calls, Framed(c), UNCHANGED rows,
           call[c].op \in Removals, call'[c].op = call[c].op,
           call'[c].need = call[c].need, call'[c].moves \in [Payments -> [Inscriptions -> Int]],
           \A p \in Payments, i \in Inscriptions : ~(call'[c].moves[p][i] > 0),
           call'[c].at \in {"choreography", "reading", "rows", "pool", "write"},
           call'[c].rows \subseteq Inscriptions, call'[c].scope \in Academies \cup {None},
           call'[c].at # "choreography" \/ call'[c].op = "remove-seminar-row" => call'[c].scope \in Academies,
           held'[c] \subseteq Locks, Removing(c)'
    PROVE  MoneyInv'
<1>1. UNCHANGED MoneyTables /\ OtherRows'
  BY DEF rows, MoneyTables, MoneyInv, OtherRows
<1>2. Shaped(c)'
  BY DEF Shaped, Places, RefundChanges, Gestures, Removals
<1>3. Planning(c)' /\ Moving(c)'
  BY DEF MoneyInv, MoneyCall, Planning, Moving, Movers, Payers, Charges, Gestures, Removals
<1>4. Changing(c)' /\ Merging(c)'
  BY DEF Changing, Merging, Removals, PaymentChanges
<1> QED
  BY <1>1, <1>2, <1>3, <1>4, MoneyQuiet DEF MoneyCall

\* A payment's or a refund's change, a merge or an emission goes on.
LEMMA OtherGoesOn ==
    ASSUME MoneyInv, NEW c \in Calls, Framed(c), UNCHANGED MoneyTables, OtherRows',
           call[c].op \in PaymentChanges \cup RefundChanges \cup {"merge", "emit"}, call'[c].op = call[c].op,
           call'[c].need = call[c].need, call'[c].moves = call[c].moves, call'[c].n = call[c].n,
           call'[c].rows = call[c].rows, call'[c].scope = call[c].scope, call[c].scope \in Academies,
           call'[c].at \in {"pool", "academies", "write", "settle"},
           held'[c] \subseteq Locks, Changing(c)', Merging(c)'
    PROVE  MoneyInv'
<1>1. MoneyCall(c) /\ call[c].op \notin Movers \cup Removals
  BY DEF MoneyInv, PaymentChanges, RefundChanges, Movers, Charges, Gestures, Removals
<1>2. Shaped(c)'
  BY <1>1 DEF MoneyCall, Shaped, Places, RefundChanges, Gestures, Movers
<1>3. Planning(c)'
  BY <1>1 DEF MoneyCall, Planning, Movers
<1>4. Moving(c)'
  BY <1>1 DEF MoneyCall, Moving, Payers, Movers, Charges, Gestures
<1>5. Removing(c)'
  BY <1>1 DEF Removing, OfChoreography, Removals
<1> QED
  BY <1>2, <1>3, <1>4, <1>5, MoneyQuiet DEF MoneyCall

\* What a gesture or a charge decides under the locks of its rows.
LEMMA MoneyPlans ==
    ASSUME IInv, MoneyInv, NEW c \in Calls, NEW still, NEW below, NEW need, NEW rate,
           RowsLocked(c), call[c].op \in Movers, still \subseteq call[c].rows,
           Become(c, [call[c] EXCEPT !.at = "pool", !.rows = still, !.onPrice = below, !.need = need,
                                     !.rate = rate]), UNCHANGED <<rows, held>>,
           need \in [Inscriptions -> Nat], \A i \in Inscriptions : need[i] > 0 => i \in still,
           \A i \in still : Owner(i) = call[c].scope /\ (call[c].op \in Payers => roster[i] = "active")
    PROVE  MoneyInv'
<1> DEFINE fields == [call[c] EXCEPT !.at = "pool", !.rows = still, !.onPrice = below, !.need = need,
                                     !.rate = rate]
<1>1. /\ CallsInv /\ ExclusiveInv /\ MoneyCall(c) /\ DOMAIN fields = DOMAIN NoCall
      /\ call[c].at = "rows" /\ Pending(c) = {} /\ Become(c, fields) /\ held' = held /\ UNCHANGED rows
  BY DEF IInv, CallsInv, MoneyInv, RowsLocked
<1>2. /\ fields.op = call[c].op /\ fields.unit = call[c].unit
      /\ fields.n = call[c].n /\ fields.scope = call[c].scope
      /\ fields.at = "pool" /\ fields.rows = still /\ fields.need = need /\ fields.moves = call[c].moves
  BY <1>1 DEF CallsInv, NoCall
<1> HIDE DEF fields
<1>3. Framed(c) /\ call'[c] = fields /\ held'[c] = held[c]
  BY <1>1, BecomeMoves
<1>4. call[c].scope \in Academies /\ call[c].rows \subseteq Inscriptions /\ held[c] \subseteq Locks
  BY <1>1 DEF MoneyCall, Shaped
<1>5. \A i \in still : <<"row", i>> \in held[c]
  BY <1>1, <1>4 DEF Pending
<1>6. Planning(c)'
  <2>1. \A i \in still : Owner(i)' = Owner(i) /\ roster'[i] = roster[i]
    BY <1>1 DEF Owner, rows
  <2> QED
    BY <1>1, <1>2, <1>3, <1>5, <2>1 DEF MoneyCall, Planning, RowHeld, RowsOf
<1>7. Moving(c)'
  <2>1. \A p \in Payments, i \in Inscriptions : ~(call[c].moves[p][i] > 0)
    BY <1>1 DEF MoneyCall, Moving
  <2> QED
    BY <1>1, <1>2, <1>3, <2>1 DEF MoneyCall, Moving
<1> QED
  BY <1>1, <1>2, <1>3, <1>4, <1>6, <1>7, MoverGoesOn

LEMMA MoneyReadGesture ==
    ASSUME IInv, PriceInv, MoneyInv, NEW c \in Calls, NEW i \in Inscriptions, ReadGesture(c, i)
    PROVE  MoneyInv'
<1>1. CASE Refuse(c)
  BY <1>1, MoneyRefused
<1>2. CASE ~Refuse(c)
  <2> DEFINE amount == GestureAmount(c, i)
             need == [call[c].need EXCEPT ![i] = amount]
             below == IF Crossed(i) THEN {} ELSE {i}
  <2>1. /\ RowsLocked(c) /\ call[c].op \in Gestures \ {"release-deposit"} /\ i \in call[c].rows
        /\ roster[i] # "deleted" /\ Owner(i) = call[c].scope /\ amount > 0
        /\ Become(c, [call[c] EXCEPT !.at = "pool", !.need[i] = amount, !.onPrice = below])
        /\ UNCHANGED <<rows, held>>
    BY <1>2 DEF ReadGesture
  <2>2. /\ MoneyCall(c) /\ CallsInv /\ RowsInv /\ call[c].n \in Nat
        /\ call[c].need \in [Inscriptions -> Nat]
    BY <2>1, PriceAssumption DEF MoneyInv, IInv, MoneyCall, Shaped, Planning, Amount
  <2>3. amount \in Nat /\ (call[c].op = "allocate" => roster[i] = "active")
    <3>1. Held(i) \in Nat /\ TotalOf(i) \in Nat
      BY HeldNat, PricesRead, PriceAssumption DEF MoneyInv, TotalOf
    <3>2. Excess(i) \in Nat
      BY <3>1 DEF Excess, AtLeastZero
    <3>3. roster[i] # "withdrawn"
      BY <2>1 DEF GestureAmount
    <3> QED
      BY <2>1, <2>2, <3>2, <3>3 DEF GestureAmount, Gestures, RowsInv
  <2> HIDE DEF amount, below
  <2>4. \A j \in Inscriptions : need[j] > 0 => j \in call[c].rows
    BY <2>1, <2>2 DEF MoneyCall, Planning
  <2>5. need \in [Inscriptions -> Nat]
    BY <2>2, <2>3
  <2>6. [call[c] EXCEPT !.at = "pool", !.need[i] = amount, !.onPrice = below]
          = [call[c] EXCEPT !.at = "pool", !.rows = call[c].rows, !.onPrice = below, !.need = need,
                            !.rate = call[c].rate]
    BY <2>2 DEF CallsInv, NoCall
  <2>7. /\ call[c].op \in Movers /\ call[c].rows \subseteq call[c].rows
        /\ Become(c, [call[c] EXCEPT !.at = "pool", !.rows = call[c].rows, !.onPrice = below, !.need = need,
                                     !.rate = call[c].rate])
    BY <2>1, <2>6 DEF Movers
  <2> HIDE DEF need
  <2>8. \A j \in call[c].rows : Owner(j) = call[c].scope /\ (call[c].op \in Payers => roster[j] = "active")
    <3>1. \A j \in call[c].rows : j = i
      BY <2>1, <2>2 DEF MoneyCall, Planning
    <3> QED
      BY <2>1, <2>3, <3>1 DEF Payers, Charges, Gestures
  <2> QED
    BY <2>1, <2>4, <2>5, <2>7, <2>8, MoneyPlans
<1> QED
  BY <1>1, <1>2

LEMMA MoneyReadDepositRelease ==
    ASSUME IInv, MoneyInv, NEW c \in Calls, NEW i \in Inscriptions, ReadDepositRelease(c, i)
    PROVE  MoneyInv'
<1>1. CASE Refuse(c)
  BY <1>1, MoneyRefused
<1>2. CASE ~Refuse(c)
  <2>1. /\ RowsLocked(c) /\ call[c].op = "release-deposit" /\ i \in call[c].rows
        /\ Owner(i) = call[c].scope
        /\ Become(c, [call[c] EXCEPT !.at = "pool"]) /\ UNCHANGED <<rows, held>>
    BY <1>2 DEF ReadDepositRelease, Go
  <2>2. CallsInv /\ MoneyCall(c)
    BY DEF IInv, MoneyInv
  <2>3. [call[c] EXCEPT !.at = "pool"]
          = [call[c] EXCEPT !.at = "pool", !.rows = call[c].rows, !.onPrice = call[c].onPrice,
                            !.need = call[c].need, !.rate = call[c].rate]
    BY <2>2 DEF CallsInv, NoCall
  <2>4. /\ call[c].need \in [Inscriptions -> Nat]
        /\ \A j \in Inscriptions : call[c].need[j] > 0 => j \in call[c].rows
        /\ \A j \in call[c].rows : j = i
        /\ call[c].op \in Movers /\ call[c].op \notin Payers
    BY <2>1, <2>2 DEF MoneyCall, Planning, Movers, Payers, Gestures, Charges
  <2>5. /\ call[c].rows \subseteq call[c].rows
        /\ Become(c, [call[c] EXCEPT !.at = "pool", !.rows = call[c].rows, !.onPrice = call[c].onPrice,
                                     !.need = call[c].need, !.rate = call[c].rate])
    BY <2>1, <2>3
  <2> QED
    BY <2>1, <2>4, <2>5, MoneyPlans
<1> QED
  BY <1>1, <1>2

LEMMA ChargedRows ==
    ASSUME MoneyInv, NEW c \in Calls, call[c].op \in Charges
    PROVE  /\ Charged(c) \subseteq call[c].rows /\ call[c].rows \subseteq Inscriptions
           /\ \A i \in Charged(c) : /\ roster[i] = "active" /\ i \notin waived
                                    /\ academyOf[call[c].unit] = call[c].scope => Owner(i) = call[c].scope
<1>1. call[c].rows \subseteq Inscriptions /\ call[c].rows \subseteq RowsOf(call[c].unit)
  BY DEF MoneyInv, MoneyCall, Shaped, Planning
<1> QED
  BY <1>1 DEF Charged, Owner, RowsOf

\* What a charge asks for before the pool's lock, of the rows it covers or of the first.
LEMMA ChargedNat ==
    ASSUME PriceInv, MoneyInv, NEW c \in Calls, call[c].op \in Charges
    PROVE  /\ Cover(c) \in [Inscriptions -> Nat] /\ Opening(c) \in [Inscriptions -> Nat]
           /\ \A i \in Inscriptions : Cover(c)[i] > 0 => i \in Covering(c) /\ i \in Charged(c)
           /\ \A i \in Inscriptions : Opening(c)[i] > 0 => i \in First(Owing(c)) /\ i \in Charged(c)
<1>1. ASSUME NEW i \in Inscriptions
      PROVE  /\ Cover(c)[i] \in Nat /\ Opening(c)[i] \in Nat
  <2>1. Held(i) \in Nat /\ Found(c, i) \in Prices
    BY HeldNat, PricesRead DEF MoneyInv
  <2>2. Asked(call[c].op, Found(c, i), Held(i)) \in Nat
    BY <2>1, AskedNat
  <2>3. i \in Covering(c) => Asked("charge-deposit", Taken(c, i), Held(i)) \in Nat
    <3>1. i \in Covering(c) => Taken(c, i) \in Prices
      BY PricesRead DEF Covering, OnPrice
    <3> QED
      BY <2>1, <3>1, AskedNat
  <2> QED
    BY <2>2, <2>3 DEF Cover, Opening
<1>2. Cover(c) \in [Inscriptions -> Nat] /\ Opening(c) \in [Inscriptions -> Nat]
  BY <1>1 DEF Cover, Opening
<1>3. \A i \in Inscriptions : Cover(c)[i] > 0 => i \in Covering(c) /\ i \in Charged(c)
  BY DEF Cover, Covering, OnPrice
<1>4. \A i \in Inscriptions : Opening(c)[i] > 0 => i \in First(Owing(c)) /\ i \in Charged(c)
  BY DEF Opening, First, Owing
<1> QED
  BY <1>2, <1>3, <1>4

LEMMA MoneyReadCharge ==
    ASSUME IInv, PriceInv, MoneyInv, NEW c \in Calls, ReadCharge(c)
    PROVE  MoneyInv'
<1>1. CASE Refuse(c)
  BY <1>1, MoneyRefused
<1>2. CASE ~Refuse(c) /\ End(c)
  <2>1. UNCHANGED MoneyTables /\ OtherRows'
    BY <1>2 DEF ReadCharge, Refuse, rows, MoneyTables, MoneyInv, OtherRows
  <2> QED
    BY <1>2, <2>1, MoneySettles
<1>3. CASE ~Refuse(c) /\ ~End(c)
  <2>1. PICK need, rate :
            /\ UNCHANGED <<rows, held>>
            /\ Become(c, [call[c] EXCEPT !.at = "pool", !.rows = Charged(c), !.onPrice = OnPrice(c),
                                         !.need = need, !.rate = rate])
            /\ need = Cover(c) \/ need = Opening(c)
    BY <1>3, ChargeDecides DEF IInv
  <2>2. RowsLocked(c) /\ call[c].op \in Charges /\ academyOf[call[c].unit] = call[c].scope
    BY <1>3 DEF ReadCharge, ChargeRefused
  <2>3. need \in [Inscriptions -> Nat] /\ \A i \in Inscriptions : need[i] > 0 => i \in Charged(c)
    BY <2>1, <2>2, ChargedNat
  <2>4. call[c].op \in Movers
    BY <2>2 DEF Movers
  <2>5. /\ Charged(c) \subseteq call[c].rows
        /\ \A i \in Charged(c) : Owner(i) = call[c].scope /\ (call[c].op \in Payers => roster[i] = "active")
    BY <2>2, ChargedRows
  <2> QED
    BY <2>1, <2>2, <2>3, <2>4, <2>5, MoneyPlans
<1> QED
  BY <1>1, <1>2, <1>3

\* A gesture or a charge that has planned its moves under its pool's lock.
LEMMA MoneyPlanned ==
    ASSUME IInv, MoneyInv, NEW c \in Calls, NEW moves, call[c].op \in Movers,
           LockPool(c), WithPool(c, [call[c] EXCEPT !.moves = moves]),
           moves \in [Payments -> [Inscriptions -> Int]],
           \A p \in Payments, i \in Inscriptions : moves[p][i] > 0 =>
               call[c].op \in Payers /\ i \in call[c].rows /\ p \in PaymentsOf(call[c].scope)
    PROVE  MoneyInv'
<1> DEFINE fields == [call[c] EXCEPT !.moves = moves]
<1>1. /\ CallsInv /\ ExclusiveInv /\ MoneyCall(c) /\ MoneyRows /\ DOMAIN fields = DOMAIN NoCall
      /\ call[c].at = "pool" /\ UNCHANGED rows /\ WithPool(c, fields)
  BY DEF IInv, CallsInv, MoneyInv, LockPool, WithPool
<1>2. /\ fields.op = call[c].op /\ fields.unit = call[c].unit
      /\ fields.n = call[c].n /\ fields.scope = call[c].scope
      /\ fields.rows = call[c].rows /\ fields.need = call[c].need /\ fields.moves = moves
  BY <1>1 DEF CallsInv, NoCall
<1> HIDE DEF fields
<1>3. /\ Framed(c) /\ call'[c] = [fields EXCEPT !.at = "write"]
      /\ held'[c] = held[c] \cup NextPool(c)
  BY <1>1, PoolMoves
<1>4. /\ call'[c].op = call[c].op /\ call'[c].unit = call[c].unit /\ call'[c].n = call[c].n /\ call'[c].scope = call[c].scope
      /\ call'[c].rows = call[c].rows /\ call'[c].need = call[c].need /\ call'[c].moves = moves
      /\ call'[c].at = "write"
  BY <1>1, <1>2, <1>3 DEF NoCall
<1>5. /\ call[c].scope \in Academies /\ call[c].rows \subseteq Inscriptions /\ held[c] \subseteq Locks
  BY <1>1 DEF MoneyCall, Shaped
<1>6. PoolsOf(c) = {call[c].scope} /\ call[c].scope \in Nat
  BY <1>5, OrderAssumption DEF PoolsOf, Movers, Charges, Gestures
<1>7. <<"pool", call[c].scope>> \in held'[c] /\ held'[c] \subseteq Locks
  <2>1. NextPool(c) \subseteq {<<"pool", call[c].scope>>} /\ <<"pool", call[c].scope>> \in Locks
    BY <1>5, <1>6 DEF NextPool, First, Locks
  <2>2. <<"pool", call[c].scope>> \in held[c] \/ <<"pool", call[c].scope>> \in NextPool(c)
    BY <1>6 DEF NextPool, First
  <2> QED
    BY <1>3, <1>5, <2>1, <2>2
<1>8. Planning(c)'
  <2>1. \A i \in call[c].rows : Owner(i)' = Owner(i) /\ roster'[i] = roster[i]
    BY <1>1 DEF Owner, rows
  <2>2. merged' = merged
    BY <1>1 DEF rows
  <2> QED
    BY <1>1, <1>3, <1>4, <2>1, <2>2 DEF MoneyCall, Planning, RowHeld, RowsOf
<1>9. Moving(c)'
  <2>1. ASSUME NEW p \in Payments, NEW i \in Inscriptions, moves[p][i] > 0
        PROVE  /\ call[c].op \in Payers /\ i \in call[c].rows
               /\ payment'[p].amount > 0 /\ payment'[p].owner = call[c].scope /\ Owner(i)' = call[c].scope
    <3>1. /\ call[c].op \in Payers /\ i \in call[c].rows
          /\ payment[p].amount > 0 /\ payment[p].owner = call[c].scope
      BY <2>1 DEF PaymentsOf
    <3>2. call[c].scope \notin merged
      BY <1>1, <3>1 DEF MoneyRows
    <3>3. Owner(i) = call[c].scope
      BY <1>1, <3>1, <3>2 DEF MoneyCall, Planning
    <3> QED
      BY <1>1, <3>1, <3>3 DEF rows, Owner
  <2> QED
    BY <1>4, <1>7, <2>1 DEF Moving, PoolHeld
<1> QED
  BY <1>1, <1>3, <1>4, <1>5, <1>7, <1>8, <1>9, MoverGoesOn

\* What it asks for of each row with the pool's.
LEMMA PlannedRow ==
    ASSUME PriceInv, MoneyInv, NEW c \in Calls, NEW i \in Inscriptions
    PROVE  /\ Money(c, i) \in Nat /\ Rest(c, i) \in Nat /\ Planned(c)[i] \in Nat
           /\ Planned(c)[i] = call[c].need[i] + Rest(c, i)
           /\ Planned(c)[i] > 0 => i \in call[c].rows
<1>1. MoneyCall(c) /\ MoneyRows
  BY DEF MoneyInv
<1>2. Held(i) \in Nat /\ call[c].need[i] \in Nat /\ Rate(c, i) \in Prices
  BY <1>1, HeldNat, PricesRead DEF MoneyCall, Planning
<1>3. Money(c, i) \in Nat
  BY <1>2 DEF Money
<1>4. Rest(c, i) \in Nat /\ (Rest(c, i) > 0 => i \in call[c].rows)
  BY <1>2, <1>3, AskedNat DEF Rest, Later
<1>5. Planned(c)[i] = call[c].need[i] + Rest(c, i)
  BY DEF Planned
<1>6. call[c].need[i] > 0 => i \in call[c].rows
  BY <1>1 DEF MoneyCall, Planning
<1> QED
  BY <1>2, <1>3, <1>4, <1>5, <1>6

\* Those amounts, all together.
LEMMA PlannedNat ==
    ASSUME PriceInv, MoneyInv, NEW c \in Calls
    PROVE  Planned(c) \in [Inscriptions -> Nat]
BY PlannedRow DEF Planned

\* A payer plans moves of what it holds.
LEMMA MoneyFundFromPool ==
    ASSUME IInv, PriceInv, MoneyInv, NEW c \in Calls, FundFromPool(c)
    PROVE  MoneyInv'
<1>1. CASE Refuse(c)
  BY <1>1, MoneyRefused
<1>2. CASE ~Refuse(c)
  <2> DEFINE plan == Planned(c)
             moves == Spread(plan, call[c].scope)
  <2>1. /\ call[c].op \in Payers /\ LockPool(c) /\ WithPool(c, [call[c] EXCEPT !.moves = moves])
    BY <1>2 DEF FundFromPool, Payers
  <2>2. MoneyCall(c) /\ MoneyRows /\ OtherRows /\ call[c].op \in Movers
    BY <2>1 DEF MoneyInv, Payers, Movers, Gestures
  <2>3. plan \in [Inscriptions -> Nat]
    BY PlannedNat
  <2>4. \A i \in Inscriptions : plan[i] > 0 => i \in call[c].rows
    BY PlannedRow
  <2> HIDE DEF plan
  <2>5. /\ moves \in [Payments -> [Inscriptions -> Int]]
        /\ \A p \in Payments, i \in Inscriptions :
              moves[p][i] > 0 => p \in PaymentsOf(call[c].scope) /\ plan[i] > 0
    BY <2>2, <2>3, SpreadIs
  <2> HIDE DEF moves
  <2> QED
    BY <2>1, <2>2, <2>4, <2>5, MoneyPlanned
<1> QED
  BY <1>1, <1>2

LEMMA MoneyUnwindFromRow ==
    ASSUME IInv, MoneyInv, NEW c \in Calls, NEW i \in Inscriptions, UnwindFromRow(c, i)
    PROVE  MoneyInv'
<1>1. CASE Refuse(c)
  BY <1>1, MoneyRefused
<1>2. CASE ~Refuse(c)
  <2> DEFINE need == IF call[c].op = "release-deposit" THEN [MoneyNowhere EXCEPT ![i] = Held(i)]
                                                       ELSE call[c].need
             moves == Unwind(need)
  <2>1. /\ call[c].op \in Gestures /\ LockPool(c) /\ WithPool(c, [call[c] EXCEPT !.moves = moves])
    BY <1>2 DEF UnwindFromRow
  <2>2. MoneyCall(c) /\ MoneyRows /\ call[c].op \in Movers
    BY <2>1 DEF MoneyInv, Movers
  <2>3. need \in [Inscriptions -> Nat]
    BY <2>2, HeldNat DEF MoneyCall, Planning, MoneyNowhere
  <2> HIDE DEF need
  <2>4. /\ moves \in [Payments -> [Inscriptions -> Int]]
        /\ \A p \in Payments, j \in Inscriptions : ~(moves[p][j] > 0)
    BY <2>2, <2>3, UnwindIs
  <2> HIDE DEF moves
  <2> QED
    BY <2>1, <2>2, <2>4, MoneyPlanned
<1> QED
  BY <1>1, <1>2

\* A lock taken alone.
LEMMA MoneyLockRow ==
    ASSUME IInv, MoneyInv, NEW c \in Calls, LockRow(c)
    PROVE  MoneyInv'
<1> DEFINE S == RowLocks(First(Pending(c)))
<1>1. Acquire(c, S) /\ UNCHANGED <<rows, call>> /\ call[c].at = "rows" /\ MoneyCall(c)
  BY DEF LockRow, MoneyInv
<1>2. S \subseteq Locks
  BY <1>1 DEF RowLocks, First, Pending, MoneyCall, Shaped, Locks
<1> HIDE DEF S
<1>3. Framed(c) /\ call'[c] = call[c] /\ held'[c] = held[c] \cup S
  BY <1>1 DEF IInv, CallsInv, ExclusiveInv, Acquire, NotHeldByOthers, Framed
<1>4. UNCHANGED MoneyTables /\ OtherRows'
  BY <1>1 DEF rows, MoneyTables, MoneyInv, OtherRows
<1>5. Shaped(c)' /\ Planning(c)' /\ Moving(c)'
  BY <1>1, <1>2, <1>3, <1>4 DEF MoneyCall, Shaped, Planning, Moving, RowHeld, PoolHeld, Owner, MoneyTables,
     RowsOf
<1>6. Removing(c)' /\ Changing(c)' /\ Merging(c)'
  BY <1>1, <1>3, <1>4 DEF MoneyCall, Removing, Changing, Merging, RowHeld, PoolHeld, MoneyTables,
     ActiveRows, RowsOf
<1> QED
  BY <1>3, <1>4, <1>5, <1>6, MoneyQuiet DEF MoneyCall

LEMMA MoneyLockAnchor ==
    ASSUME IInv, MoneyInv, NEW c \in Calls, LockAnchor(c)
    PROVE  MoneyInv'
<1> DEFINE place == IF call[c].op = "sync-roster" THEN "choreography" ELSE "reading"
           fields == [call[c] EXCEPT !.at = place]
<1>1. /\ CallsInv /\ ExclusiveInv /\ CallInv(c) /\ MoneyCall(c) /\ call[c].at = "anchor"
      /\ Acquire(c, {<<"anchor", call[c].unit>>}) /\ Become(c, fields) /\ UNCHANGED rows
  BY DEF LockAnchor, Go, IInv, MoneyInv
<1>2. /\ call[c].op \in {"sync-roster", "remove-seminar-row"} /\ call[c].unit \in Units /\ call[c].cut = {}
  BY <1>1 DEF CallInv, Placed, OfOneUnit, CutClean, Removals
<1>3. DOMAIN fields = DOMAIN NoCall /\ place \in {"choreography", "reading"}
  BY <1>1 DEF CallsInv
<1>4. /\ fields.op = call[c].op /\ fields.need = call[c].need /\ fields.moves = call[c].moves
      /\ fields.rows = call[c].rows /\ fields.scope = call[c].scope /\ fields.cut = {}
      /\ fields.at = place
  BY <1>1, <1>2 DEF CallsInv, NoCall
<1>5. Framed(c) /\ call'[c] = fields /\ held'[c] = held[c] \cup {<<"anchor", call[c].unit>>}
  <2> HIDE DEF fields
  <2> QED
    BY <1>1, <1>3, AcquireMoves
<1>6. held'[c] \subseteq Locks
  BY <1>1, <1>2, <1>5 DEF MoneyCall, Shaped, Locks
<1> HIDE DEF fields
<1>7. Removing(c)'
  BY <1>2, <1>3, <1>4, <1>5 DEF Removing
<1>8. /\ call[c].moves \in [Payments -> [Inscriptions -> Int]]
      /\ \A p \in Payments, i \in Inscriptions : ~(call[c].moves[p][i] > 0)
      /\ call[c].rows \subseteq Inscriptions /\ call[c].scope \in Academies \cup {None}
      /\ call[c].op = "remove-seminar-row" => call[c].scope \in Academies
  BY <1>1, <1>2 DEF MoneyCall, Moving, Shaped
<1>9. place = "choreography" <=> call[c].op = "sync-roster"
  OBVIOUS
<1> HIDE DEF place
<1> QED
  BY <1>1, <1>2, <1>3, <1>4, <1>5, <1>6, <1>7, <1>8, <1>9, RemovalGoesOn DEF Removals

LEMMA MoneyLockChoreography ==
    ASSUME IInv, MoneyInv, NEW c \in Calls, LockChoreography(c)
    PROVE  MoneyInv'
<1>1. CASE Refuse(c)
  BY <1>1, MoneyRefused
<1>2. CASE ~Refuse(c)
  <2> DEFINE taken == IF call[c].op = "sync-roster" THEN call[c].rows \cap ActiveRows(call[c].unit)
                                                    ELSE ActiveRows(call[c].unit)
             fields == [call[c] EXCEPT !.at = "rows", !.rows = taken, !.scope = academyOf[call[c].unit]]
  <2>1. /\ CallsInv /\ ExclusiveInv /\ DOMAIN fields = DOMAIN NoCall /\ CallInv(c) /\ MoneyCall(c)
        /\ RowsInv /\ call[c].at = "choreography"
        /\ Acquire(c, {<<"choreography", call[c].unit>>}) /\ Become(c, fields) /\ UNCHANGED rows
    BY <1>2 DEF LockChoreography, IInv, CallsInv, MoneyInv
  <2>2. /\ call[c].op \in OfChoreography /\ call[c].unit \in Units /\ call[c].cut = {}
        /\ academyOf[call[c].unit] \in Academies
    BY <2>1 DEF CallInv, Placed, OfOneUnit, CutClean, Removals, OfChoreography, RowsInv
  <2>3. /\ fields.op = call[c].op /\ fields.unit = call[c].unit /\ fields.need = call[c].need
        /\ fields.moves = call[c].moves /\ fields.cut = {} /\ fields.at = "rows"
        /\ fields.rows = taken /\ fields.scope = academyOf[call[c].unit]
    BY <2>1, <2>2 DEF CallsInv, NoCall
  <2> HIDE DEF fields
  <2>4. /\ Framed(c) /\ call'[c] = fields
        /\ held'[c] = held[c] \cup {<<"choreography", call[c].unit>>}
    BY <2>1, AcquireMoves
  <2>5. held'[c] \subseteq Locks
    BY <2>1, <2>2, <2>4 DEF MoneyCall, Shaped, Locks
  <2>6. taken \subseteq Inscriptions /\ (call[c].op = "remove-choreography" => taken = ActiveRows(call[c].unit))
    BY DEF ActiveRows, RowsOf
  <2>7. ActiveRows(call[c].unit)' = ActiveRows(call[c].unit)
    BY <2>1, <2>3, <2>4 DEF ActiveRows, RowsOf, rows
  <2> HIDE DEF taken
  <2>8. Removing(c)'
    BY <2>3, <2>4, <2>6, <2>7 DEF Removing
  <2>9. /\ call[c].moves \in [Payments -> [Inscriptions -> Int]]
        /\ \A p \in Payments, i \in Inscriptions : ~(call[c].moves[p][i] > 0)
    BY <2>1, <2>2 DEF MoneyCall, Moving
  <2> QED
    BY <2>1, <2>2, <2>3, <2>4, <2>5, <2>6, <2>8, <2>9, RemovalGoesOn DEF Removals, OfChoreography
<1> QED
  BY <1>1, <1>2

\* A removal past its locks decides, or goes on with what it decided.
LEMMA MoneyDecides ==
    ASSUME IInv, MoneyInv, NEW c \in Calls, NEW place \in {"rows", "pool", "write"}, NEW cut,
           call[c].op \in Removals, call[c].at \in {"reading", "rows"},
           Become(c, [call[c] EXCEPT !.at = place, !.cut = cut]), UNCHANGED <<rows, held>>,
           call[c].op # "remove-choreography" => cut \subseteq call[c].rows,
           place # "rows" => Pending(c) = {},
           call[c].op \in OfChoreography => \A i \in cut : /\ \A p \in Payments : allocated[p][i] = 0
                                                           /\ RowHeld(c, i) \/ roster[i] # "active"
    PROVE  MoneyInv'
<1> DEFINE fields == [call[c] EXCEPT !.at = place, !.cut = cut]
<1>1. /\ CallsInv /\ ExclusiveInv /\ MoneyCall(c) /\ DOMAIN fields = DOMAIN NoCall
      /\ Become(c, fields) /\ held' = held /\ UNCHANGED rows
  BY DEF IInv, CallsInv, MoneyInv
<1>2. /\ fields.op = call[c].op /\ fields.unit = call[c].unit /\ fields.need = call[c].need
      /\ fields.moves = call[c].moves /\ fields.rows = call[c].rows /\ fields.scope = call[c].scope
      /\ fields.at = place /\ fields.cut = cut
  BY <1>1 DEF CallsInv, NoCall
<1> HIDE DEF fields
<1>3. Framed(c) /\ call'[c] = fields /\ held'[c] = held[c]
  BY <1>1, BecomeMoves
<1>4. /\ call[c].rows \subseteq Inscriptions /\ call[c].scope \in Academies /\ held[c] \subseteq Locks
      /\ call[c].moves \in [Payments -> [Inscriptions -> Int]]
      /\ \A p \in Payments, i \in Inscriptions : ~(call[c].moves[p][i] > 0)
  BY <1>1 DEF MoneyCall, Shaped, Moving
<1>5. place # "rows" => \A i \in call[c].rows : RowHeld(c, i)'
  BY <1>3, <1>4 DEF Pending, RowHeld
<1>6. ActiveRows(call[c].unit)' \subseteq call[c].rows \/ call[c].op # "remove-choreography"
  BY <1>1, <1>2, <1>3 DEF MoneyCall, Removing, ActiveRows, RowsOf, rows
<1>7. \A i \in cut : RowHeld(c, i) => RowHeld(c, i)'
  BY <1>3 DEF RowHeld
<1>8. allocated' = allocated /\ roster' = roster
  BY <1>1 DEF rows
<1>9. Removing(c)'
  <2>1. ASSUME call[c].op \in OfChoreography, NEW i \in cut
        PROVE  (\A p \in Payments : allocated'[p][i] = 0) /\ (RowHeld(c, i)' \/ roster'[i] # "active")
    <3>1. /\ \A p \in Payments : allocated[p][i] = 0
          /\ RowHeld(c, i) \/ roster[i] # "active"
      BY <2>1
    <3>2. \A p \in Payments : allocated'[p][i] = 0
      BY <1>8, <3>1
    <3>3. RowHeld(c, i)' \/ roster'[i] # "active"
      BY <1>7, <1>8, <3>1
    <3> QED
      BY <3>2, <3>3
  <2>2. /\ call'[c].op = call[c].op /\ call'[c].unit = call[c].unit /\ call'[c].rows = call[c].rows
        /\ call'[c].cut = cut /\ call'[c].at = place
    BY <1>2, <1>3
  <2> QED
    BY <1>2, <1>3, <1>5, <1>6, <2>1, <2>2 DEF Removing, ActiveRows, RowsOf
<1> QED
  BY <1>1, <1>2, <1>3, <1>4, <1>9, RemovalGoesOn

\* What has no evidence holds nothing.
LEMMA NoMoney ==
    ASSUME MoneyRows, NEW i \in Inscriptions, ~Evidence(i)
    PROVE  \A p \in Payments : allocated[p][i] = 0
<1>1. Held(i) \in Nat /\ ~(Held(i) > 0)
  BY HeldNat DEF Evidence
<1> QED
  BY <1>1, HeldNat

LEMMA MoneyDecideRosterRemoval ==
    ASSUME IInv, MoneyInv, NEW c \in Calls, DecideRosterRemoval(c)
    PROVE  MoneyInv'
<1> DEFINE cut == {i \in call[c].rows : ~Evidence(i)}
           place == IF cut = call[c].rows THEN "write" ELSE "pool"
<1>1. /\ call[c].op = "sync-roster" /\ call[c].at = "rows" /\ Pending(c) = {}
      /\ call[c].rows \subseteq Inscriptions /\ MoneyRows
  BY DEF DecideRosterRemoval, RowsLocked, MoneyInv, MoneyCall, Shaped
<1>2. \A i \in cut : (\A p \in Payments : allocated[p][i] = 0) /\ RowHeld(c, i)
  BY <1>1, NoMoney DEF Pending, RowHeld
<1>3. Become(c, [call[c] EXCEPT !.at = place, !.cut = cut]) /\ UNCHANGED <<rows, held>>
  BY DEF DecideRosterRemoval
<1>4. place \in {"rows", "pool", "write"} /\ cut \subseteq call[c].rows
  OBVIOUS
<1>5. call[c].op \in Removals /\ call[c].at \in {"reading", "rows"}
  BY <1>1 DEF Removals
<1> HIDE DEF cut, place
<1> QED
  BY <1>1, <1>2, <1>3, <1>4, <1>5, MoneyDecides

LEMMA MoneyDecideChoreographyRemoval ==
    ASSUME IInv, MoneyInv, NEW c \in Calls, DecideChoreographyRemoval(c)
    PROVE  MoneyInv'
<1> DEFINE cut == IF \E i \in Kept(call[c].unit) : Evidence(i) THEN {} ELSE Kept(call[c].unit)
           place == IF cut # {} \/ call[c].rows = {} THEN "write" ELSE "pool"
<1>1. /\ call[c].op = "remove-choreography" /\ call[c].at = "rows" /\ Pending(c) = {}
      /\ call[c].rows \subseteq Inscriptions /\ MoneyRows /\ ActiveRows(call[c].unit) \subseteq call[c].rows
  BY DEF DecideChoreographyRemoval, RowsLocked, MoneyInv, MoneyCall, Shaped, Removing
<1>2. \A i \in cut : (\A p \in Payments : allocated[p][i] = 0) /\ (RowHeld(c, i) \/ roster[i] # "active")
  <2>1. \A i \in cut : i \in RowsOf(call[c].unit) /\ i \in Inscriptions /\ ~Evidence(i)
    BY DEF Kept, RowsOf
  <2>2. \A i \in call[c].rows : RowHeld(c, i)
    BY <1>1 DEF Pending, RowHeld
  <2>3. \A i \in cut : roster[i] = "active" => i \in call[c].rows
    BY <1>1, <2>1 DEF ActiveRows
  <2> QED
    BY <1>1, <2>1, <2>2, <2>3, NoMoney
<1>3. Become(c, [call[c] EXCEPT !.at = place, !.cut = cut]) /\ UNCHANGED <<rows, held>>
  BY DEF DecideChoreographyRemoval
<1>4. place \in {"rows", "pool", "write"}
  OBVIOUS
<1>5. call[c].op \in Removals /\ call[c].at \in {"reading", "rows"}
  BY <1>1 DEF Removals
<1> HIDE DEF cut, place
<1> QED
  BY <1>1, <1>2, <1>3, <1>4, <1>5, MoneyDecides

LEMMA MoneyDecideSeminarRemoval ==
    ASSUME IInv, MoneyInv, NEW c \in Calls, DecideSeminarRemoval(c)
    PROVE  MoneyInv'
<1> DEFINE cut == {i \in call[c].rows : ~Evidence(i)}
<1>1. call[c].op = "remove-seminar-row" /\ call[c].at = "reading"
  BY DEF DecideSeminarRemoval, IInv, CallInv, Placed
<1>2. Become(c, [call[c] EXCEPT !.at = "rows", !.cut = cut]) /\ UNCHANGED <<rows, held>>
  BY DEF DecideSeminarRemoval
<1>3. cut \subseteq call[c].rows
  OBVIOUS
<1>4. call[c].op \in Removals /\ call[c].op \notin OfChoreography /\ call[c].at \in {"reading", "rows"}
  BY <1>1 DEF Removals, OfChoreography
<1> HIDE DEF cut
<1> QED
  BY <1>2, <1>3, <1>4, MoneyDecides

LEMMA MoneyWriteSeminarRow ==
    ASSUME IInv, MoneyInv, NEW c \in Calls, WriteSeminarRow(c)
    PROVE  MoneyInv'
<1> DEFINE place == IF call[c].cut = {} THEN "pool" ELSE "write"
<1>1. /\ CallsInv /\ MoneyCall(c) /\ UNCHANGED <<rows, held>>
      /\ Become(c, [call[c] EXCEPT !.at = place])
      /\ call[c].op = "remove-seminar-row" /\ call[c].at = "rows" /\ Pending(c) = {}
  BY DEF WriteSeminarRow, RowsLocked, Go, IInv, MoneyInv
<1>2. /\ [call[c] EXCEPT !.at = place] = [call[c] EXCEPT !.at = place, !.cut = call[c].cut]
      /\ place \in {"rows", "pool", "write"} /\ call[c].cut \subseteq call[c].rows
  BY <1>1 DEF CallsInv, NoCall, MoneyCall, Removing, Removals
<1>3. call[c].op \in Removals /\ call[c].op \notin OfChoreography /\ call[c].at \in {"reading", "rows"}
  BY <1>1 DEF Removals, OfChoreography
<1> HIDE DEF place
<1> QED
  BY <1>1, <1>2, <1>3, MoneyDecides, ZenonT(40)

\* With one pool to lock: what the call holds then.
LEMMA MoneyPool ==
    ASSUME MoneyInv, NEW c \in Calls, call[c].op # "merge", call[c].at = "pool",
           held'[c] = held[c] \cup NextPool(c)
    PROVE  held'[c] \subseteq Locks /\ <<"pool", call[c].scope>> \in held'[c]
<1>1. call[c].scope \in Academies /\ held[c] \subseteq Locks
  BY DEF MoneyInv, MoneyCall, Shaped
<1>2. PoolsOf(c) = {call[c].scope} /\ call[c].scope \in Nat
  BY <1>1, OrderAssumption DEF PoolsOf
<1>3. NextPool(c) \subseteq {<<"pool", call[c].scope>>} /\ <<"pool", call[c].scope>> \in Locks
  BY <1>1, <1>2 DEF NextPool, First, Locks
<1>4. <<"pool", call[c].scope>> \in held[c] \/ <<"pool", call[c].scope>> \in NextPool(c)
  BY <1>2 DEF NextPool, First
<1> QED
  BY <1>1, <1>3, <1>4

LEMMA MoneyReleaseAboveDeposit ==
    ASSUME IInv, PriceInv, MoneyInv, NEW c \in Calls, ReleaseAboveDeposit(c)
    PROVE  MoneyInv'
<1> DEFINE need == [i \in Inscriptions |-> IF i \in call[c].rows \ call[c].cut THEN Held(i) - Retained(i) ELSE 0]
           moves == Unwind(need)
           fields == [call[c] EXCEPT !.moves = moves]
<1>1. /\ call[c].op \in Removals /\ call[c].at = "pool" /\ LockPool(c) /\ WithPool(c, fields) /\ UNCHANGED rows
      /\ CallsInv /\ ExclusiveInv /\ MoneyCall(c) /\ MoneyRows /\ DOMAIN fields = DOMAIN NoCall
  BY DEF ReleaseAboveDeposit, LockPool, WithPool, IInv, CallsInv, MoneyInv, Removals
<1>2. need \in [Inscriptions -> Nat]
  <2>1. \A i \in Inscriptions : Held(i) \in Nat /\ DepositAt[PriceOf(i)] \in Nat
    BY <1>1, HeldNat, PricesRead, PriceAssumption
  <2>2. \A i \in Inscriptions : Held(i) - Retained(i) \in Nat
    BY <2>1 DEF Retained, Smaller
  <2> QED
    BY <2>2
<1>3. /\ fields.op = call[c].op /\ fields.unit = call[c].unit /\ fields.need = call[c].need
      /\ fields.moves = moves /\ fields.rows = call[c].rows /\ fields.scope = call[c].scope
      /\ fields.cut = call[c].cut
  BY <1>1 DEF CallsInv, NoCall
<1> HIDE DEF fields, need
<1>4. /\ moves \in [Payments -> [Inscriptions -> Int]]
      /\ \A p \in Payments, i \in Inscriptions : ~(moves[p][i] > 0)
  BY <1>1, <1>2, UnwindIs
<1> HIDE DEF moves
<1>5. /\ Framed(c) /\ call'[c] = [fields EXCEPT !.at = "write"]
      /\ held'[c] = held[c] \cup NextPool(c)
  BY <1>1, PoolMoves
<1>6. /\ call'[c].op = call[c].op /\ call'[c].unit = call[c].unit /\ call'[c].need = call[c].need
      /\ call'[c].moves = moves /\ call'[c].rows = call[c].rows /\ call'[c].scope = call[c].scope
      /\ call'[c].cut = call[c].cut /\ call'[c].at = "write"
  BY <1>1, <1>3, <1>5 DEF NoCall
<1>7. /\ call[c].rows \subseteq Inscriptions /\ call[c].scope \in Academies /\ held'[c] \subseteq Locks
  BY <1>1, <1>5, MoneyPool DEF MoneyCall, Shaped, Removals
<1>8. Removing(c)'
  BY <1>1, <1>5, <1>6 DEF MoneyCall, Removing, RowHeld, ActiveRows, RowsOf, rows
<1> QED
  BY <1>1, <1>4, <1>5, <1>6, <1>7, <1>8, RemovalGoesOn

\* A payment's change with its pool: the payment is still there, and is allowed
\* to change.
LEMMA MoneyLockPaymentPool ==
    ASSUME IInv, MoneyInv, NEW c \in Calls, NEW p \in Payments, LockPaymentPool(c, p)
    PROVE  MoneyInv'
<1>1. CASE Refuse(c)
  BY <1>1, MoneyRefused
<1>2. CASE ~Refuse(c)
  <2>1. /\ call[c].op \in PaymentChanges /\ p = call[c].item /\ call[c].at = "pool"
        /\ payment[p].amount > 0 /\ payment[p].owner = call[c].scope
        /\ call[c].op = "edit-payment" => EditAllowed(c, p)
        /\ LockPool(c) /\ WithPool(c, call[c]) /\ UNCHANGED rows
        /\ CallsInv /\ ExclusiveInv /\ MoneyCall(c) /\ MoneyRows
    BY <1>2 DEF LockPaymentPool, WithPool, IInv, MoneyInv, PaymentChanges
  <2>2. /\ Framed(c) /\ call'[c] = [call[c] EXCEPT !.at = "write"] /\ held'[c] = held[c] \cup NextPool(c)
    BY <2>1, PoolMoves DEF CallsInv
  <2>3. /\ call'[c].op = call[c].op /\ call'[c].need = call[c].need /\ call'[c].moves = call[c].moves
        /\ call'[c].n = call[c].n /\ call'[c].rows = call[c].rows /\ call'[c].scope = call[c].scope
        /\ call'[c].item = call[c].item /\ call'[c].into = call[c].into /\ call'[c].at = "write"
    BY <2>1, <2>2 DEF CallsInv, NoCall
  <2>4. held'[c] \subseteq Locks /\ <<"pool", call[c].scope>> \in held'[c] /\ call[c].scope \in Academies
    BY <2>1, <2>2, MoneyPool DEF PaymentChanges, MoneyCall, Shaped
  <2>5. UNCHANGED MoneyTables /\ OtherRows'
    BY <2>1 DEF rows, MoneyTables, MoneyInv, OtherRows
  <2>6. call[c].op = "edit-payment" /\ call[c].into # call[c].scope => \A i \in Inscriptions : allocated[p][i] = 0
    BY <2>1, SpentNat DEF EditAllowed
  <2>7. Changing(c)'
    BY <2>1, <2>3, <2>4, <2>5, <2>6 DEF MoneyCall, Changing, PoolHeld, MoneyTables
  <2>8. Merging(c)'
    BY <2>1, <2>3 DEF Merging, PaymentChanges
  <2> QED
    BY <2>1, <2>2, <2>3, <2>4, <2>5, <2>7, <2>8, OtherGoesOn
<1> QED
  BY <1>1, <1>2

LEMMA MoneyLockRefundPool ==
    ASSUME IInv, MoneyInv, NEW c \in Calls, LockRefundPool(c)
    PROVE  MoneyInv'
<1>1. CASE Refuse(c)
  BY <1>1, MoneyRefused
<1>2. CASE ~Refuse(c)
  <2>1. /\ call[c].op \in RefundChanges /\ call[c].at = "pool"
        /\ LockPool(c) /\ WithPool(c, call[c]) /\ UNCHANGED rows
        /\ CallsInv /\ ExclusiveInv /\ MoneyCall(c)
    BY <1>2 DEF LockRefundPool, LockPool, WithPool, IInv, MoneyInv
  <2>2. /\ Framed(c) /\ call'[c] = [call[c] EXCEPT !.at = "write"] /\ held'[c] = held[c] \cup NextPool(c)
    BY <2>1, PoolMoves DEF CallsInv
  <2>3. /\ call'[c].op = call[c].op /\ call'[c].need = call[c].need /\ call'[c].moves = call[c].moves
        /\ call'[c].n = call[c].n /\ call'[c].rows = call[c].rows /\ call'[c].scope = call[c].scope
        /\ call'[c].at = "write"
    BY <2>1, <2>2 DEF CallsInv, NoCall
  <2>4. held'[c] \subseteq Locks /\ call[c].scope \in Academies
    BY <2>1, <2>2, MoneyPool DEF RefundChanges, MoneyCall, Shaped
  <2>5. UNCHANGED MoneyTables /\ OtherRows'
    BY <2>1 DEF rows, MoneyTables, MoneyInv, OtherRows
  <2>6. Changing(c)' /\ Merging(c)'
    BY <2>1, <2>3 DEF Changing, Merging, PaymentChanges, RefundChanges
  <2> QED
    BY <2>1, <2>2, <2>3, <2>4, <2>5, <2>6, OtherGoesOn
<1> QED
  BY <1>1, <1>2

LEMMA MoneyLockMergePool ==
    ASSUME IInv, MoneyInv, NEW c \in Calls, LockMergePool(c)
    PROVE  MoneyInv'
<1> DEFINE place == IF PoolsOf(c) = {a \in PoolsOf(c) : <<"pool", a>> \in held'[c]} THEN "academies" ELSE "pool"
<1>1. /\ CallsInv /\ ExclusiveInv /\ CallInv(c) /\ MoneyCall(c) /\ call[c].op = "merge" /\ call[c].at = "pool"
      /\ Acquire(c, NextPool(c)) /\ Become(c, [call[c] EXCEPT !.at = place]) /\ UNCHANGED rows
  BY DEF LockMergePool, LockPool, Go, IInv, MoneyInv
<1>2. place \in {"pool", "academies"} /\ DOMAIN [call[c] EXCEPT !.at = place] = DOMAIN NoCall
  BY <1>1 DEF CallsInv
<1> HIDE DEF place
<1>3. /\ Framed(c) /\ call'[c] = [call[c] EXCEPT !.at = place] /\ held'[c] = held[c] \cup NextPool(c)
  BY <1>1, <1>2, AcquireMoves
<1>4. /\ call'[c].op = call[c].op /\ call'[c].need = call[c].need /\ call'[c].moves = call[c].moves
      /\ call'[c].n = call[c].n /\ call'[c].rows = call[c].rows /\ call'[c].scope = call[c].scope
      /\ call'[c].into = call[c].into /\ call'[c].at = place
  BY <1>1, <1>3 DEF CallsInv, NoCall
<1>5. held'[c] \subseteq Locks /\ call[c].scope \in Academies
  BY <1>1, <1>3 DEF MoneyCall, Shaped, CallInv, OfOneOwner, NextPool, First, PoolsOf, Locks
<1>6. UNCHANGED MoneyTables /\ OtherRows'
  BY <1>1 DEF rows, MoneyTables, MoneyInv, OtherRows
<1>7. Changing(c)' /\ Merging(c)'
  BY <1>1, <1>2, <1>4 DEF MoneyCall, Changing, Merging, PaymentChanges
<1> QED
  BY <1>1, <1>2, <1>3, <1>4, <1>5, <1>6, <1>7, OtherGoesOn

LEMMA MoneyLockAcademies ==
    ASSUME IInv, MoneyInv, NEW c \in Calls, LockAcademies(c)
    PROVE  MoneyInv'
<1>1. CASE Refuse(c)
  BY <1>1, MoneyRefused
<1>2. CASE ~Refuse(c)
  <2>1. /\ CallsInv /\ ExclusiveInv /\ CallInv(c) /\ MoneyCall(c) /\ call[c].at = "academies" /\ UNCHANGED rows
        /\ Acquire(c, {"academy"} \X PoolsOf(c)) /\ Become(c, [call[c] EXCEPT !.at = "write"])
        /\ {call[c].scope, call[c].into} \cap merged = {}
    BY <1>2 DEF LockAcademies, Go, IInv, MoneyInv
  <2>2. DOMAIN [call[c] EXCEPT !.at = "write"] = DOMAIN NoCall /\ call[c].op = "merge"
    BY <2>1 DEF CallsInv, CallInv, Placed
  <2>3. /\ Framed(c) /\ call'[c] = [call[c] EXCEPT !.at = "write"]
        /\ held'[c] = held[c] \cup ({"academy"} \X PoolsOf(c))
    BY <2>1, <2>2, AcquireMoves
  <2>4. /\ call'[c].op = call[c].op /\ call'[c].need = call[c].need /\ call'[c].moves = call[c].moves
        /\ call'[c].n = call[c].n /\ call'[c].rows = call[c].rows /\ call'[c].scope = call[c].scope
        /\ call'[c].into = call[c].into /\ call'[c].at = "write"
    BY <2>1, <2>3 DEF CallsInv, NoCall
  <2>5. held'[c] \subseteq Locks /\ call[c].scope \in Academies
    BY <2>1, <2>2, <2>3 DEF MoneyCall, Shaped, CallInv, OfOneOwner, PoolsOf, Locks
  <2>6. UNCHANGED MoneyTables /\ OtherRows'
    BY <2>1 DEF rows, MoneyTables, MoneyInv, OtherRows
  <2>7. Changing(c)' /\ Merging(c)'
    BY <2>1, <2>2, <2>4, <2>6 DEF MoneyCall, Changing, Merging, PaymentChanges, MoneyTables
  <2> QED
    BY <2>2, <2>3, <2>4, <2>5, <2>6, <2>7, OtherGoesOn
<1> QED
  BY <1>1, <1>2

LEMMA MoneyReserveLines ==
    ASSUME IInv, MoneyInv, NEW c \in Calls, ReserveLines(c)
    PROVE  MoneyInv'
<1>1. CASE Refuse(c)
  BY <1>1, MoneyRefused
<1>2. CASE ~Refuse(c)
  <2>1. /\ CallsInv /\ ExclusiveInv /\ CallInv(c) /\ MoneyCall(c) /\ call[c].at = "reserve"
        /\ Become(c, [call[c] EXCEPT !.at = "settle"]) /\ held' = held
        /\ UNCHANGED <<MoneyTables, refund, waived, stored, today>>
    BY <1>2 DEF ReserveLines, Go, IInv, MoneyInv, MoneyTables
  <2>2. DOMAIN [call[c] EXCEPT !.at = "settle"] = DOMAIN NoCall /\ call[c].op = "emit"
    BY <2>1 DEF CallsInv, CallInv, Placed
  <2>3. Framed(c) /\ call'[c] = [call[c] EXCEPT !.at = "settle"] /\ held'[c] = held[c]
    BY <2>1, <2>2, BecomeMoves
  <2>4. /\ call'[c].op = call[c].op /\ call'[c].need = call[c].need /\ call'[c].moves = call[c].moves
        /\ call'[c].n = call[c].n /\ call'[c].rows = call[c].rows /\ call'[c].scope = call[c].scope
        /\ call'[c].at = "settle"
    BY <2>1, <2>3 DEF CallsInv, NoCall
  <2>5. held'[c] \subseteq Locks /\ call[c].scope \in Academies
    BY <2>1, <2>3 DEF MoneyCall, Shaped
  <2>6. OtherRows'
    BY <2>1 DEF MoneyInv, OtherRows
  <2>7. Changing(c)' /\ Merging(c)'
    BY <2>2, <2>4 DEF Changing, Merging, PaymentChanges
  <2> QED
    BY <2>1, <2>2, <2>3, <2>4, <2>5, <2>6, <2>7, OtherGoesOn
<1> QED
  BY <1>1, <1>2

-----------------------------------------------------------------------------
\* MONEY: A CALL WRITES

\* What a write leaves on an inscription was there, or is what the call puts on it.
LEMMA MovedIs ==
    ASSUME MoneyRows, NEW c \in Calls, MoneyCall(c), NEW cut, allocated' = Moved(c, cut)
    PROVE  /\ allocated' \in [Payments -> [Inscriptions -> Nat]]
           /\ \A p \in Payments, i \in Inscriptions : allocated'[p][i] > 0 =>
                 i \notin cut /\ (allocated[p][i] > 0 \/ call[c].moves[p][i] > 0)
<1>1. ASSUME NEW p \in Payments, NEW i \in Inscriptions
      PROVE  /\ allocated'[p][i] \in Nat
             /\ allocated'[p][i] > 0 => i \notin cut /\ (allocated[p][i] > 0 \/ call[c].moves[p][i] > 0)
  <2>1. allocated[p][i] \in Nat /\ call[c].moves[p][i] \in Int
    BY DEF MoneyRows, MoneyCall, Moving
  <2>2. allocated'[p][i] = IF i \in cut THEN 0 ELSE AtLeastZero(allocated[p][i] + call[c].moves[p][i])
    BY DEF Moved
  <2> QED
    BY <2>1, <2>2 DEF AtLeastZero
<1>2. /\ DOMAIN allocated' = Payments
      /\ \A p \in Payments : DOMAIN allocated'[p] = Inscriptions
      /\ \A p \in Payments : allocated'[p] = [i \in Inscriptions |-> allocated'[p][i]]
      /\ allocated' = [p \in Payments |-> allocated'[p]]
  BY DEF Moved
<1>3. \A p \in Payments : allocated'[p] \in [Inscriptions -> Nat]
  BY <1>1, <1>2
<1> QED
  BY <1>1, <1>2, <1>3

\* The calls beside one that ends.
LEMMA Beside ==
    ASSUME IInv, MoneyInv, NEW c \in Calls, End(c)
    PROVE  /\ MoneyCall(c)'
           /\ \A d \in Calls \ {c} : /\ call'[d] = call[d] /\ held'[d] = held[d]
                                    /\ held[c] \cap held[d] = {} /\ MoneyCall(d) /\ CallInv(d)
BY MoneyEnds DEF IInv, ExclusiveInv, Framed, MoneyInv

LEMMA MoneyMoveMoney ==
    ASSUME IInv, MoneyInv, NEW c \in Calls, MoveMoney(c)
    PROVE  MoneyInv'
<1>1. /\ call[c].op \in Movers /\ call[c].at = "write" /\ allocated' = Moved(c, {}) /\ End(c)
      /\ UNCHANGED <<payment, nextPayment, refund, merged, academyOf, roster, waived, today>>
      /\ MoneyRows /\ OtherRows /\ MoneyCall(c)
  BY DEF MoveMoney, Movers, MoneyInv
<1>2. /\ allocated' \in [Payments -> [Inscriptions -> Nat]]
      /\ \A p \in Payments, i \in Inscriptions :
            allocated'[p][i] > 0 => allocated[p][i] > 0 \/ call[c].moves[p][i] > 0
  BY <1>1, MovedIs
<1>3. ASSUME NEW p \in Payments, NEW i \in Inscriptions, call[c].moves[p][i] > 0
      PROVE  /\ payment[p].amount > 0 /\ payment[p].owner = call[c].scope /\ Owner(i) = call[c].scope
             /\ roster[i] = "active" /\ RowHeld(c, i) /\ PoolHeld(c)
  BY <1>1, <1>3 DEF MoneyCall, Moving, Planning
<1>4. MoneyRows'
  <2>1. \A p \in Payments, i \in Inscriptions : allocated'[p][i] > 0 =>
            /\ payment'[p].amount > 0 /\ payment'[p].owner = Owner(i)' /\ roster'[i] # "deleted"
    BY <1>1, <1>2, <1>3 DEF MoneyRows, Owner
  <2> QED
    BY <1>1, <1>2, <2>1 DEF MoneyRows
<1>5. ASSUME NEW d \in Calls, d # c
      PROVE  MoneyCall(d)'
  <2>1. /\ call'[d] = call[d] /\ held'[d] = held[d] /\ held[c] \cap held[d] = {}
        /\ MoneyCall(d) /\ CallInv(d)
    BY <1>1, <1>5, Beside
  <2>2. Shaped(d)' /\ Planning(d)' /\ Moving(d)' /\ Merging(d)'
    BY <1>1, <2>1 DEF MoneyCall, Shaped, Planning, Moving, Merging, RowHeld, PoolHeld, Owner, RowsOf
  <2>3. ASSUME call[d].op \in OfChoreography, NEW i \in call[d].cut, NEW p \in Payments
        PROVE  allocated'[p][i] = 0
    <3>1. i \in Inscriptions /\ allocated[p][i] = 0 /\ (RowHeld(d, i) \/ roster[i] # "active")
      BY <2>1, <2>3 DEF MoneyCall, Removing, CallInv, OfOneUnit, RowsOf, Removals, OfChoreography
    <3>2. ~(call[c].moves[p][i] > 0)
      BY <1>3, <2>1, <3>1 DEF RowHeld
    <3> QED
      BY <1>2, <3>1, <3>2
  <2>4. Removing(d)'
    BY <1>1, <2>1, <2>3 DEF MoneyCall, Removing, RowHeld, ActiveRows, RowsOf
  <2>5. ASSUME call[d].op = "edit-payment", call[d].at = "write", call[d].into # call[d].scope,
               NEW i \in Inscriptions
        PROVE  allocated'[call[d].item][i] = 0
    <3>1. /\ call[d].item \in Payments /\ allocated[call[d].item][i] = 0
          /\ PoolHeld(d) /\ payment[call[d].item].owner = call[d].scope
      BY <2>1, <2>5 DEF MoneyCall, Changing, PaymentChanges
    <3>2. ~(call[c].moves[call[d].item][i] > 0)
      BY <1>3, <2>1, <3>1 DEF PoolHeld
    <3> QED
      BY <1>2, <3>1, <3>2
  <2>6. Changing(d)'
    BY <1>1, <2>1, <2>5 DEF MoneyCall, Changing, PoolHeld
  <2> QED
    BY <2>2, <2>4, <2>6 DEF MoneyCall
<1>6. OtherRows' /\ MoneyCall(c)'
  BY <1>1, Beside DEF OtherRows
<1> QED
  BY <1>4, <1>5, <1>6 DEF MoneyInv

\* A removal's commit only takes money away, and rows that it has locked.
LEMMA MoneyCommitRemoval ==
    ASSUME IInv, MoneyInv, NEW c \in Calls, CommitRemoval(c)
    PROVE  MoneyInv'
<1> DEFINE cut == call[c].cut
<1>1. /\ call[c].op \in Removals /\ call[c].at = "write" /\ NotHeldByOthers(c, WriteNeeds(c))
      /\ roster' = [i \in Inscriptions |->
                       IF i \in cut THEN "deleted"
                       ELSE IF i \in call[c].rows /\ roster[i] # "deleted" THEN "withdrawn" ELSE roster[i]]
      /\ allocated' = Moved(c, cut) /\ End(c)
      /\ UNCHANGED <<payment, nextPayment, refund, merged, academyOf, waived, stored, today>>
      /\ MoneyRows /\ OtherRows /\ MoneyCall(c)
  BY DEF CommitRemoval, Removals, MoneyInv
<1>2. /\ allocated' \in [Payments -> [Inscriptions -> Nat]]
      /\ \A p \in Payments, i \in Inscriptions : allocated'[p][i] > 0 => i \notin cut /\ allocated[p][i] > 0
  <2>1. \A p \in Payments, i \in Inscriptions : ~(call[c].moves[p][i] > 0)
    BY <1>1 DEF MoneyCall, Moving, Payers, Charges, Removals
  <2> QED
    BY <1>1, <2>1, MovedIs
<1>3. MoneyRows'
  <2>1. \A p \in Payments, i \in Inscriptions : allocated'[p][i] > 0 =>
            /\ payment'[p].amount > 0 /\ payment'[p].owner = Owner(i)' /\ roster'[i] # "deleted"
    BY <1>1, <1>2 DEF MoneyRows, Owner
  <2> QED
    BY <1>1, <1>2, <2>1 DEF MoneyRows
<1>4. \A i \in Inscriptions : roster'[i] = "active" => roster[i] = "active"
  BY <1>1
<1>5. ASSUME NEW d \in Calls, d # c
      PROVE  MoneyCall(d)'
  <2>1. /\ call'[d] = call[d] /\ held'[d] = held[d] /\ held[c] \cap held[d] = {}
        /\ MoneyCall(d) /\ CallInv(d)
    BY <1>1, <1>5, Beside
  <2>2. Shaped(d)' /\ Moving(d)' /\ Merging(d)'
    BY <1>1, <2>1 DEF MoneyCall, Shaped, Moving, Merging, PoolHeld, Owner
  <2>3. ASSUME NEW i \in Inscriptions, RowHeld(d, i)
        PROVE  roster'[i] = roster[i]
    <3>1. i \notin call[c].rows
      BY <1>1, <2>1, <2>3 DEF MoneyCall, Removing, RowHeld
    <3>2. i \notin cut
      <4>1. CASE call[c].op = "remove-choreography"
        <5>1. WriteNeeds(c) = RowLocks(cut)
          BY <4>1 DEF WriteNeeds
        <5> QED
          BY <1>1, <1>5, <2>3, <5>1 DEF NotHeldByOthers, RowLocks, RowHeld
      <4>2. CASE call[c].op # "remove-choreography"
        BY <1>1, <3>1, <4>2 DEF MoneyCall, Removing
      <4> QED
        BY <4>1, <4>2
    <3> QED
      BY <1>1, <3>1, <3>2
  <2>4. Planning(d)'
    <3>1. call[d].rows \subseteq Inscriptions
      BY <2>1 DEF MoneyCall, Shaped
    <3> QED
      BY <1>1, <2>1, <2>3, <3>1 DEF MoneyCall, Planning, RowHeld, Owner, RowsOf
  <2>5. ASSUME call[d].op \in OfChoreography, NEW i \in call[d].cut
        PROVE  (\A p \in Payments : allocated'[p][i] = 0) /\ (RowHeld(d, i) \/ roster'[i] # "active")
    <3>1. /\ i \in Inscriptions /\ (\A p \in Payments : allocated[p][i] = 0)
          /\ RowHeld(d, i) \/ roster[i] # "active"
      BY <2>1, <2>5 DEF MoneyCall, Removing, CallInv, OfOneUnit, RowsOf, Removals, OfChoreography
    <3>2. \A p \in Payments : allocated'[p][i] = 0
      BY <1>2, <3>1
    <3> QED
      BY <1>4, <3>1, <3>2
  <2>6. ActiveRows(call[d].unit)' \subseteq ActiveRows(call[d].unit)
    BY <1>4, <2>1 DEF ActiveRows, RowsOf
  <2>7. Removing(d)'
    BY <2>1, <2>5, <2>6 DEF MoneyCall, Removing, RowHeld
  <2>8. Changing(d)'
    BY <1>1, <1>2, <2>1 DEF MoneyCall, Changing, PoolHeld
  <2> QED
    BY <2>2, <2>4, <2>7, <2>8 DEF MoneyCall
<1>6. OtherRows' /\ MoneyCall(c)'
  BY <1>1, Beside DEF OtherRows
<1> QED
  BY <1>3, <1>5, <1>6 DEF MoneyInv

\* A payment changes while its pool is held: nobody else draws on it.
LEMMA MoneyUpdatePayment ==
    ASSUME IInv, MoneyInv, NEW c \in Calls, NEW p \in Payments, UpdatePayment(c, p)
    PROVE  MoneyInv'
<1>1. /\ call[c].op = "edit-payment" /\ call[c].at = "write" /\ p = call[c].item /\ End(c)
      /\ payment' = IF call[c].into \in merged THEN payment
                    ELSE [payment EXCEPT ![p] = [owner |-> call[c].into, amount |-> call[c].n]]
      /\ UNCHANGED <<nextPayment, refund, allocated, academyOf, merged, roster, waived, stored, today>>
      /\ MoneyRows /\ OtherRows /\ MoneyCall(c)
  BY DEF UpdatePayment, MoneyInv
<1>2. OtherRows'
  BY <1>1 DEF OtherRows
<1>3. CASE call[c].into \in merged
  <2>1. UNCHANGED MoneyTables
    BY <1>1, <1>3 DEF MoneyTables
  <2> QED
    BY <1>1, <1>2, <2>1, MoneySettles
<1>4. CASE call[c].into \notin merged
  <2>1. /\ call[c].into \in Academies /\ call[c].n \in Amount /\ call[c].n > 0 /\ PoolHeld(c)
        /\ payment[p].amount > 0 /\ payment[p].owner = call[c].scope
        /\ call[c].into = call[c].scope \/ \A i \in Inscriptions : allocated[p][i] = 0
    BY <1>1 DEF MoneyCall, Changing, PaymentChanges
  <2>2. /\ payment' \in [Payments -> Payment]
        /\ payment'[p].owner = call[c].into /\ payment'[p].amount = call[c].n
        /\ \A q \in Payments \ {p} : payment'[q] = payment[q]
    BY <1>1, <1>4, <2>1 DEF MoneyRows, Payment
  <2>3. MoneyRows'
    <3>1. \A q \in Payments : payment'[q].amount > 0 => q < nextPayment' /\ payment'[q].owner \notin merged'
      BY <1>1, <1>4, <2>1, <2>2 DEF MoneyRows
    <3>2. ASSUME NEW q \in Payments, NEW i \in Inscriptions, allocated'[q][i] > 0
          PROVE  /\ payment'[q].amount > 0 /\ payment'[q].owner = Owner(i)' /\ roster'[i] # "deleted"
      <4>1. /\ payment[q].amount > 0 /\ payment[q].owner = Owner(i) /\ roster[i] # "deleted"
            /\ allocated[q][i] > 0
        BY <1>1, <3>2 DEF MoneyRows
      <4>2. CASE q = p
        BY <1>1, <2>1, <2>2, <4>1, <4>2 DEF Owner
      <4>3. CASE q # p
        BY <1>1, <2>2, <4>1, <4>3 DEF Owner
      <4> QED
        BY <4>2, <4>3
    <3> QED
      BY <1>1, <2>2, <3>1, <3>2 DEF MoneyRows
  <2>4. ASSUME NEW d \in Calls, d # c
        PROVE  MoneyCall(d)'
    <3>1. /\ call'[d] = call[d] /\ held'[d] = held[d] /\ held[c] \cap held[d] = {} /\ MoneyCall(d)
      BY <1>1, <2>4, Beside
    <3>2. PoolHeld(d) => call[d].scope # payment[p].owner
      BY <2>1, <3>1 DEF PoolHeld
    <3>3. Shaped(d)' /\ Planning(d)' /\ Removing(d)' /\ Merging(d)'
      BY <1>1, <3>1 DEF MoneyCall, Shaped, Planning, Removing, Merging, RowHeld, Owner, RowsOf, ActiveRows
    <3>4. Moving(d)'
      <4>1. ASSUME NEW q \in Payments, NEW i \in Inscriptions, call[d].moves[q][i] > 0
            PROVE  /\ call[d].op \in Payers /\ call[d].at = "write" /\ i \in call[d].rows
                   /\ payment'[q].amount > 0 /\ payment'[q].owner = call[d].scope /\ Owner(i)' = call[d].scope
        <5>1. /\ call[d].op \in Payers /\ call[d].at = "write" /\ i \in call[d].rows /\ PoolHeld(d)
              /\ payment[q].amount > 0 /\ payment[q].owner = call[d].scope /\ Owner(i) = call[d].scope
          BY <3>1, <4>1 DEF MoneyCall, Moving
        <5>2. q # p
          BY <3>2, <5>1
        <5> QED
          BY <1>1, <2>2, <5>1, <5>2 DEF Owner
      <4> QED
        BY <3>1, <4>1 DEF MoneyCall, Moving, PoolHeld
    <3>5. Changing(d)'
      <4>1. ASSUME call[d].op \in PaymentChanges, call[d].at = "write"
            PROVE  payment'[call[d].item] = payment[call[d].item]
        BY <2>2, <3>1, <3>2, <4>1 DEF MoneyCall, Changing
      <4> QED
        BY <1>1, <3>1, <4>1 DEF MoneyCall, Changing, PoolHeld
    <3> QED
      BY <3>3, <3>4, <3>5 DEF MoneyCall
  <2>5. MoneyCall(c)'
    BY <1>1, Beside
  <2> QED
    BY <1>2, <2>3, <2>4, <2>5 DEF MoneyInv
<1> QED
  BY <1>3, <1>4

LEMMA MoneyDeletePayment ==
    ASSUME IInv, MoneyInv, NEW c \in Calls, NEW p \in Payments, DeletePayment(c, p)
    PROVE  MoneyInv'
<1>1. /\ call[c].op = "delete-payment" /\ call[c].at = "write" /\ p = call[c].item /\ End(c)
      /\ payment' = [payment EXCEPT ![p].amount = 0]
      /\ allocated' = [allocated EXCEPT ![p] = MoneyNowhere]
      /\ UNCHANGED <<nextPayment, refund, academyOf, merged, roster, waived, stored, today>>
      /\ MoneyRows /\ OtherRows /\ MoneyCall(c)
  BY DEF DeletePayment, MoneyInv
<1>2. PoolHeld(c) /\ payment[p].owner = call[c].scope
  BY <1>1 DEF MoneyCall, Changing, PaymentChanges
<1>3. /\ payment' \in [Payments -> Payment] /\ payment'[p].amount = 0
      /\ allocated' \in [Payments -> [Inscriptions -> Nat]] /\ allocated'[p] = MoneyNowhere
      /\ \A q \in Payments \ {p} : payment'[q] = payment[q] /\ allocated'[q] = allocated[q]
      /\ \A i \in Inscriptions : MoneyNowhere[i] = 0
  <2>1. payment' \in [Payments -> Payment] /\ payment'[p].amount = 0
    BY <1>1, PriceAssumption DEF MoneyRows, Payment, Amount
  <2>2. /\ MoneyNowhere \in [Inscriptions -> Nat]
        /\ \A i \in Inscriptions : MoneyNowhere[i] = 0
    BY DEF MoneyNowhere
  <2>3. allocated' \in [Payments -> [Inscriptions -> Nat]] /\ allocated'[p] = MoneyNowhere
    BY <1>1, <2>2 DEF MoneyRows
  <2>4. \A q \in Payments \ {p} : payment'[q] = payment[q] /\ allocated'[q] = allocated[q]
    BY <1>1 DEF MoneyRows
  <2> QED
    BY <2>1, <2>2, <2>3, <2>4
<1>4. MoneyRows'
  <2>1. \A q \in Payments, i \in Inscriptions : allocated'[q][i] > 0 => q # p
    BY <1>3
  <2>2. \A q \in Payments : payment'[q].amount > 0 => q # p
    BY <1>3
  <2> QED
    BY <1>1, <1>3, <2>1, <2>2 DEF MoneyRows, Owner
<1>5. ASSUME NEW d \in Calls, d # c
      PROVE  MoneyCall(d)'
  <2>1. /\ call'[d] = call[d] /\ held'[d] = held[d] /\ held[c] \cap held[d] = {} /\ MoneyCall(d) /\ CallInv(d)
    BY <1>1, <1>5, Beside
  <2>2. PoolHeld(d) => call[d].scope # payment[p].owner
    BY <1>2, <2>1 DEF PoolHeld
  <2>3. Shaped(d)' /\ Planning(d)' /\ Merging(d)'
    BY <1>1, <2>1 DEF MoneyCall, Shaped, Planning, Merging, RowHeld, Owner, RowsOf
  <2>4. Moving(d)'
    <3>1. ASSUME NEW q \in Payments, NEW i \in Inscriptions, call[d].moves[q][i] > 0
          PROVE  /\ call[d].op \in Payers /\ call[d].at = "write" /\ i \in call[d].rows
                 /\ payment'[q].amount > 0 /\ payment'[q].owner = call[d].scope /\ Owner(i)' = call[d].scope
      <4>1. /\ call[d].op \in Payers /\ call[d].at = "write" /\ i \in call[d].rows /\ PoolHeld(d)
            /\ payment[q].amount > 0 /\ payment[q].owner = call[d].scope /\ Owner(i) = call[d].scope
        BY <2>1, <3>1 DEF MoneyCall, Moving
      <4>2. q # p
        BY <2>2, <4>1
      <4> QED
        BY <1>1, <1>3, <4>1, <4>2 DEF Owner
    <3> QED
      BY <2>1, <3>1 DEF MoneyCall, Moving, PoolHeld
  <2>5. \A q \in Payments, i \in Inscriptions : allocated[q][i] = 0 => allocated'[q][i] = 0
    BY <1>3
  <2>6. Removing(d)'
    <3>1. call[d].op \in OfChoreography => call[d].cut \subseteq Inscriptions
      BY <2>1 DEF CallInv, OfOneUnit, Removals, OfChoreography, RowsOf
    <3> QED
      BY <1>1, <2>1, <2>5, <3>1 DEF MoneyCall, Removing, RowHeld, ActiveRows, RowsOf
  <2>7. Changing(d)'
    <3>1. ASSUME call[d].op \in PaymentChanges, call[d].at = "write"
          PROVE  payment'[call[d].item] = payment[call[d].item]
      BY <1>3, <2>1, <2>2, <3>1 DEF MoneyCall, Changing
    <3> QED
      BY <2>1, <2>5, <3>1 DEF MoneyCall, Changing, PoolHeld
  <2> QED
    BY <2>3, <2>4, <2>6, <2>7 DEF MoneyCall
<1>6. OtherRows' /\ MoneyCall(c)'
  BY <1>1, Beside DEF OtherRows
<1> QED
  BY <1>4, <1>5, <1>6 DEF MoneyInv

LEMMA MoneySettleEmission ==
    ASSUME IInv, MoneyInv, NEW c \in Calls, SettleEmission(c)
    PROVE  MoneyInv'
<1>1. /\ End(c) /\ UNCHANGED <<payment, nextPayment, refund, allocated, academyOf, merged, roster, waived, stored, today>>
      /\ OtherRows
  BY DEF SettleEmission, MoneyInv
<1>2. UNCHANGED MoneyTables /\ OtherRows'
  BY <1>1 DEF MoneyTables, OtherRows
<1> QED
  BY <1>1, <1>2, MoneySettles

LEMMA MoneyWriteRefund ==
    ASSUME IInv, MoneyInv, NEW c \in Calls, WriteRefund(c)
    PROVE  MoneyInv'
<1> DEFINE r == IF call[c].op = "register-refund" THEN nextRefund ELSE call[c].item
           written == [owner |-> call[c].scope, amount |-> call[c].n, version |-> refund[r].version + 1]
<1>1. /\ call[c].op \in RefundChanges /\ End(c) /\ r \in Refunds
      /\ refund' = [refund EXCEPT ![r] = written]
      /\ UNCHANGED <<payment, nextPayment, allocated, academyOf, merged, roster, waived, stored, today>>
      /\ OtherRows /\ MoneyCall(c) /\ RowsInv
  BY DEF WriteRefund, MoneyInv, IInv
<1>2. written.amount = call[c].n /\ call[c].n \in Amount
  BY <1>1 DEF MoneyCall, Shaped
<1> HIDE DEF written
<1>3. \A q \in Refunds : refund'[q].amount \in Amount
  BY <1>1, <1>2 DEF RowsInv, OtherRows
<1>4. UNCHANGED MoneyTables /\ OtherRows'
  BY <1>1, <1>3 DEF MoneyTables, OtherRows
<1> QED
  BY <1>1, <1>4, MoneySettles

\* A merge moves an academy's payments and its units together, while it holds
\* both pools.
LEMMA MoneyCommitMerge ==
    ASSUME IInv, MoneyInv, NEW c \in Calls, CommitMerge(c)
    PROVE  MoneyInv'
<1>1. CASE Refuse(c)
  BY <1>1, MoneyRefused
<1>2. CASE ~Refuse(c)
  <2> DEFINE from == call[c].scope
             to == call[c].into
             Owned(row) == IF row.owner = from THEN [row EXCEPT !.owner = to] ELSE row
  <2>1. /\ call[c].op = "merge" /\ call[c].at = "write" /\ End(c)
        /\ academyOf' = [u \in Units |-> IF academyOf[u] = from THEN to ELSE academyOf[u]]
        /\ payment' = [p \in Payments |-> Owned(payment[p])]
        /\ refund' = [r \in Refunds |-> IF refund[r].owner = from
                         THEN [Owned(refund[r]) EXCEPT !.version = @ + 1] ELSE refund[r]]
        /\ merged' = merged \cup {from}
        /\ UNCHANGED <<nextPayment, allocated, roster, waived, stored, today>>
    BY <1>2 DEF CommitMerge
  <2>2. /\ RowsInv /\ MoneyRows /\ OtherRows /\ MoneyCall(c) /\ CallInv(c)
        /\ from \in Academies /\ to \in Academies /\ from # to /\ from \notin merged /\ to \notin merged
        /\ <<"pool", from>> \in held[c]
    BY <2>1 DEF IInv, MoneyInv, MoneyCall, Merging, Shaped, CallInv, OfOneOwner, Locked
  <2>3. ASSUME NEW p \in Payments
        PROVE  /\ payment'[p] \in Payment /\ payment'[p].amount = payment[p].amount
               /\ payment'[p].owner = IF payment[p].owner = from THEN to ELSE payment[p].owner
               /\ payment[p].owner # from => payment'[p] = payment[p]
    <3>1. payment[p] \in Payment /\ payment'[p] = Owned(payment[p])
      BY <2>1, <2>2 DEF MoneyRows
    <3> QED
      BY <2>2, <3>1 DEF Payment
  <2>4. ASSUME NEW i \in Inscriptions
        PROVE  Owner(i)' = IF Owner(i) = from THEN to ELSE Owner(i)
    BY <2>1, UnitAssumption DEF Owner
  <2>5. OtherRows'
    <3>1. ASSUME NEW r \in Refunds
          PROVE  refund'[r].amount = refund[r].amount
      <4>1. refund[r] \in [owner : Academies, amount : Nat, version : Nat]
        BY <2>2 DEF RowsInv
      <4> QED
        BY <2>1, <4>1
    <3> QED
      BY <2>1, <2>2, <3>1 DEF OtherRows
  <2>6. MoneyRows'
    <3>1. payment' \in [Payments -> Payment]
      BY <2>1, <2>3
    <3>2. ASSUME NEW p \in Payments, payment'[p].amount > 0
          PROVE  p < nextPayment' /\ payment'[p].owner \notin merged'
      <4>1. payment[p].amount > 0
        BY <2>3, <3>2
      <4>2. p < nextPayment /\ payment[p].owner \notin merged
        BY <2>2, <4>1 DEF MoneyRows
      <4>3. payment'[p].owner # from /\ (payment'[p].owner = to \/ payment'[p].owner = payment[p].owner)
        BY <2>2, <2>3
      <4>4. payment'[p].owner \notin merged'
        <5>1. merged' = merged \cup {from} /\ to \notin merged
          BY <2>1, <2>2
        <5> HIDE DEF from, to
        <5> QED
          BY <4>2, <4>3, <5>1
      <4> QED
        BY <2>1, <4>2, <4>4
    <3>3. ASSUME NEW p \in Payments, NEW i \in Inscriptions, allocated'[p][i] > 0
          PROVE  payment'[p].amount > 0 /\ payment'[p].owner = Owner(i)' /\ roster'[i] # "deleted"
      <4>1. /\ payment[p].amount > 0 /\ payment[p].owner = Owner(i) /\ roster[i] # "deleted"
        BY <2>1, <2>2, <3>3 DEF MoneyRows
      <4>2. payment'[p].amount = payment[p].amount /\ roster' = roster
        BY <2>1, <2>3
      <4>3. payment'[p].owner = Owner(i)'
        BY <2>3, <2>4, <4>1
      <4> QED
        BY <4>1, <4>2, <4>3
    <3> QED
      BY <2>1, <2>2, <3>1, <3>2, <3>3 DEF MoneyRows
  <2>7. ASSUME NEW d \in Calls, d # c
        PROVE  MoneyCall(d)'
    <3>1. /\ call'[d] = call[d] /\ held'[d] = held[d] /\ held[c] \cap held[d] = {}
          /\ MoneyCall(d) /\ CallInv(d)
      BY <2>1, <2>7, Beside
    <3>2. <<"pool", from>> \notin held[d]
      BY <2>2, <3>1
    <3>3. Shaped(d)' /\ Removing(d)'
      BY <2>1, <3>1 DEF MoneyCall, Shaped, Removing, RowHeld, ActiveRows, RowsOf
    <3>4. Planning(d)'
      <4>1. \A i \in Inscriptions : Owner(i) = call[d].scope \/ call[d].scope \in merged =>
                Owner(i)' = call[d].scope \/ call[d].scope \in merged'
        BY <2>1, <2>4
      <4>2. call[d].rows \subseteq Inscriptions
        BY <3>1 DEF MoneyCall, Shaped
      <4> QED
        BY <2>1, <3>1, <4>1, <4>2 DEF MoneyCall, Planning, RowHeld, RowsOf
    <3>5. Moving(d)'
      <4>1. ASSUME NEW p \in Payments, NEW i \in Inscriptions, call[d].moves[p][i] > 0
            PROVE  /\ call[d].op \in Payers /\ call[d].at = "write" /\ i \in call[d].rows
                   /\ payment'[p].amount > 0 /\ payment'[p].owner = call[d].scope /\ Owner(i)' = call[d].scope
        <5>1. /\ call[d].op \in Payers /\ call[d].at = "write" /\ i \in call[d].rows /\ PoolHeld(d)
              /\ payment[p].amount > 0 /\ payment[p].owner = call[d].scope /\ Owner(i) = call[d].scope
          BY <3>1, <4>1 DEF MoneyCall, Moving
        <5>2. call[d].scope # from
          BY <3>2, <5>1 DEF PoolHeld
        <5> QED
          BY <2>3, <2>4, <5>1, <5>2
      <4> QED
        BY <3>1, <4>1 DEF MoneyCall, Moving, PoolHeld
    <3>6. Changing(d)'
      <4>1. ASSUME call[d].op \in PaymentChanges, call[d].at = "write"
            PROVE  payment'[call[d].item] = payment[call[d].item]
        <5>1. call[d].item \in Payments /\ payment[call[d].item].owner # from
          BY <3>1, <3>2, <4>1 DEF MoneyCall, Changing, PoolHeld
        <5> QED
          BY <2>3, <5>1
      <4> QED
        BY <2>1, <3>1, <4>1 DEF MoneyCall, Changing, PoolHeld
    <3>7. Merging(d)'
      <4>1. call[d].op = "merge" /\ call[d].at = "write" => call[d].scope # from /\ call[d].into # from
        BY <3>1, <3>2 DEF CallInv, Locked
      <4> QED
        BY <2>1, <3>1, <4>1 DEF MoneyCall, Merging
    <3> QED
      BY <3>3, <3>4, <3>5, <3>6, <3>7 DEF MoneyCall
  <2>8. MoneyCall(c)'
    BY <2>1, Beside
  <2> QED
    BY <2>5, <2>6, <2>7, <2>8 DEF MoneyInv
<1> QED
  BY <1>1, <1>2

-----------------------------------------------------------------------------
\* MONEY: THE INVARIANT

LEMMA MoneySteps ==
    ASSUME IInv, PriceInv, MoneyInv, NEW c \in Calls, Step(c)
    PROVE  MoneyInv'
<1>1. CASE DeadlockVictim(c)
  BY <1>1, MoneyRefused DEF DeadlockVictim
<1> QED
  BY <1>1, MoneyReadGesture, MoneyReadDepositRelease, MoneyUnwindFromRow, MoneyReadCharge, MoneyFundFromPool,
     MoneyMoveMoney, MoneyLockRow, MoneyLockAnchor, MoneyLockChoreography, MoneyDecideRosterRemoval,
     MoneyDecideChoreographyRemoval, MoneyDecideSeminarRemoval, MoneyWriteSeminarRow,
     MoneyReleaseAboveDeposit, MoneyCommitRemoval, MoneyReserveLines, MoneySettleEmission,
     MoneyLockPaymentPool, MoneyUpdatePayment, MoneyDeletePayment, MoneyLockRefundPool, MoneyWriteRefund,
     MoneyLockMergePool, MoneyLockAcademies, MoneyCommitMerge
     DEF Step

\* No call moves and the money's rows stay.
LEMMA MoneyIdle ==
    ASSUME MoneyInv, UNCHANGED <<MoneyTables, held, call>>, OtherRows'
    PROVE  MoneyInv'
<1>1. MoneyRows'
  BY DEF MoneyInv, MoneyRows, MoneyTables, Owner
<1>2. ASSUME NEW d \in Calls
      PROVE  MoneyCall(d)'
  BY DEF MoneyInv, MoneyCall, Shaped, Planning, Moving, Removing, Changing, Merging, RowHeld, PoolHeld,
     Owner, ActiveRows, RowsOf, MoneyTables
<1> QED
  BY <1>1, <1>2 DEF MoneyInv

\* A payment is registered under a number that no call knows.
LEMMA MoneyRegisterPayment ==
    ASSUME MoneyInv, NEW a \in Academies, NEW n \in Amounts, RegisterPayment(a, n)
    PROVE  MoneyInv'
<1> DEFINE p == nextPayment
<1>1. /\ p \in Payments /\ a \notin merged
      /\ payment' = [payment EXCEPT ![p] = [owner |-> a, amount |-> n]] /\ nextPayment' = p + 1
      /\ UNCHANGED <<refund, allocated, academyOf, merged, roster, waived, stored, today, held, call>>
      /\ MoneyRows /\ OtherRows
  BY DEF RegisterPayment, MoneyInv
<1>2. n \in Amount /\ n > 0 /\ p \in Nat /\ Payments \subseteq Nat
  BY <1>1, PriceAssumption, NumbersAssumption DEF Amount, Amounts
<1>3. ~(payment[p].amount > 0) /\ \A i \in Inscriptions : ~(allocated[p][i] > 0)
  BY <1>1, <1>2 DEF MoneyRows
<1>4. /\ payment' \in [Payments -> Payment] /\ payment'[p].owner = a /\ payment'[p].amount = n
      /\ \A q \in Payments \ {p} : payment'[q] = payment[q]
  BY <1>1, <1>2 DEF MoneyRows, Payment
<1>5. MoneyRows'
  <2>1. nextPayment' \in Nat
    BY <1>1, <1>2
  <2>2. ASSUME NEW q \in Payments, payment'[q].amount > 0
        PROVE  q < nextPayment' /\ payment'[q].owner \notin merged'
    <3>1. CASE q = p
      BY <1>1, <1>2, <1>4, <3>1
    <3>2. CASE q # p
      <4>1. q < p /\ payment'[q].owner \notin merged
        BY <1>1, <1>4, <2>2, <3>2 DEF MoneyRows
      <4> QED
        BY <1>1, <1>2, <4>1
    <3> QED
      BY <3>1, <3>2
  <2>3. \A q \in Payments, i \in Inscriptions : allocated'[q][i] > 0 =>
            /\ payment'[q].amount > 0 /\ payment'[q].owner = Owner(i)' /\ roster'[i] # "deleted"
    BY <1>1, <1>3, <1>4 DEF MoneyRows, Owner
  <2> QED
    BY <1>1, <1>4, <2>1, <2>2, <2>3 DEF MoneyRows
<1>6. ASSUME NEW d \in Calls
      PROVE  MoneyCall(d)'
  <2>1. MoneyCall(d) /\ call'[d] = call[d] /\ held'[d] = held[d]
    BY <1>1 DEF MoneyInv
  <2>2. Shaped(d)' /\ Planning(d)' /\ Removing(d)' /\ Merging(d)'
    BY <1>1, <2>1 DEF MoneyCall, Shaped, Planning, Removing, Merging, RowHeld, Owner, RowsOf, ActiveRows
  <2>3. Moving(d)'
    <3>1. \A q \in Payments, i \in Inscriptions : call[d].moves[q][i] > 0 => payment'[q] = payment[q]
      BY <1>3, <1>4, <2>1 DEF MoneyCall, Moving
    <3> QED
      BY <1>1, <2>1, <3>1 DEF MoneyCall, Moving, PoolHeld, Owner
  <2>4. Changing(d)'
    <3>1. ASSUME call[d].op \in PaymentChanges, call[d].at = "write"
          PROVE  payment'[call[d].item] = payment[call[d].item]
      BY <1>3, <1>4, <2>1, <3>1 DEF MoneyCall, Changing
    <3> QED
      BY <1>1, <2>1, <3>1 DEF MoneyCall, Changing, PoolHeld
  <2> QED
    BY <2>2, <2>3, <2>4 DEF MoneyCall
<1>7. OtherRows'
  BY <1>1 DEF OtherRows
<1> QED
  BY <1>5, <1>6, <1>7 DEF MoneyInv

LEMMA MoneyElsewhere ==
    ASSUME MoneyInv, Elsewhere
    PROVE  MoneyInv'
<1>1. CASE \E a \in Academies, n \in Amounts : RegisterPayment(a, n)
  BY <1>1, MoneyRegisterPayment
<1>2. CASE Quiet
  BY <1>2, MoneyIdle DEF Quiet, vars, rows, MoneyTables, MoneyInv, OtherRows
<1>3. CASE \E S \in SUBSET Inscriptions : Waive(S) \/ Unwaive(S)
  BY <1>3, MoneyIdle DEF Waive, Unwaive, MoneyTables, MoneyInv, OtherRows
<1>4. CASE \E i \in Inscriptions : TotalMoves(i)
  BY <1>4, MoneyIdle DEF TotalMoves, MoneyTables, MoneyInv, OtherRows
<1>5. CASE \E u \in Units : SettleReservation(u)
  BY <1>5, MoneyIdle DEF SettleReservation, MoneyTables, MoneyInv, OtherRows
<1> QED
  BY <1>1, <1>2, <1>3, <1>4, <1>5 DEF Elsewhere

\* The money's invariant holds in every state, however the calls interleave.
THEOREM MoneyInductive == Spec => []MoneyInv
<1>1. ASSUME Init
      PROVE  MoneyInv
  <2>1. MoneyRows
    <3>1. (CHOOSE a \in Academies : TRUE) \in Academies
      BY OrderAssumption
    <3> QED
      BY <1>1, <3>1, PriceAssumption DEF Init, MoneyRows, Payment, Amount, NoMoves, MoneyNowhere
  <2>2. OtherRows
    BY <1>1, PriceAssumption DEF Init, OtherRows, Amount
  <2>3. ASSUME NEW c \in Calls
        PROVE  MoneyCall(c)
    <3>1. /\ call[c].op = "none" /\ call[c].at = "idle" /\ call[c].rows = {} /\ call[c].scope = None
          /\ call[c].need = MoneyNowhere /\ call[c].moves = NoMoves /\ held[c] = {}
      BY <1>1 DEF Init, NoCall
    <3>2. /\ MoneyNowhere \in [Inscriptions -> Nat] /\ NoMoves \in [Payments -> [Inscriptions -> Int]]
          /\ \A i \in Inscriptions : ~(MoneyNowhere[i] > 0)
          /\ \A p \in Payments, i \in Inscriptions : ~(NoMoves[p][i] > 0)
      BY DEF MoneyNowhere, NoMoves
    <3> QED
      BY <3>1, <3>2 DEF MoneyCall, Shaped, Planning, Moving, Removing, Changing, Merging, Places,
         Movers, Payers, Charges, Gestures, Removals, OfChoreography, PaymentChanges, RefundChanges
  <2> QED
    BY <2>1, <2>2, <2>3 DEF MoneyInv
<1>2. ASSUME IInv, PriceInv, MoneyInv, [Next]_vars
      PROVE  MoneyInv'
  <2>1. CASE UNCHANGED vars
    BY <1>2, <2>1, MoneyIdle DEF vars, rows, MoneyTables, MoneyInv, OtherRows
  <2> QED
    BY <1>2, <2>1, MoneyStarts, MoneySteps, MoneyElsewhere DEF Next
<1> QED
  BY <1>1, <1>2, Inductive, PricesInductive, PTL DEF Spec

\* A step leaves the locks, or changes those of one call.
LEMMA HeldSteps ==
    ASSUME Next
    PROVE  held' = held \/ \E c \in Calls : \E S : held' = [held EXCEPT ![c] = S]
<1> DEFINE Takes(c) == held' = held \/ \E S : held' = [held EXCEPT ![c] = S]
<1>1. Elsewhere => held' = held
  BY DEF Elsewhere, Quiet, RegisterPayment, Waive, Unwaive, TotalMoves, SettleReservation, vars
<1>2. ASSUME NEW c \in Calls, Start(c)
      PROVE  Takes(c)
  BY <1>2 DEF Start, StartGesture, StartCharge, StartRosterSync, StartChoreographyRemoval, StartSeminarRemoval,
     StartEmission, StartPaymentChange, StartRefund, StartRefundChange, StartMerge, Begin, Acquire
<1>3. ASSUME NEW c \in Calls, Step(c)
      PROVE  Takes(c)
  <2>1. /\ End(c) \/ Refuse(c) => Takes(c)
        /\ LockPool(c) => Takes(c)
        /\ \A S : Acquire(c, S) => Takes(c)
    BY DEF End, Refuse, LockPool, Acquire
  <2> HIDE DEF Takes
  <2>0. held' = held => Takes(c)
    BY DEF Takes
  <2>2. (\E i \in Inscriptions : ReadGesture(c, i) \/ ReadDepositRelease(c, i) \/ UnwindFromRow(c, i)) => Takes(c)
    BY <2>0, <2>1 DEF ReadGesture, ReadDepositRelease, UnwindFromRow
  <2>3. (ReadCharge(c) \/ FundFromPool(c) \/ MoveMoney(c) \/ LockRow(c) \/ LockAnchor(c) \/ LockChoreography(c))
          => Takes(c)
    BY <2>0, <2>1 DEF ReadCharge, FundFromPool, MoveMoney, LockRow, LockAnchor, LockChoreography
  <2>4. (\/ DecideRosterRemoval(c) \/ DecideChoreographyRemoval(c) \/ DecideSeminarRemoval(c) \/ CommitRemoval(c)
         \/ WriteSeminarRow(c) \/ ReleaseAboveDeposit(c) \/ ReserveLines(c) \/ SettleEmission(c))
          => Takes(c)
    BY <2>0, <2>1 DEF DecideRosterRemoval, DecideChoreographyRemoval, DecideSeminarRemoval, WriteSeminarRow,
       ReleaseAboveDeposit, CommitRemoval, ReserveLines, SettleEmission
  <2>5. (\E p \in Payments : LockPaymentPool(c, p) \/ UpdatePayment(c, p) \/ DeletePayment(c, p)) => Takes(c)
    BY <2>1 DEF LockPaymentPool, UpdatePayment, DeletePayment
  <2>6. (\/ LockRefundPool(c) \/ WriteRefund(c) \/ LockMergePool(c) \/ LockAcademies(c) \/ CommitMerge(c)
         \/ DeadlockVictim(c))
          => Takes(c)
    BY <2>1 DEF LockRefundPool, WriteRefund, LockMergePool, LockAcademies, CommitMerge, DeadlockVictim
  <2> QED
    BY <1>3, <2>2, <2>3, <2>4, <2>5, <2>6 DEF Step
<1> QED
  BY <1>1, <1>2, <1>3 DEF Next

\* Every row and every lock is of its kind, and a call that is idle holds none.
THEOREM TypeCorrect == Spec => []TypeOK
<1> DEFINE HeldIs == held = [c \in Calls |-> held[c]]
<1>1. Init => HeldIs
  BY DEF Init
<1>2. ASSUME HeldIs, [Next]_vars
      PROVE  HeldIs'
  BY <1>2, HeldSteps DEF vars
<1>3. IInv /\ PriceInv /\ MoneyInv /\ HeldIs => TypeOK
  <2> SUFFICES ASSUME IInv, PriceInv, MoneyInv, HeldIs
               PROVE  TypeOK
    OBVIOUS
  <2>1. RowsInv /\ CallsInv /\ MoneyRows /\ OtherRows /\ \A c \in Calls : Shaped(c)
    BY DEF IInv, MoneyInv, MoneyCall
  <2>2. refund \in [Refunds -> Refund]
    BY <2>1 DEF RowsInv, OtherRows, Refund
  <2>3. held \in [Calls -> SUBSET Locks]
    BY <2>1 DEF Shaped
  <2> QED
    BY <2>1, <2>2, <2>3 DEF RowsInv, PriceInv, MoneyRows, OtherRows, Shaped, TypeOK
<1> QED
  BY <1>1, <1>2, <1>3, Inductive, PricesInductive, MoneyInductive, PTL DEF Spec

\* Money pays for the inscriptions of the academy it came from, also across
\* merges and payments that change academy.
THEOREM MoneyStaysHome == Spec => []OwnMoneyOnly
<1>1. MoneyInv => OwnMoneyOnly
  BY DEF MoneyInv, MoneyRows, OwnMoneyOnly
<1> QED
  BY <1>1, MoneyInductive, PTL

\* Only a removal's commit writes on the rosters.
LEMMA RosterKept ==
    ASSUME Next, roster' # roster
    PROVE  \E c \in Calls : CommitRemoval(c)
<1>1. ~Elsewhere
  BY DEF Elsewhere, Quiet, RegisterPayment, Waive, Unwaive, TotalMoves, SettleReservation, vars, rows
<1>2. ASSUME NEW c \in Calls, Start(c)
      PROVE  FALSE
  BY <1>2, ZenonT(40) DEF Start, StartGesture, StartCharge, StartRosterSync, StartChoreographyRemoval, StartSeminarRemoval,
     StartEmission, StartPaymentChange, StartRefund, StartRefundChange, StartMerge, Begin, rows
<1>3. ASSUME NEW c \in Calls, Step(c)
      PROVE  CommitRemoval(c)
  <2>1. ~Refuse(c) /\ \A fields : ~WithPool(c, fields)
    BY DEF Refuse, WithPool, rows
  <2>2. ~\E i \in Inscriptions : ReadGesture(c, i) \/ ReadDepositRelease(c, i) \/ UnwindFromRow(c, i)
    BY <2>1 DEF ReadGesture, ReadDepositRelease, UnwindFromRow, rows
  <2>3. ~(ReadCharge(c) \/ FundFromPool(c) \/ MoveMoney(c) \/ LockRow(c) \/ LockAnchor(c) \/ LockChoreography(c))
    BY <2>1 DEF ReadCharge, FundFromPool, MoveMoney, LockRow, LockAnchor, LockChoreography, rows
  <2>4. ~(\/ DecideRosterRemoval(c) \/ DecideChoreographyRemoval(c) \/ DecideSeminarRemoval(c)
          \/ WriteSeminarRow(c) \/ ReleaseAboveDeposit(c) \/ ReserveLines(c) \/ SettleEmission(c))
    BY <2>1 DEF DecideRosterRemoval, DecideChoreographyRemoval, DecideSeminarRemoval, WriteSeminarRow,
       ReleaseAboveDeposit, ReserveLines, SettleEmission, rows
  <2>5. ~\E p \in Payments : LockPaymentPool(c, p) \/ UpdatePayment(c, p) \/ DeletePayment(c, p)
    BY <2>1 DEF LockPaymentPool, UpdatePayment, DeletePayment
  <2>6. ~(\/ LockRefundPool(c) \/ WriteRefund(c) \/ LockMergePool(c) \/ LockAcademies(c) \/ CommitMerge(c)
          \/ DeadlockVictim(c))
    BY <2>1 DEF LockRefundPool, WriteRefund, LockMergePool, LockAcademies, CommitMerge, DeadlockVictim, rows
  <2> QED
    BY <1>3, <2>2, <2>3, <2>4, <2>5, <2>6 DEF Step
<1> QED
  BY <1>1, <1>2, <1>3 DEF Next

\* No step deletes a choreography's row that has evidence when it goes.
THEOREM EvidenceStays == Spec => EvidenceNeverDestroyed
<1> DEFINE Keeps == \A i \in Inscriptions :
                       UnitOf[i] \in Choreographies /\ Evidence(i) => roster'[i] # "deleted"
<1>1. ASSUME IInv, MoneyInv, NEW i \in Inscriptions, \A p \in Payments : allocated[p][i] = 0,
             document[i] = "none"
      PROVE  ~Evidence(i)
  <2>1. Held(i) = 0
    BY <1>1, HeldNat DEF MoneyInv
  <2> QED
    BY <1>1, <2>1 DEF Evidence
<1>2. ASSUME IInv, MoneyInv, NEW i \in Inscriptions, roster[i] = "deleted"
      PROVE  ~Evidence(i)
  <2>1. \A p \in Payments : allocated[p][i] = 0
    BY <1>2 DEF MoneyInv, MoneyRows
  <2>2. document[i] = "none"
    BY <1>2 DEF IInv, DocumentedKeepsRow
  <2> QED
    BY <1>1, <1>2, <2>1, <2>2
<1>3. ASSUME IInv, MoneyInv, [Next]_vars
      PROVE  Keeps
  <2> SUFFICES ASSUME NEW i \in Inscriptions, UnitOf[i] \in Choreographies, roster'[i] = "deleted"
               PROVE  ~Evidence(i)
    OBVIOUS
  <2>1. CASE roster[i] = "deleted"
    BY <1>2, <1>3, <2>1
  <2>2. CASE roster[i] # "deleted"
    <3>1. PICK c \in Calls : CommitRemoval(c)
      <4>1. roster' # roster
        BY <2>2
      <4>2. Next
        BY <1>3, <4>1 DEF vars, rows
      <4> QED
        BY <4>1, <4>2, RosterKept
    <3>2. call[c].op \in Removals /\ i \in call[c].cut /\ CallInv(c) /\ MoneyCall(c)
      BY <1>3, <2>2, <3>1 DEF CommitRemoval, Removals, IInv, MoneyInv
    <3>3. call[c].op \in OfChoreography
      BY <3>2 DEF CallInv, OfOneUnit, RowsOf, Removals, OfChoreography
    <3>4. document[i] = "none" /\ \A p \in Payments : allocated[p][i] = 0
      BY <3>2, <3>3 DEF CallInv, CutClean, MoneyCall, Removing
    <3> QED
      BY <1>1, <1>3, <3>4
  <2> QED
    BY <2>1, <2>2
<1> QED
  BY <1>3, Inductive, MoneyInductive, PTL DEF Spec, EvidenceNeverDestroyed

-----------------------------------------------------------------------------
\* LOCKS IN ORDER: THE INDUCTIVE INVARIANT

\* What a call that holds a lock is, and where it can be: the locks are taken in the
\* order anchor, choreography, rows, pools, academies, the rows by id and the
\* pools by key.
Choreographed(c) ==
    \A u : <<"choreography", u>> \in held[c] =>
        u = call[c].unit /\ call[c].op \in OfChoreography /\ call[c].at \in {"rows", "pool", "write"}
Rowed(c) ==
    /\ \A i \in Inscriptions : <<"row", i>> \in held[c] =>
          /\ UnitOf[i] = call[c].unit /\ call[c].at \in {"rows", "pool", "write"}
          /\ call[c].op \in Gestures \cup Charges \cup Removals
    /\ call[c].at = "rows" => \A i \in Inscriptions : <<"row", i>> \in held[c] =>
          i \in call[c].rows /\ \A j \in Pending(c) : i < j
    /\ call[c].at = "rows" => /\ call[c].rows \subseteq RowsOf(call[c].unit)
                              /\ call[c].op \in Gestures \cup Charges \cup Removals
    /\ call[c].op \in Gestures => \A i, j \in call[c].rows : i = j
Pooled(c) ==
    /\ \A a : <<"pool", a>> \in held[c] =>
          /\ call[c].at \in {"pool", "academies", "write"}
          /\ call[c].at = "pool" => /\ call[c].op = "merge" /\ a \in PoolsOf(c)
                                    /\ \A b \in PoolsOf(c) : <<"pool", b>> \in held[c] \/ a < b
          /\ call[c].op = "remove-choreography" => call[c].cut = {}
    /\ call[c].op = "remove-choreography" /\ call[c].at = "pool" => call[c].cut = {}
    /\ \A a : <<"academy", a>> \in held[c] => call[c].op = "merge" /\ call[c].at = "write"
Ordered(c) ==
    /\ call[c].at \in {"idle", "anchor"} => held[c] = {}
    /\ Choreographed(c) /\ Rowed(c) /\ Pooled(c)
OrderInv == \A c \in Calls : Ordered(c)

\* A call's order is its own.
LEMMA OrderFrame ==
    ASSUME IInv, OrderInv, NEW c \in Calls, Framed(c), Ordered(c)'
    PROVE  OrderInv'
<1>1. ASSUME NEW d \in Calls, d # c
      PROVE  Ordered(d)'
  <2>1. call'[d] = call[d] /\ held'[d] = held[d] /\ Ordered(d)
    BY <1>1 DEF Framed, OrderInv
  <2>2. Pending(d)' = Pending(d) /\ PoolsOf(d)' = PoolsOf(d) /\ \A u : RowsOf(u)' = RowsOf(u)
    BY <2>1 DEF Pending, PoolsOf, RowsOf
  <2>3. Choreographed(d)'
    BY <2>1 DEF Ordered, Choreographed
  <2>4. Rowed(d)'
    BY <2>1, <2>2 DEF Ordered, Rowed
  <2>5. Pooled(d)'
    BY <2>1, <2>2 DEF Ordered, Pooled
  <2> QED
    BY <2>1, <2>3, <2>4, <2>5 DEF Ordered
<1> QED
  BY <1>1 DEF OrderInv

\* A call that ends has no locks left.
LEMMA OrderEnds ==
    ASSUME IInv, OrderInv, NEW c \in Calls, End(c)
    PROVE  OrderInv'
<1>1. Framed(c) /\ call'[c] = NoCall /\ held'[c] = {}
  BY EndMoves DEF IInv
<1>2. Ordered(c)'
  BY <1>1 DEF NoCall, Ordered, Choreographed, Rowed, Pooled, Gestures
<1> QED
  BY <1>1, <1>2, OrderFrame

\* A refused one neither.
LEMMA OrderRefused ==
    ASSUME IInv, OrderInv, NEW c \in Calls, Refuse(c)
    PROVE  OrderInv'
BY OrderEnds DEF Refuse

\* A call begins without a lock; a gesture is of one row.
LEMMA OrderBegins ==
    ASSUME IInv, OrderInv, NEW c \in Calls, NEW fields, Begin(c, fields), DOMAIN fields = DOMAIN NoCall,
           fields.at = "rows" => /\ fields.rows \subseteq RowsOf(fields.unit)
                                 /\ fields.op \in Gestures \cup Charges,
           fields.op \in Gestures => \A i, j \in fields.rows : i = j,
           fields.cut = {}
    PROVE  OrderInv'
<1>1. Framed(c) /\ call'[c] = fields /\ held'[c] = held[c]
  BY BecomeMoves DEF IInv, Begin, Become
<1>2. held[c] = {}
  BY DEF Begin, OrderInv, Ordered
<1>3. Ordered(c)'
  BY <1>1, <1>2 DEF Ordered, Choreographed, Rowed, Pooled, RowsOf
<1> QED
  BY <1>1, <1>3, OrderFrame

\* Every operation begins so.
LEMMA OrderStart ==
    ASSUME IInv, OrderInv, NEW c \in Calls, Start(c)
    PROVE  OrderInv'
<1>1. ASSUME NEW op \in Gestures, NEW i \in Inscriptions, NEW n \in Amount, NEW pick \in Prices \cup {None},
             StartGesture(c, op, i, n, pick)
      PROVE  OrderInv'
  <2> DEFINE fields == [NoCall EXCEPT !.op = op, !.at = "rows", !.unit = UnitOf[i], !.rows = {i},
                                      !.scope = Owner(i), !.n = n, !.pick = pick]
  <2>1. /\ DOMAIN fields = DOMAIN NoCall /\ fields.op = op /\ fields.rows = {i} /\ fields.unit = UnitOf[i] /\ fields.cut = {}
        /\ Begin(c, fields)
    BY <1>1 DEF NoCall, StartGesture
  <2>2. fields.rows \subseteq RowsOf(fields.unit)
    BY <2>1 DEF RowsOf
  <2> HIDE DEF fields
  <2> QED
    BY <2>1, <2>2, OrderBegins
<1>2. ASSUME NEW op \in Charges, NEW u \in Units, NEW pick \in Prices \cup {None}, StartCharge(c, op, u, pick)
      PROVE  OrderInv'
  <2> DEFINE fields == [NoCall EXCEPT !.op = op, !.at = "rows", !.unit = u, !.rows = ActiveRows(u),
                                      !.scope = academyOf[u], !.pick = pick]
  <2>1. /\ DOMAIN fields = DOMAIN NoCall /\ fields.rows = ActiveRows(u) /\ fields.unit = u /\ fields.cut = {}
        /\ fields.op = op /\ fields.op \notin Gestures /\ Begin(c, fields)
    BY <1>2 DEF NoCall, StartCharge, Charges, Gestures
  <2>2. fields.rows \subseteq RowsOf(fields.unit)
    BY <2>1 DEF RowsOf, ActiveRows
  <2> HIDE DEF fields
  <2> QED
    BY <2>1, <2>2, OrderBegins
<1>3. ASSUME NEW u \in Units, NEW R \in SUBSET Inscriptions, StartRosterSync(c, u, R)
      PROVE  OrderInv'
  BY <1>3, OrderBegins DEF StartRosterSync, NoCall, Gestures
<1>4. ASSUME NEW u \in Units, StartChoreographyRemoval(c, u)
      PROVE  OrderInv'
  BY <1>4, OrderBegins DEF StartChoreographyRemoval, NoCall, Gestures
<1>5. ASSUME NEW i \in Inscriptions, StartSeminarRemoval(c, i)
      PROVE  OrderInv'
  BY <1>5, OrderBegins DEF StartSeminarRemoval, NoCall, Gestures
<1>6. ASSUME NEW u \in Units, NEW S \in SUBSET Inscriptions, StartEmission(c, u, S)
      PROVE  OrderInv'
  <2> DEFINE fields == [NoCall EXCEPT !.op = "emit", !.at = "reserve", !.unit = u, !.rows = S,
                                      !.scope = academyOf[u]]
             S1 == {<<"anchor", u>>}
  <2>1. /\ DOMAIN fields = DOMAIN NoCall /\ fields.op = "emit" /\ fields.at = "reserve"
        /\ Become(c, fields) /\ Acquire(c, S1) /\ held[c] = {}
    BY <1>6 DEF NoCall, StartEmission, OrderInv, Ordered
  <2> HIDE DEF fields, S1
  <2>2. Framed(c) /\ call'[c] = fields /\ held'[c] = held[c] \cup S1
    BY <2>1, AcquireMoves DEF IInv
  <2>3. held'[c] = {<<"anchor", u>>}
    BY <2>1, <2>2 DEF S1
  <2>4. Ordered(c)'
    BY <2>1, <2>2, <2>3 DEF Ordered, Choreographed, Rowed, Pooled, Gestures
  <2> QED
    BY <2>2, <2>4, OrderFrame
<1>7. ASSUME NEW p \in Payments, NEW a \in Academies, NEW n, NEW op \in {"delete-payment", "edit-payment"},
             StartPaymentChange(c, op, p, n, a)
      PROVE  OrderInv'
  BY <1>7, OrderBegins DEF StartPaymentChange, NoCall, Gestures
<1>8. ASSUME NEW a \in Academies, NEW n \in Amounts, StartRefund(c, a, n)
      PROVE  OrderInv'
  BY <1>8, OrderBegins DEF StartRefund, NoCall, Gestures
<1>9. ASSUME NEW op \in RefundChanges \ {"register-refund"}, NEW r \in Refunds, NEW n \in Amount,
             StartRefundChange(c, op, r, n)
      PROVE  OrderInv'
  BY <1>9, OrderBegins DEF StartRefundChange, NoCall, Gestures, RefundChanges
<1>10. ASSUME NEW a \in Academies, NEW b \in Academies, StartMerge(c, a, b)
       PROVE  OrderInv'
  BY <1>10, OrderBegins DEF StartMerge, NoCall, Gestures
<1> QED
  BY <1>1, <1>2, <1>3, <1>4, <1>5, <1>6, <1>7, <1>8, <1>9, <1>10 DEF Start

-----------------------------------------------------------------------------
\* LOCKS IN ORDER: THE STEPS

\* A call past its rows keeps its locks as it decides what to write.
LEMMA OrderDecides ==
    ASSUME IInv, OrderInv, NEW c \in Calls, NEW fields, Become(c, fields), held' = held,
           DOMAIN fields = DOMAIN NoCall, call[c].at = "rows", fields.op = call[c].op,
           fields.unit = call[c].unit, fields.at \in {"pool", "write"}, fields.rows \subseteq call[c].rows,
           fields.op = "remove-choreography" /\ fields.at = "pool" => fields.cut = {}
    PROVE  OrderInv'
<1>1. Framed(c) /\ call'[c] = fields /\ held'[c] = held[c]
  BY BecomeMoves DEF IInv
<1>2. Ordered(c)
  BY DEF OrderInv
<1>3. call[c].op # "merge"
  BY DEF IInv, CallInv, Placed
<1>4. Choreographed(c)'
  BY <1>1, <1>2 DEF Ordered, Choreographed
<1>5. Rowed(c)'
  BY <1>1, <1>2 DEF Ordered, Rowed
<1>6. Pooled(c)'
  BY <1>1, <1>2, <1>3 DEF Ordered, Pooled
<1> QED
  BY <1>1, <1>4, <1>5, <1>6, OrderFrame DEF Ordered

\* A gesture that has read its row.
LEMMA OrderReadGesture ==
    ASSUME IInv, OrderInv, NEW c \in Calls, NEW i \in Inscriptions, ReadGesture(c, i)
    PROVE  OrderInv'
<1>1. CASE Refuse(c)
  BY <1>1, OrderRefused
<1>2. CASE ~Refuse(c)
  <2>1. PICK amount, below :
            Become(c, [call[c] EXCEPT !.at = "pool", !.need[i] = amount, !.onPrice = below]) /\ held' = held
    BY <1>2 DEF ReadGesture
  <2> DEFINE fields == [call[c] EXCEPT !.at = "pool", !.need[i] = amount, !.onPrice = below]
  <2>2. /\ DOMAIN fields = DOMAIN NoCall /\ fields.op = call[c].op /\ fields.unit = call[c].unit
        /\ fields.at = "pool" /\ fields.rows = call[c].rows /\ call[c].at = "rows"
        /\ fields.op # "remove-choreography"
    BY <1>2 DEF ReadGesture, RowsLocked, IInv, CallsInv, NoCall, Gestures
  <2>3. Become(c, fields)
    BY <2>1
  <2> HIDE DEF fields
  <2> QED
    BY <2>1, <2>2, <2>3, OrderDecides
<1> QED
  BY <1>1, <1>2

\* A return of a deposit, the same.
LEMMA OrderReadDepositRelease ==
    ASSUME IInv, OrderInv, NEW c \in Calls, NEW i \in Inscriptions, ReadDepositRelease(c, i)
    PROVE  OrderInv'
<1>1. CASE Refuse(c)
  BY <1>1, OrderRefused
<1>2. CASE ~Refuse(c)
  <2> DEFINE fields == [call[c] EXCEPT !.at = "pool"]
  <2>1. Become(c, fields) /\ held' = held
    BY <1>2 DEF ReadDepositRelease, Go
  <2>2. /\ DOMAIN fields = DOMAIN NoCall /\ fields.op = call[c].op /\ fields.unit = call[c].unit
        /\ fields.at = "pool" /\ fields.rows = call[c].rows /\ call[c].at = "rows"
        /\ fields.op # "remove-choreography"
    BY DEF ReadDepositRelease, RowsLocked, IInv, CallsInv, NoCall
  <2> HIDE DEF fields
  <2> QED
    BY <2>1, <2>2, OrderDecides
<1> QED
  BY <1>1, <1>2

\* A charge goes on with the rows still active.
LEMMA OrderReadCharge ==
    ASSUME IInv, OrderInv, NEW c \in Calls, ReadCharge(c)
    PROVE  OrderInv'
<1>1. CASE Refuse(c)
  BY <1>1, OrderRefused
<1>2. CASE ~Refuse(c) /\ End(c)
  BY <1>2, OrderEnds
<1>3. CASE ~Refuse(c) /\ ~End(c)
  <2>1. PICK below, need, rate : /\ held' = held
                                 /\ Become(c, [call[c] EXCEPT !.at = "pool", !.rows = Charged(c),
                                                              !.onPrice = below, !.need = need, !.rate = rate])
    BY <1>3, ChargeDecides DEF IInv
  <2> DEFINE fields == [call[c] EXCEPT !.at = "pool", !.rows = Charged(c), !.onPrice = below, !.need = need,
                                       !.rate = rate]
  <2>2. /\ DOMAIN fields = DOMAIN NoCall /\ fields.op = call[c].op /\ fields.unit = call[c].unit
        /\ fields.at = "pool" /\ fields.rows \subseteq call[c].rows /\ call[c].at = "rows"
        /\ fields.op # "remove-choreography"
    BY DEF ReadCharge, Charged, RowsLocked, IInv, CallsInv, NoCall, Charges
  <2>3. Become(c, fields)
    BY <2>1
  <2> HIDE DEF fields
  <2> QED
    BY <2>1, <2>2, <2>3, OrderDecides
<1> QED
  BY <1>1, <1>2, <1>3

\* What a removal decides: what it deletes sends it to its write with no pool.
LEMMA OrderDecideRemoval ==
    ASSUME IInv, OrderInv, NEW c \in Calls, NEW place \in {"pool", "write"}, NEW cut,
           Become(c, [call[c] EXCEPT !.at = place, !.cut = cut]), held' = held, call[c].at = "rows",
           call[c].op = "remove-choreography" /\ place = "pool" => cut = {}
    PROVE  OrderInv'
<1> DEFINE fields == [call[c] EXCEPT !.at = place, !.cut = cut]
<1>1. /\ DOMAIN fields = DOMAIN NoCall /\ fields.op = call[c].op /\ fields.unit = call[c].unit
      /\ fields.at = place /\ fields.rows = call[c].rows /\ fields.cut = cut /\ Become(c, fields)
  BY DEF IInv, CallsInv, NoCall
<1> HIDE DEF fields
<1> QED
  BY <1>1, OrderDecides

\* The removals' decisions.
LEMMA OrderDecide ==
    ASSUME IInv, OrderInv, NEW c \in Calls, DecideRosterRemoval(c) \/ DecideChoreographyRemoval(c)
    PROVE  OrderInv'
<1>1. CASE DecideRosterRemoval(c)
  <2>1. PICK place, cut : /\ Become(c, [call[c] EXCEPT !.at = place, !.cut = cut]) /\ held' = held
                          /\ place \in {"pool", "write"}
    BY <1>1 DEF DecideRosterRemoval
  <2>2. call[c].op # "remove-choreography" /\ call[c].at = "rows"
    BY <1>1 DEF DecideRosterRemoval, RowsLocked
  <2> QED
    BY <2>1, <2>2, OrderDecideRemoval
<1>2. CASE DecideChoreographyRemoval(c)
  <2> DEFINE cut == IF \E i \in Kept(call[c].unit) : Evidence(i) THEN {} ELSE Kept(call[c].unit)
             place == IF cut # {} \/ call[c].rows = {} THEN "write" ELSE "pool"
  <2>1. Become(c, [call[c] EXCEPT !.at = place, !.cut = cut]) /\ held' = held /\ call[c].at = "rows"
    BY <1>2 DEF DecideChoreographyRemoval, RowsLocked
  <2>2. place \in {"pool", "write"} /\ (place = "pool" => cut = {})
    OBVIOUS
  <2> HIDE DEF cut, place
  <2> QED
    BY <2>1, <2>2, OrderDecideRemoval
<1> QED
  BY <1>1, <1>2

\* A seminar's removal has its row, and goes on with what it had decided.
LEMMA OrderWriteSeminarRow ==
    ASSUME IInv, OrderInv, NEW c \in Calls, WriteSeminarRow(c)
    PROVE  OrderInv'
<1> DEFINE place == IF call[c].cut = {} THEN "pool" ELSE "write"
           fields == [call[c] EXCEPT !.at = place]
<1>1. place \in {"pool", "write"}
  OBVIOUS
<1>2. Become(c, fields) /\ held' = held /\ call[c].at = "rows" /\ call[c].op = "remove-seminar-row"
  BY DEF WriteSeminarRow, RowsLocked, Go
<1> HIDE DEF place
<1>3. /\ DOMAIN fields = DOMAIN NoCall /\ fields.op = call[c].op /\ fields.unit = call[c].unit
      /\ fields.at = place /\ fields.rows = call[c].rows
  BY DEF IInv, CallsInv, NoCall
<1> HIDE DEF fields
<1> QED
  BY <1>1, <1>2, <1>3, OrderDecides

\* It decides before it has a row.
LEMMA OrderDecideSeminarRemoval ==
    ASSUME IInv, OrderInv, NEW c \in Calls, DecideSeminarRemoval(c)
    PROVE  OrderInv'
<1>1. PICK cut : Become(c, [call[c] EXCEPT !.at = "rows", !.cut = cut]) /\ held' = held
  BY DEF DecideSeminarRemoval
<1> DEFINE fields == [call[c] EXCEPT !.at = "rows", !.cut = cut]
<1>2. /\ DOMAIN fields = DOMAIN NoCall /\ fields.op = call[c].op /\ fields.unit = call[c].unit
      /\ fields.at = "rows" /\ fields.rows = call[c].rows /\ Become(c, fields)
  BY <1>1 DEF IInv, CallsInv, NoCall
<1>3. /\ call[c].at = "reading" /\ call[c].op = "remove-seminar-row" /\ call[c].rows \subseteq RowsOf(call[c].unit)
      /\ Ordered(c)
  BY DEF DecideSeminarRemoval, IInv, CallInv, Placed, OfOneUnit, Removals, OrderInv
<1> HIDE DEF fields
<1>4. Framed(c) /\ call'[c] = fields /\ held'[c] = held[c]
  BY <1>1, <1>2, BecomeMoves DEF IInv
<1>5. Choreographed(c)' /\ Pooled(c)'
  BY <1>2, <1>3, <1>4 DEF Ordered, Choreographed, Pooled
<1>6. Rowed(c)'
  BY <1>2, <1>3, <1>4 DEF Ordered, Rowed, Removals, Gestures, RowsOf
<1> QED
  BY <1>2, <1>4, <1>5, <1>6, OrderFrame DEF Ordered

\* A row taken is the first of those pending.
LEMMA OrderLockRow ==
    ASSUME IInv, OrderInv, NEW c \in Calls, LockRow(c)
    PROVE  OrderInv'
<1> DEFINE S == First(Pending(c))
<1>1. Acquire(c, RowLocks(S)) /\ call' = call /\ call[c].at = "rows" /\ Ordered(c)
  BY DEF LockRow, OrderInv
<1>2. Framed(c) /\ call'[c] = call[c] /\ held'[c] = held[c] \cup RowLocks(S)
  BY <1>1 DEF IInv, CallsInv, ExclusiveInv, Acquire, NotHeldByOthers, Framed
<1>3. /\ call[c].rows \subseteq RowsOf(call[c].unit) /\ RowsOf(call[c].unit) \subseteq Inscriptions
      /\ Inscriptions \subseteq Nat
  BY <1>1, OrderAssumption DEF Ordered, Rowed, RowsOf
<1>4. \A i : <<"row", i>> \in held'[c] <=> <<"row", i>> \in held[c] \/ i \in S
  BY <1>2 DEF RowLocks
<1>5. \A i \in S : i \in call[c].rows /\ UnitOf[i] = call[c].unit
  BY <1>3 DEF First, Pending, RowsOf
<1>6. Pending(c)' = Pending(c) \ S
  BY <1>2, <1>4 DEF Pending
<1>7. ASSUME NEW i \in Inscriptions, <<"row", i>> \in held'[c]
      PROVE  i \in call[c].rows /\ \A j \in Pending(c)' : i < j
  <2>1. CASE <<"row", i>> \in held[c]
    BY <1>1, <1>6, <2>1 DEF Ordered, Rowed
  <2>2. CASE i \in S
    <3>1. \A j \in Pending(c) : i <= j /\ j \in Nat /\ i \in Nat
      BY <1>3, <2>2 DEF First, Pending
    <3>2. \A j \in Pending(c) : j \notin S => j # i
      BY <2>2
    <3> QED
      BY <1>5, <1>6, <2>2, <3>1, <3>2
  <2> QED
    BY <1>4, <1>7, <2>1, <2>2
<1>8. Rowed(c)'
  <2>1. \A i \in Inscriptions : <<"row", i>> \in held'[c] => UnitOf[i] = call[c].unit
    BY <1>1, <1>4, <1>5 DEF Ordered, Rowed
  <2>2. call[c].op \in Gestures \cup Charges \cup Removals
    BY <1>1 DEF Ordered, Rowed
  <2> QED
    BY <1>1, <1>2, <1>3, <1>7, <2>1, <2>2 DEF Ordered, Rowed, RowsOf
<1>9. Choreographed(c)' /\ Pooled(c)'
  <2>1. /\ \A u : <<"choreography", u>> \in held'[c] <=> <<"choreography", u>> \in held[c]
        /\ \A a : <<"pool", a>> \in held'[c] <=> <<"pool", a>> \in held[c]
        /\ \A a : <<"academy", a>> \in held'[c] <=> <<"academy", a>> \in held[c]
    BY <1>2 DEF RowLocks
  <2> QED
    BY <1>1, <1>2, <2>1 DEF Ordered, Choreographed, Pooled
<1> QED
  BY <1>1, <1>2, <1>8, <1>9, OrderFrame DEF Ordered

\* An anchor is a call's first lock.
LEMMA OrderLockAnchor ==
    ASSUME IInv, OrderInv, NEW c \in Calls, LockAnchor(c)
    PROVE  OrderInv'
<1> DEFINE place == IF call[c].op = "sync-roster" THEN "choreography" ELSE "reading"
           fields == [call[c] EXCEPT !.at = place]
           S == {<<"anchor", call[c].unit>>}
<1>1. /\ DOMAIN fields = DOMAIN NoCall /\ fields.at \in {"choreography", "reading"} /\ fields.op = call[c].op
      /\ fields.op \notin Gestures /\ Acquire(c, S) /\ Become(c, fields) /\ held[c] = {}
  <2>1. call[c].at = "anchor" /\ DOMAIN call[c] = DOMAIN NoCall /\ Placed(c) /\ Ordered(c)
    BY DEF LockAnchor, IInv, CallsInv, CallInv, OrderInv
  <2> QED
    BY <2>1 DEF LockAnchor, Go, NoCall, Placed, Gestures, Ordered
<1> HIDE DEF fields
<1>2. Framed(c) /\ call'[c] = fields /\ held'[c] = held[c] \cup S
  <2> HIDE DEF S
  <2> QED
    BY <1>1, AcquireMoves DEF IInv
<1>3. held'[c] = {<<"anchor", call[c].unit>>}
  BY <1>1, <1>2
<1>4. Ordered(c)'
  BY <1>1, <1>2, <1>3 DEF Ordered, Choreographed, Rowed, Pooled
<1> QED
  BY <1>2, <1>4, OrderFrame

\* A choreography comes before every row.
LEMMA OrderLockChoreography ==
    ASSUME IInv, OrderInv, NEW c \in Calls, LockChoreography(c)
    PROVE  OrderInv'
<1>1. CASE Refuse(c)
  BY <1>1, OrderRefused
<1>2. CASE ~Refuse(c)
  <2> DEFINE taken == IF call[c].op = "sync-roster" THEN call[c].rows \cap ActiveRows(call[c].unit)
                                                    ELSE ActiveRows(call[c].unit)
             fields == [call[c] EXCEPT !.at = "rows", !.rows = taken, !.scope = academyOf[call[c].unit]]
             S == {<<"choreography", call[c].unit>>}
  <2>1. Acquire(c, S) /\ Become(c, fields)
    BY <1>2 DEF LockChoreography
  <2>2. call[c].at = "choreography" /\ call[c].op \in OfChoreography /\ DOMAIN call[c] = DOMAIN NoCall /\ Ordered(c)
    BY DEF LockChoreography, IInv, CallsInv, CallInv, Placed, OrderInv
  <2>3. taken \subseteq RowsOf(call[c].unit)
    BY DEF ActiveRows, RowsOf
  <2> HIDE DEF taken, S
  <2>4. /\ DOMAIN fields = DOMAIN NoCall /\ fields.op = call[c].op /\ fields.unit = call[c].unit
        /\ fields.at = "rows" /\ fields.rows = taken
    BY <2>2 DEF NoCall
  <2> HIDE DEF fields
  <2>5. Framed(c) /\ call'[c] = fields /\ held'[c] = held[c] \cup S
    BY <2>1, <2>4, AcquireMoves DEF IInv
  <2>6. /\ \A u : <<"choreography", u>> \in held'[c] => <<"choreography", u>> \in held[c] \/ u = call[c].unit
        /\ \A i \in Inscriptions : <<"row", i>> \notin held'[c]
        /\ \A a : <<"pool", a>> \notin held'[c] /\ <<"academy", a>> \notin held'[c]
    <3>1. /\ \A i \in Inscriptions : <<"row", i>> \notin held[c]
          /\ \A a : <<"pool", a>> \notin held[c] /\ <<"academy", a>> \notin held[c]
      BY <2>2 DEF Ordered, Rowed, Pooled
    <3> QED
      BY <2>5, <3>1 DEF S
  <2>7. Choreographed(c)'
    BY <2>2, <2>4, <2>5, <2>6 DEF Ordered, Choreographed
  <2>8. Rowed(c)'
    BY <2>2, <2>3, <2>4, <2>5, <2>6 DEF Rowed, OfChoreography, Removals, Gestures, RowsOf
  <2>9. Pooled(c)'
    BY <2>4, <2>5, <2>6 DEF Pooled
  <2> QED
    BY <2>4, <2>5, <2>7, <2>8, <2>9, OrderFrame DEF Ordered
<1> QED
  BY <1>1, <1>2

\* A pool comes after every row: one pool, and the call writes.
LEMMA OrderFunds ==
    ASSUME IInv, OrderInv, NEW c \in Calls, NEW fields, LockPool(c), WithPool(c, fields),
           DOMAIN fields = DOMAIN NoCall, fields.op = call[c].op, fields.unit = call[c].unit,
           fields.cut = call[c].cut, fields.rows = call[c].rows, call[c].op # "merge"
    PROVE  OrderInv'
<1> DEFINE written == [fields EXCEPT !.at = "write"]
<1>1. Framed(c) /\ call'[c] = written /\ held'[c] = held[c] \cup NextPool(c)
  BY PoolMoves DEF IInv
<1>2. /\ written.op = call[c].op /\ written.unit = call[c].unit /\ written.cut = call[c].cut
      /\ written.rows = call[c].rows /\ written.at = "write"
  BY DEF NoCall
<1> HIDE DEF written
<1>3. call[c].at = "pool" /\ Ordered(c)
  BY DEF LockPool, OrderInv
<1>4. /\ \A u : <<"choreography", u>> \in held'[c] <=> <<"choreography", u>> \in held[c]
      /\ \A i : <<"row", i>> \in held'[c] <=> <<"row", i>> \in held[c]
      /\ \A a : <<"academy", a>> \in held'[c] <=> <<"academy", a>> \in held[c]
  BY <1>1 DEF NextPool
<1>5. Choreographed(c)'
  BY <1>1, <1>2, <1>3, <1>4 DEF Ordered, Choreographed
<1>6. Rowed(c)'
  BY <1>1, <1>2, <1>3, <1>4 DEF Ordered, Rowed
<1>7. Pooled(c)'
  BY <1>1, <1>2, <1>3, <1>4 DEF Ordered, Pooled
<1> QED
  BY <1>1, <1>2, <1>5, <1>6, <1>7, OrderFrame DEF Ordered

\* The steps that take the one pool they need, and write or give up.
LEMMA OrderPool ==
    ASSUME IInv, OrderInv, NEW c \in Calls,
           \/ FundFromPool(c) \/ ReleaseAboveDeposit(c) \/ LockRefundPool(c)
           \/ \E i \in Inscriptions : UnwindFromRow(c, i)
           \/ \E p \in Payments : LockPaymentPool(c, p)
    PROVE  OrderInv'
<1>1. CASE Refuse(c)
  BY <1>1, OrderRefused
<1>2. CASE ~Refuse(c)
  <2>0. CallsInv /\ DOMAIN call[c] = DOMAIN NoCall
    BY DEF IInv, CallsInv
  <2>1. ASSUME NEW moves, LockPool(c), WithPool(c, [call[c] EXCEPT !.moves = moves]), call[c].op # "merge"
        PROVE  OrderInv'
    <3> DEFINE fields == [call[c] EXCEPT !.moves = moves]
    <3>1. /\ DOMAIN fields = DOMAIN NoCall /\ fields.op = call[c].op /\ fields.unit = call[c].unit
          /\ fields.cut = call[c].cut /\ fields.rows = call[c].rows /\ WithPool(c, fields)
      BY <2>0, <2>1 DEF NoCall
    <3> HIDE DEF fields
    <3> QED
      BY <2>1, <3>1, OrderFunds
  <2>2. CASE FundFromPool(c)
    BY <1>2, <2>1, <2>2 DEF FundFromPool, Charges
  <2>3. CASE ReleaseAboveDeposit(c)
    BY <2>1, <2>3 DEF ReleaseAboveDeposit
  <2>4. CASE \E i \in Inscriptions : UnwindFromRow(c, i)
    BY <1>2, <2>1, <2>4 DEF UnwindFromRow, Gestures
  <2>5. CASE LockRefundPool(c)
    BY <1>2, <2>0, <2>5, OrderFunds DEF LockRefundPool, RefundChanges
  <2>6. CASE \E p \in Payments : LockPaymentPool(c, p)
    BY <1>2, <2>0, <2>6, OrderFunds DEF LockPaymentPool
  <2> QED
    BY <2>2, <2>3, <2>4, <2>5, <2>6
<1> QED
  BY <1>1, <1>2

\* A merge takes its two pools by key, and goes on to the academies.
LEMMA OrderLockMergePool ==
    ASSUME IInv, OrderInv, NEW c \in Calls, LockMergePool(c)
    PROVE  OrderInv'
<1> DEFINE N == {a \in PoolsOf(c) : <<"pool", a>> \notin held[c]}
           S == {"pool"} \X First(N)
<1>1. PICK place \in {"pool", "academies"} : Become(c, [call[c] EXCEPT !.at = place]) /\ Acquire(c, S)
  BY DEF LockMergePool, LockPool, Go, NextPool
<1> DEFINE fields == [call[c] EXCEPT !.at = place]
<1>2. /\ call[c].op = "merge" /\ call[c].at = "pool" /\ Ordered(c) /\ PoolsOf(c) \subseteq Nat
      /\ DOMAIN call[c] = DOMAIN NoCall
  BY OrderAssumption DEF LockMergePool, LockPool, OrderInv, IInv, CallInv, OfOneOwner, CallsInv, PoolsOf
<1>3. /\ DOMAIN fields = DOMAIN NoCall /\ fields.at = place /\ fields.op = "merge" /\ fields.cut = call[c].cut
      /\ fields.scope = call[c].scope /\ fields.into = call[c].into /\ Become(c, fields)
  BY <1>1, <1>2 DEF NoCall
<1> HIDE DEF fields, S
<1>4. Framed(c) /\ call'[c] = fields /\ held'[c] = held[c] \cup S
  BY <1>1, <1>3, AcquireMoves DEF IInv
<1>5. PoolsOf(c)' = PoolsOf(c)
  BY <1>2, <1>3, <1>4 DEF PoolsOf
<1>6. /\ \A u : <<"choreography", u>> \notin held'[c]
      /\ \A i \in Inscriptions : <<"row", i>> \notin held'[c]
      /\ \A a : <<"academy", a>> \notin held'[c]
  <2>1. /\ \A u : <<"choreography", u>> \notin held[c]
        /\ \A i \in Inscriptions : <<"row", i>> \notin held[c]
        /\ \A a : <<"academy", a>> \notin held[c]
    BY <1>2 DEF Ordered, Choreographed, Rowed, Pooled, OfChoreography, Gestures, Charges, Removals
  <2> QED
    BY <1>4, <2>1 DEF S
<1>7. \A a : <<"pool", a>> \in held'[c] <=> <<"pool", a>> \in held[c] \/ a \in First(N)
  BY <1>4 DEF S
<1>8. ASSUME NEW a, <<"pool", a>> \in held'[c]
      PROVE  a \in PoolsOf(c) /\ \A b \in PoolsOf(c) : <<"pool", b>> \in held'[c] \/ a < b
  <2>1. CASE <<"pool", a>> \in held[c]
    BY <1>2, <1>7, <2>1 DEF Ordered, Pooled
  <2>2. CASE a \in First(N)
    <3>1. a \in PoolsOf(c) /\ \A b \in N : a <= b /\ (b = a => b \in First(N))
      BY <2>2 DEF First
    <3>2. \A b \in PoolsOf(c) : b \in N \/ <<"pool", b>> \in held[c]
      OBVIOUS
    <3> HIDE DEF N
    <3>3. ASSUME NEW b \in PoolsOf(c), <<"pool", b>> \notin held'[c]
          PROVE  a < b
      <4>1. b \in N /\ b \notin First(N)
        BY <1>7, <3>2, <3>3
      <4>2. a <= b /\ b # a /\ a \in Nat /\ b \in Nat
        BY <1>2, <3>1, <4>1
      <4> QED
        BY <4>2
    <3> QED
      BY <3>1, <3>3
  <2> QED
    BY <1>7, <1>8, <2>1, <2>2
<1>9. Pooled(c)'
  BY <1>3, <1>4, <1>5, <1>6, <1>8 DEF Pooled
<1>10. Choreographed(c)' /\ Rowed(c)'
  BY <1>3, <1>4, <1>6 DEF Choreographed, Rowed, Gestures
<1> QED
  BY <1>3, <1>4, <1>9, <1>10, OrderFrame DEF Ordered

\* The academies come after the pools.
LEMMA OrderLockAcademies ==
    ASSUME IInv, OrderInv, NEW c \in Calls, LockAcademies(c)
    PROVE  OrderInv'
<1>1. CASE Refuse(c)
  BY <1>1, OrderRefused
<1>2. CASE ~Refuse(c)
  <2> DEFINE fields == [call[c] EXCEPT !.at = "write"]
             S == {"academy"} \X PoolsOf(c)
  <2>1. Acquire(c, S) /\ Become(c, fields)
    BY <1>2 DEF LockAcademies, Go
  <2>2. call[c].at = "academies" /\ call[c].op = "merge" /\ Ordered(c) /\ DOMAIN call[c] = DOMAIN NoCall
    BY DEF LockAcademies, OrderInv, IInv, CallInv, CallsInv, Placed
  <2>3. DOMAIN fields = DOMAIN NoCall /\ fields.at = "write" /\ fields.op = "merge"
    BY <2>2 DEF NoCall
  <2> HIDE DEF fields, S
  <2>4. Framed(c) /\ call'[c] = fields /\ held'[c] = held[c] \cup S
    BY <2>1, <2>3, AcquireMoves DEF IInv
  <2>5. /\ \A u : <<"choreography", u>> \notin held'[c]
        /\ \A i \in Inscriptions : <<"row", i>> \notin held'[c]
    <3>1. /\ \A u : <<"choreography", u>> \notin held[c]
          /\ \A i \in Inscriptions : <<"row", i>> \notin held[c]
      BY <2>2 DEF Ordered, Choreographed, Rowed, OfChoreography, Gestures, Charges, Removals
    <3> QED
      BY <2>4, <3>1 DEF S
  <2>6. Ordered(c)'
    BY <2>3, <2>4, <2>5 DEF Ordered, Choreographed, Rowed, Pooled, Gestures
  <2> QED
    BY <2>4, <2>6, OrderFrame
<1> QED
  BY <1>1, <1>2

\* An emission has its anchor alone.
LEMMA OrderReserveLines ==
    ASSUME IInv, OrderInv, NEW c \in Calls, ReserveLines(c)
    PROVE  OrderInv'
<1>1. CASE Refuse(c)
  BY <1>1, OrderRefused
<1>2. CASE ~Refuse(c)
  <2> DEFINE fields == [call[c] EXCEPT !.at = "settle"]
  <2>1. Become(c, fields) /\ held' = held
    BY <1>2 DEF ReserveLines, Go
  <2>2. call[c].at = "reserve" /\ call[c].op = "emit" /\ Ordered(c) /\ DOMAIN call[c] = DOMAIN NoCall
    BY DEF ReserveLines, OrderInv, IInv, CallInv, CallsInv, Placed
  <2>3. DOMAIN fields = DOMAIN NoCall /\ fields.at = "settle" /\ fields.op = "emit"
    BY <2>2 DEF NoCall
  <2> HIDE DEF fields
  <2>4. Framed(c) /\ call'[c] = fields /\ held'[c] = held[c]
    BY <2>1, <2>3, BecomeMoves DEF IInv
  <2>5. Ordered(c)'
    BY <2>2, <2>3, <2>4 DEF Ordered, Choreographed, Rowed, Pooled, Gestures
  <2> QED
    BY <2>4, <2>5, OrderFrame
<1> QED
  BY <1>1, <1>2

\* Every step of a call keeps the order.
LEMMA OrderStep ==
    ASSUME IInv, OrderInv, NEW c \in Calls, Step(c)
    PROVE  OrderInv'
<1>1. CASE \/ MoveMoney(c) \/ CommitRemoval(c) \/ SettleEmission(c) \/ WriteRefund(c) \/ CommitMerge(c)
           \/ \E p \in Payments : UpdatePayment(c, p) \/ DeletePayment(c, p)
  BY <1>1, OrderEnds, OrderRefused DEF MoveMoney, CommitRemoval, SettleEmission, WriteRefund, CommitMerge,
     UpdatePayment, DeletePayment
<1>2. CASE DeadlockVictim(c)
  BY <1>2, OrderRefused DEF DeadlockVictim
<1> QED
  BY <1>1, <1>2, OrderReadGesture, OrderReadDepositRelease, OrderReadCharge, OrderDecide, OrderWriteSeminarRow,
     OrderDecideSeminarRemoval, OrderLockRow, OrderLockAnchor, OrderLockChoreography, OrderPool,
     OrderLockMergePool, OrderLockAcademies, OrderReserveLines DEF Step

\* Nothing done outside the calls touches a lock.
LEMMA OrderElsewhere ==
    ASSUME OrderInv, Elsewhere \/ UNCHANGED vars
    PROVE  OrderInv'
<1>1. UNCHANGED <<held, call>>
  BY DEF Elsewhere, Quiet, RegisterPayment, Waive, Unwaive, TotalMoves, SettleReservation, vars
<1>2. ASSUME NEW d \in Calls
      PROVE  Ordered(d)'
  <2>1. call'[d] = call[d] /\ held'[d] = held[d] /\ Ordered(d)
    BY <1>1 DEF OrderInv
  <2>2. Pending(d)' = Pending(d) /\ PoolsOf(d)' = PoolsOf(d) /\ \A u : RowsOf(u)' = RowsOf(u)
    BY <1>1 DEF Pending, PoolsOf, RowsOf
  <2>3. Choreographed(d)'
    BY <2>1 DEF Ordered, Choreographed
  <2>4. Rowed(d)'
    BY <2>1, <2>2 DEF Ordered, Rowed
  <2>5. Pooled(d)'
    BY <2>1, <2>2 DEF Ordered, Pooled
  <2> QED
    BY <2>1, <2>3, <2>4, <2>5 DEF Ordered
<1> QED
  BY <1>2 DEF OrderInv

\* Every call takes its locks in the one order, whatever the others do: an anchor,
\* a choreography, rows by id, pools by key, academies (allocation-pool.server.ts,
\* The pool lock).
THEOREM OrderInductive == Spec => []OrderInv
<1>1. Init => OrderInv
  BY DEF Init, OrderInv, Ordered, Choreographed, Rowed, Pooled, NoCall, Gestures
<1>2. IInv /\ OrderInv /\ [Next]_vars => OrderInv'
  BY OrderStart, OrderStep, OrderElsewhere DEF Next
<1> QED
  BY <1>1, <1>2, Inductive, PTL DEF Spec

-----------------------------------------------------------------------------
\* WHO WAITS FOR WHOM

\* How far a call is in the order of the locks, and, among the rows and the pools,
\* the number of the one it wants.
Level(c) ==
    CASE call[c].at = "anchor" -> 1
      [] call[c].at \in {"choreography", "reserve"} -> 2
      [] call[c].at = "rows" -> 3
      [] call[c].at = "write" /\ call[c].op = "remove-choreography" -> 4
      [] call[c].at = "pool" -> 5
      [] call[c].at = "academies" \/ (call[c].at = "write" /\ call[c].op = "edit-payment") -> 6
      [] OTHER -> 7
Numbered(c, n) == \/ call[c].at = "rows" /\ n \in First(Pending(c))
                  \/ call[c].at = "pool" /\ <<"pool", n>> \in NextPool(c)
Key(c) == IF \E n \in Nat : Numbered(c, n) THEN CHOOSE n \in Nat : Numbered(c, n) ELSE 0
Above(y, x) == Level(x) < Level(y) \/ (Level(x) = Level(y) /\ Key(x) < Key(y))
Waiting(c) == \E d \in Calls : WaitsFor(c, d)

\* It wants one.
LEMMA KeyIs ==
    ASSUME NEW c, NEW n \in Nat, Numbered(c, n)
    PROVE  Key(c) = n
<1>1. PICK m \in Nat : Numbered(c, m) /\ Key(c) = m
  BY DEF Key
<1>2. m <= n /\ n <= m
  BY <1>1 DEF Numbered, First, NextPool
<1> QED
  BY <1>1, <1>2

\* Above is an order.
LEMMA LevelNat ==
    ASSUME NEW c
    PROVE  Level(c) \in Nat /\ Key(c) \in Nat
<1>1. Level(c) \in Nat
  BY DEF Level
<1>2. Key(c) \in Nat
  BY DEF Key
<1> QED
  BY <1>1, <1>2

LEMMA AboveOrders ==
    /\ \A x : ~Above(x, x)
    /\ \A x, y, z : Above(y, x) /\ Above(z, y) => Above(z, x)
BY LevelNat DEF Above

\* A call at its rows waits for one farther on, or at a later row.
LEMMA RowWaitsUp ==
    ASSUME IInv, OrderInv, NEW x \in Calls, NEW y \in Calls, WaitsFor(x, y), Waiting(y), call[x].at = "rows"
    PROVE  Above(y, x)
<1>1. PICK i \in First(Pending(x)) : <<"row", i>> \in held[y]
  BY DEF WaitsFor, Wants, RowLocks
<1>2. i \in Inscriptions /\ i \in Nat /\ Numbered(x, i)
  <2>1. i \in call[x].rows
    BY <1>1 DEF First, Pending
  <2>2. call[x].rows \subseteq Inscriptions
    BY DEF OrderInv, Ordered, Rowed, RowsOf
  <2> QED
    BY <1>1, <2>1, <2>2, OrderAssumption DEF Numbered
<1>3. call[y].at \in {"rows", "pool", "write"} /\ Rowed(y)
  BY <1>1, <1>2 DEF OrderInv, Ordered, Rowed
<1>4. Level(x) = 3
  BY DEF Level
<1>5. CASE call[y].at = "rows"
  <2>1. PICK j \in First(Pending(y)) : TRUE
    BY <1>5 DEF Waiting, WaitsFor, Wants, RowLocks
  <2>2. j \in Pending(y)
    BY <2>1 DEF First
  <2>3. j \in Nat /\ i < j
    BY <1>2, <1>1, <1>3, <1>5, <2>2, OrderAssumption DEF Rowed, Pending, RowsOf
  <2>4. Numbered(y, j)
    BY <1>5, <2>1 DEF Numbered
  <2>5. Key(x) = i /\ Key(y) = j
    BY <1>2, <2>3, <2>4, KeyIs
  <2>6. Level(y) = 3
    BY <1>5 DEF Level
  <2> QED
    BY <1>4, <2>3, <2>5, <2>6 DEF Above
<1>6. CASE call[y].at \in {"pool", "write"}
  <2>1. Level(y) \in 4 .. 7
    BY <1>6 DEF Level
  <2> QED
    BY <1>4, <2>1 DEF Above
<1> QED
  BY <1>3, <1>5, <1>6

\* A call at its pools waits for one farther on, or at a later pool.
LEMMA PoolWaitsUp ==
    ASSUME IInv, OrderInv, TypeOK, NEW x \in Calls, NEW y \in Calls, WaitsFor(x, y), Waiting(y),
           call[x].at = "pool"
    PROVE  Above(y, x)
<1>0. PICK lock \in NextPool(x) : lock \in held[y]
  BY DEF WaitsFor, Wants
<1>1. PICK a : <<"pool", a>> \in NextPool(x) /\ <<"pool", a>> \in held[y]
  <2>1. \E a : lock = <<"pool", a>>
    BY <1>0 DEF NextPool
  <2> QED
    BY <1>0, <2>1
<1>2. a \in Nat /\ Numbered(x, a)
  <2>1. <<"pool", a>> \in Locks
    BY <1>1 DEF TypeOK
  <2>2. a \in Academies
    BY <2>1 DEF Locks
  <2> QED
    BY <1>1, <2>2, OrderAssumption DEF Numbered
<1>3. Pooled(y) /\ call[y].at \in {"pool", "academies", "write"}
  BY <1>1 DEF OrderInv, Ordered, Pooled
<1>4. Level(x) = 5
  BY DEF Level
<1>5. CASE call[y].at = "pool"
  <2>1. PICK b : <<"pool", b>> \in NextPool(y)
    BY <1>5 DEF Waiting, WaitsFor, Wants, NextPool
  <2>2. b \in PoolsOf(y) /\ <<"pool", b>> \notin held[y]
    BY <2>1 DEF NextPool, First
  <2>3. call[y].op = "merge" /\ a < b
    BY <1>1, <1>3, <1>5, <2>2 DEF Pooled
  <2>4. b \in Nat
    BY <2>2, <2>3, OrderAssumption DEF PoolsOf, IInv, CallInv, OfOneOwner
  <2>5. Numbered(y, b)
    BY <1>5, <2>1 DEF Numbered
  <2>6. Key(x) = a /\ Key(y) = b
    BY <1>2, <2>4, <2>5, KeyIs
  <2>7. Level(y) = 5
    BY <1>5 DEF Level
  <2> QED
    BY <1>4, <2>3, <2>6, <2>7 DEF Above
<1>6. CASE call[y].at \in {"academies", "write"}
  <2>1. call[y].at = "write" => call[y].op # "remove-choreography"
    <3>1. ASSUME call[y].at = "write", call[y].op = "remove-choreography"
          PROVE  FALSE
      <4>1. call[y].cut = {}
        BY <1>1, <1>3, <3>1 DEF Pooled
      <4>2. Wants(y) = {}
        BY <3>1, <4>1 DEF Wants, WriteNeeds, RowLocks
      <4> QED
        BY <4>2 DEF Waiting, WaitsFor
    <3> QED
      BY <3>1
  <2>2. Level(y) \in 6 .. 7
    BY <1>6, <2>1 DEF Level
  <2> QED
    BY <1>4, <2>2 DEF Above
<1> QED
  BY <1>3, <1>5, <1>6

\* The deletion of a choreography waits for one farther on, or for a charge of it
\* that has still rows to lock.
LEMMA DeletionWaitsUp ==
    ASSUME IInv, OrderInv, NEW x \in Calls, NEW y \in Calls, WaitsFor(x, y), Waiting(y),
           call[x].at = "write", call[x].op = "remove-choreography"
    PROVE  DeletionWaits(x, y) \/ Above(y, x)
<1>1. PICK i \in call[x].cut : <<"row", i>> \in held[y]
  BY DEF WaitsFor, Wants, WriteNeeds, RowLocks
<1>2. /\ i \in Inscriptions /\ UnitOf[i] = call[x].unit /\ call[x].unit \in Choreographies
      /\ <<"choreography", call[x].unit>> \in held[x]
  BY <1>1 DEF IInv, CallInv, OfOneUnit, Locked, OnChoreography, OfChoreography, Removals, RowsOf
<1>3. /\ Rowed(y) /\ call[y].unit = call[x].unit /\ call[y].at \in {"rows", "pool", "write"}
      /\ call[y].op \in Gestures \cup Charges \cup Removals
  BY <1>1, <1>2 DEF OrderInv, Ordered, Rowed
<1>4. call[y].op \notin Removals
  <2>1. call[y].op \notin OfChoreography
    <3>1. <<"choreography", call[x].unit>> \notin held[y]
      BY <1>2 DEF IInv, ExclusiveInv, WaitsFor
    <3>2. Locked(y)
      BY DEF IInv, CallInv
    <3> QED
      BY <1>3, <3>1, <3>2 DEF Locked, OnChoreography
  <2>2. call[y].op # "remove-seminar-row"
    BY <1>2, <1>3 DEF IInv, CallInv, OfOneUnit, Removals
  <2> QED
    BY <2>1, <2>2 DEF OfChoreography, Removals
<1>5. Level(x) = 4
  BY DEF Level
<1>6. CASE call[y].at \in {"pool", "write"}
  <2>1. Level(y) \in 5 .. 7
    BY <1>4, <1>6 DEF Level, Removals
  <2> QED
    BY <1>5, <2>1 DEF Above
<1>7. CASE call[y].at = "rows"
  <2>1. PICK j : j \in Pending(y)
    BY <1>7 DEF Waiting, WaitsFor, Wants, RowLocks, First
  <2>2. i \in call[y].rows /\ j \in call[y].rows /\ i # j
    BY <1>1, <1>2, <1>3, <1>7, <2>1 DEF Rowed, Pending
  <2>3. call[y].op \notin Gestures
    BY <1>3, <2>2 DEF Rowed
  <2> QED
    BY <1>3, <1>4, <2>3 DEF DeletionWaits
<1> QED
  BY <1>3, <1>6, <1>7

\* Every wait of a call for one that itself waits goes up the order of the locks,
\* but those of a merge for a removal and of a deletion for a charge.
LEMMA WaitsUp ==
    ASSUME IInv, OrderInv, TypeOK, NEW x \in Calls, NEW y \in Calls, WaitsFor(x, y), Waiting(y)
    PROVE  MergeWaits(x, y) \/ DeletionWaits(x, y) \/ Above(y, x)
<1>1. /\ Placed(x) /\ Ordered(y)
      /\ \A u : <<"choreography", u>> \in held[y] =>
            u = call[y].unit /\ call[y].op \in OfChoreography /\ call[y].at \in {"rows", "pool", "write"}
      /\ \A a : <<"academy", a>> \in held[y] => call[y].op = "merge" /\ call[y].at = "write"
  BY DEF IInv, CallInv, OrderInv, Ordered, Choreographed, Pooled
<1>2. CASE call[x].at = "anchor"
  <2>1. call[y].at # "anchor"
    BY <1>1 DEF Ordered, WaitsFor
  <2>2. Level(x) = 1 /\ Level(y) \in 2 .. 7
    BY <1>2, <2>1 DEF Level
  <2> QED
    BY <2>2 DEF Above
<1>3. CASE call[x].at \in {"choreography", "reserve"}
  <2>1. (\E u : <<"choreography", u>> \in held[y]) \/ (\E a : <<"academy", a>> \in held[y])
    <3>1. PICK lock \in Wants(x) : lock \in held[y]
      BY DEF WaitsFor
    <3>2. (\E u : lock = <<"choreography", u>>) \/ (\E a : lock = <<"academy", a>>)
      BY <1>1, <1>3, <3>1 DEF Placed, Wants, WriteNeeds
    <3> QED
      BY <3>1, <3>2
  <2>2. call[y].at \in {"rows", "pool", "write"}
    BY <1>1, <2>1
  <2>3. Level(x) = 2 /\ Level(y) \in 3 .. 7
    BY <1>3, <2>2 DEF Level
  <2> QED
    BY <2>3 DEF Above
<1>4. CASE call[x].at = "academies" \/ (call[x].at = "write" /\ call[x].op = "edit-payment")
  <2>1. \E a : <<"academy", a>> \in held[y]
    <3>1. PICK lock \in Wants(x) : lock \in held[y]
      BY DEF WaitsFor
    <3>2. \E a : lock = <<"academy", a>>
      BY <1>4, <3>1 DEF Wants, WriteNeeds
    <3> QED
      BY <3>1, <3>2
  <2>2. Level(x) = 6 /\ Level(y) = 7
    BY <1>1, <1>4, <2>1 DEF Level
  <2> QED
    BY <2>2 DEF Above
<1>5. CASE call[x].at = "write" /\ call[x].op = "merge"
  <2>1. PICK u \in Choreographies : academyOf[u] = call[x].scope /\ <<"choreography", u>> \in held[y]
    BY <1>5 DEF WaitsFor, Wants, WriteNeeds
  <2> QED
    BY <1>1, <1>5, <2>1 DEF MergeWaits, OfChoreography
<1>6. CASE call[x].at = "write" /\ call[x].op \notin {"edit-payment", "merge", "remove-choreography"}
  <2>1. Wants(x) = {}
    BY <1>1, <1>6 DEF Placed, Wants, WriteNeeds
  <2> QED
    BY <2>1 DEF WaitsFor
<1>7. CASE call[x].at \notin {"anchor", "choreography", "reserve", "rows", "pool", "academies", "write"}
  <2>1. Wants(x) = {}
    BY <1>7 DEF Wants
  <2> QED
    BY <2>1 DEF WaitsFor
<1> QED
  BY <1>2, <1>3, <1>4, <1>5, <1>6, <1>7, RowWaitsUp, PoolWaitsUp, DeletionWaitsUp

\* What a call reaches: those it waits for, those they reach; none if it waits for
\* nobody.
LEMMA ReachesOn ==
    ASSUME NEW c \in Calls
    PROVE  /\ \A d \in Calls : WaitsFor(c, d) => Reaches(c, d)
           /\ \A d \in Calls : \A e : Reaches(c, d) /\ Reaches(d, e) => Reaches(c, e)
           /\ \A d : Reaches(c, d) => Waiting(c)
<1>1. ASSUME NEW d \in Calls, WaitsFor(c, d)
      PROVE  Reaches(c, d)
  BY <1>1 DEF Reaches, ClosedFrom
<1>2. ASSUME NEW d \in Calls, NEW e, Reaches(c, d), Reaches(d, e)
      PROVE  Reaches(c, e)
  <2>1. ASSUME NEW S \in SUBSET Calls, ClosedFrom(c, S)
        PROVE  e \in S
    <3>1. d \in S
      BY <1>2, <2>1 DEF Reaches
    <3>2. ClosedFrom(d, S)
      BY <2>1, <3>1 DEF ClosedFrom
    <3> QED
      BY <1>2, <3>2 DEF Reaches
  <2> QED
    BY <2>1 DEF Reaches
<1>3. ASSUME NEW d, Reaches(c, d)
      PROVE  Waiting(c)
  <2>1. ~ClosedFrom(c, {})
    BY <1>3 DEF Reaches
  <2> QED
    BY <2>1 DEF ClosedFrom, Waiting
<1> QED
  BY <1>1, <1>2, <1>3

\* Calls in a cycle cannot all wait upwards: above one of them there would be
\* every other, and itself.
LEMMA CycleIsKnown ==
    ASSUME IInv, OrderInv, TypeOK, NEW c \in Calls, InCycle(c)
    PROVE  \E x, y \in Calls : /\ OnOneCycle(c, x) /\ OnOneCycle(c, y) /\ WaitsFor(x, y)
                               /\ MergeWaits(x, y) \/ DeletionWaits(x, y)
<1> SUFFICES ASSUME ~\E x, y \in Calls : /\ OnOneCycle(c, x) /\ OnOneCycle(c, y) /\ WaitsFor(x, y)
                                         /\ MergeWaits(x, y) \/ DeletionWaits(x, y)
             PROVE  FALSE
  OBVIOUS
<1> DEFINE S == {y \in Calls : Reaches(c, y) /\ (Reaches(y, c) => Above(y, c))}
<1>1. ASSUME NEW x \in S \cup {c}, NEW y \in Calls, WaitsFor(x, y)
      PROVE  y \in S
  <2>1. x \in Calls /\ Reaches(c, x) /\ Reaches(x, y)
    BY <1>1, ReachesOn DEF InCycle, OnOneCycle
  <2>2. Reaches(c, y)
    BY <2>1, ReachesOn
  <2>3. ASSUME Reaches(y, c)
        PROVE  Above(y, c)
    <3>1. Reaches(x, c)
      BY <2>1, <2>3, ReachesOn
    <3>2. Waiting(y)
      BY <2>3, ReachesOn
    <3>3. OnOneCycle(c, x) /\ OnOneCycle(c, y)
      BY <2>1, <2>2, <2>3, <3>1 DEF OnOneCycle
    <3>4. ~MergeWaits(x, y) /\ ~DeletionWaits(x, y)
      BY <1>1, <2>1, <3>3
    <3>5. Above(y, x)
      BY <1>1, <2>1, <3>2, <3>4, WaitsUp
    <3>6. x = c \/ Above(x, c)
      BY <1>1, <3>1
    <3> QED
      BY <3>5, <3>6, AboveOrders
  <2> QED
    BY <2>2, <2>3
<1>2. ClosedFrom(c, S) /\ S \in SUBSET Calls
  <2> HIDE DEF S
  <2>1. S \subseteq Calls
    BY DEF S
  <2> QED
    BY <1>1, <2>1 DEF ClosedFrom
<1>3. Reaches(c, c)
  BY DEF InCycle, OnOneCycle
<1>4. c \in S
  <2> HIDE DEF S
  <2> QED
    BY <1>2, <1>3 DEF Reaches
<1>5. Above(c, c)
  BY <1>3, <1>4
<1> QED
  BY <1>5, AboveOrders

\* Every deadlock is one of two: a merge of academies against a removal in the
\* academy it takes, or the deletion of a choreography against a charge of it
\* (allocation-pool.server.ts, The pool lock, names the first alone).
THEOREM CyclesAreKnown == Spec => []OnlyKnownCycles
<1>1. IInv /\ OrderInv /\ TypeOK => OnlyKnownCycles
  BY CycleIsKnown DEF OnlyKnownCycles
<1> QED
  BY <1>1, Inductive, OrderInductive, TypeCorrect, PTL

-----------------------------------------------------------------------------
\* SUMS

\* What Sum counts: each of a function's values as so many elements.
Coins(f) == UNION {{x} \X (1 .. f[x]) : x \in DOMAIN f}

\* A finite sum of naturals is the number of its coins.
LEMMA CoinsAre ==
    ASSUME NEW S, IsFiniteSet(S), NEW f \in [S -> Nat]
    PROVE  /\ Sum(f) = Cardinality(Coins(f)) /\ Sum(f) \in Nat /\ IsFiniteSet(Coins(f))
           /\ \A x, k : <<x, k>> \in Coins(f) <=> x \in S /\ k \in 1 .. f[x]
           /\ \A e \in Coins(f) : e = <<e[1], e[2]>> /\ e[1] \in S /\ e[2] \in 1 .. f[e[1]]
<1>1. Sum(f) = Cardinality(Coins(f))
  BY DEF Sum, Coins
<1>2. \A x, k : <<x, k>> \in Coins(f) <=> x \in S /\ k \in 1 .. f[x]
  BY DEF Coins
<1>3. \A e \in Coins(f) : e = <<e[1], e[2]>> /\ e[1] \in S /\ e[2] \in 1 .. f[e[1]]
  BY DEF Coins
<1>4. IsFiniteSet(Coins(f))
  <2> DEFINE parts == {{x} \X (1 .. f[x]) : x \in S}
             part == [x \in S |-> {x} \X (1 .. f[x])]
  <2>1. part \in Surjection(S, parts)
    BY DEF Surjection
  <2>2. IsFiniteSet(parts)
    BY <2>1, FS_Surjection
  <2>3. ASSUME NEW x \in S
        PROVE  IsFiniteSet({x} \X (1 .. f[x]))
    <3>1. f[x] \in Int /\ 1 \in Int
      OBVIOUS
    <3>2. IsFiniteSet(1 .. f[x]) /\ IsFiniteSet({x})
      BY <3>1, FS_Interval, FS_Singleton
    <3> QED
      BY <3>2, FS_Product
  <2>4. Coins(f) = UNION parts /\ \A T \in parts : IsFiniteSet(T)
    BY <2>3 DEF Coins
  <2> HIDE DEF parts
  <2> QED
    BY <2>2, <2>4, FS_UNION
<1> QED
  BY <1>1, <1>2, <1>3, <1>4, FS_CardinalityType

\* A sum grows with its terms.
LEMMA SumMono ==
    ASSUME NEW S, IsFiniteSet(S), NEW f \in [S -> Nat], NEW g \in [S -> Nat], \A x \in S : f[x] <= g[x]
    PROVE  Sum(f) <= Sum(g)
<1>1. /\ Sum(f) = Cardinality(Coins(f)) /\ Sum(g) = Cardinality(Coins(g)) /\ IsFiniteSet(Coins(g))
      /\ \A e \in Coins(f) : e = <<e[1], e[2]>> /\ e[1] \in S /\ e[2] \in 1 .. f[e[1]]
      /\ \A x, k : <<x, k>> \in Coins(g) <=> x \in S /\ k \in 1 .. g[x]
  BY CoinsAre
<1>2. ASSUME NEW e \in Coins(f)
      PROVE  e \in Coins(g)
  <2>1. e = <<e[1], e[2]>> /\ e[1] \in S /\ e[2] \in 1 .. f[e[1]]
    BY <1>1
  <2>2. f[e[1]] \in Nat /\ g[e[1]] \in Nat /\ f[e[1]] <= g[e[1]]
    BY <2>1
  <2>3. e[2] \in 1 .. g[e[1]]
    BY <2>1, <2>2
  <2> QED
    BY <1>1, <2>1, <2>3
<1>3. Coins(f) \subseteq Coins(g)
  BY <1>2
<1> QED
  BY <1>1, <1>3, FS_Subset

\* A sum is additive in its terms.
LEMMA SumPlus ==
    ASSUME NEW S, IsFiniteSet(S), NEW f \in [S -> Nat], NEW g \in [S -> Nat], NEW h \in [S -> Nat],
           \A x \in S : h[x] = f[x] + g[x]
    PROVE  Sum(h) = Sum(f) + Sum(g)
<1> DEFINE more == Coins(h) \ Coins(f)
           less == [e \in more |-> <<e[1], e[2] - f[e[1]]>>]
<1>1. /\ Sum(f) = Cardinality(Coins(f)) /\ IsFiniteSet(Coins(f)) /\ Sum(f) \in Nat
      /\ \A x, k : <<x, k>> \in Coins(f) <=> x \in S /\ k \in 1 .. f[x]
      /\ \A e \in Coins(f) : e = <<e[1], e[2]>> /\ e[1] \in S /\ e[2] \in 1 .. f[e[1]]
  BY CoinsAre
<1>2. /\ Sum(g) = Cardinality(Coins(g)) /\ IsFiniteSet(Coins(g)) /\ Sum(g) \in Nat
      /\ \A x, k : <<x, k>> \in Coins(g) <=> x \in S /\ k \in 1 .. g[x]
      /\ \A e \in Coins(g) : e = <<e[1], e[2]>> /\ e[1] \in S /\ e[2] \in 1 .. g[e[1]]
  BY CoinsAre
<1>3. /\ Sum(h) = Cardinality(Coins(h)) /\ IsFiniteSet(Coins(h)) /\ Sum(h) \in Nat
      /\ \A x, k : <<x, k>> \in Coins(h) <=> x \in S /\ k \in 1 .. h[x]
      /\ \A e \in Coins(h) : e = <<e[1], e[2]>> /\ e[1] \in S /\ e[2] \in 1 .. h[e[1]]
  BY CoinsAre
<1>4. \A x \in S : f[x] \in Nat /\ g[x] \in Nat /\ h[x] \in Nat /\ h[x] = f[x] + g[x]
  OBVIOUS
<1>5. ASSUME NEW e \in more
      PROVE  /\ e = <<e[1], e[2]>> /\ e[1] \in S /\ e[2] \in Int
             /\ e[2] - f[e[1]] \in 1 .. g[e[1]]
  <2>1. e = <<e[1], e[2]>> /\ e[1] \in S /\ e[2] \in 1 .. h[e[1]]
    BY <1>3
  <2>2. e[2] \notin 1 .. f[e[1]]
    BY <1>1, <2>1
  <2> QED
    BY <1>4, <2>1, <2>2
<1>6. ASSUME NEW e \in Coins(g)
      PROVE  <<e[1], e[2] + f[e[1]]>> \in more /\ less[<<e[1], e[2] + f[e[1]]>>] = e
  <2>1. e = <<e[1], e[2]>> /\ e[1] \in S /\ e[2] \in 1 .. g[e[1]]
    BY <1>2
  <2>2. e[2] + f[e[1]] \in 1 .. h[e[1]] /\ e[2] + f[e[1]] \notin 1 .. f[e[1]]
        /\ e[2] + f[e[1]] - f[e[1]] = e[2]
    BY <1>4, <2>1
  <2>3. <<e[1], e[2] + f[e[1]]>> \in more
    BY <1>1, <1>3, <2>1, <2>2
  <2> QED
    BY <2>1, <2>2, <2>3
<1>7. less \in Bijection(more, Coins(g))
  <2>1. less \in [more -> Coins(g)]
    BY <1>2, <1>5
  <2>2. ASSUME NEW a \in more, NEW b \in more, less[a] = less[b]
        PROVE  a = b
    <3>1. /\ a = <<a[1], a[2]>> /\ a[2] \in Int /\ a[1] \in S
          /\ b = <<b[1], b[2]>> /\ b[2] \in Int /\ b[1] \in S
      BY <1>5
    <3>2. a[1] = b[1] /\ a[2] - f[a[1]] = b[2] - f[b[1]]
      BY <2>2
    <3>3. a[2] = b[2]
      BY <1>4, <3>1, <3>2
    <3> QED
      BY <3>1, <3>2, <3>3
  <2>3. \A e \in Coins(g) : \E a \in more : less[a] = e
    BY <1>6
  <2> HIDE DEF less, more
  <2> QED
    BY <2>1, <2>2, <2>3 DEF Bijection, Injection, Surjection, IsInjective
<1>8. IsFiniteSet(more) /\ Cardinality(more) = Cardinality(Coins(h)) - Cardinality(Coins(h) \cap Coins(f))
  BY <1>3, FS_Difference
<1>9. Coins(h) \cap Coins(f) = Coins(f)
  <2>1. ASSUME NEW e \in Coins(f)
        PROVE  e \in Coins(h)
    <3>1. e = <<e[1], e[2]>> /\ e[1] \in S /\ e[2] \in 1 .. f[e[1]]
      BY <1>1
    <3>2. e[2] \in 1 .. h[e[1]]
      BY <1>4, <3>1
    <3> QED
      BY <1>3, <3>1, <3>2
  <2> QED
    BY <2>1
<1>10. Cardinality(Coins(h) \cap Coins(f)) = Cardinality(Coins(f))
  BY <1>9, Zenon
<1> HIDE DEF more, less
<1>11. Cardinality(more) = Cardinality(Coins(g))
  BY <1>7, <1>8, FS_Bijection DEF ExistsBijection
<1> QED
  BY <1>1, <1>2, <1>3, <1>8, <1>10, <1>11

\* Zeros add nothing to a sum.
LEMMA SumWithin ==
    ASSUME NEW S, IsFiniteSet(S), NEW T \in SUBSET S, NEW f \in [T -> Nat], NEW g \in [S -> Nat],
           \A x \in S : g[x] = IF x \in T THEN f[x] ELSE 0
    PROVE  Sum(f) = Sum(g)
<1>0. IsFiniteSet(T)
  BY FS_Subset
<1>1. /\ Sum(f) = Cardinality(Coins(f))
      /\ \A x, k : <<x, k>> \in Coins(f) <=> x \in T /\ k \in 1 .. f[x]
      /\ \A e \in Coins(f) : e = <<e[1], e[2]>> /\ e[1] \in T /\ e[2] \in 1 .. f[e[1]]
  BY <1>0, CoinsAre
<1>2. /\ Sum(g) = Cardinality(Coins(g))
      /\ \A x, k : <<x, k>> \in Coins(g) <=> x \in S /\ k \in 1 .. g[x]
      /\ \A e \in Coins(g) : e = <<e[1], e[2]>> /\ e[1] \in S /\ e[2] \in 1 .. g[e[1]]
  BY CoinsAre
<1>3. ASSUME NEW e \in Coins(f)
      PROVE  e \in Coins(g)
  BY <1>1, <1>2
<1>4. ASSUME NEW e \in Coins(g)
      PROVE  e \in Coins(f)
  <2>1. e = <<e[1], e[2]>> /\ e[1] \in S /\ e[2] \in 1 .. g[e[1]]
    BY <1>2
  <2>2. e[1] \in T /\ g[e[1]] = f[e[1]]
    BY <2>1
  <2> QED
    BY <1>1, <2>1, <2>2
<1>5. Coins(f) = Coins(g)
  BY <1>3, <1>4
<1> QED
  BY <1>1, <1>2, <1>5

\* A sum of which one term only is not zero is that term.
LEMMA SumOne ==
    ASSUME NEW S, IsFiniteSet(S), NEW x \in S, NEW f \in [S -> Nat], \A y \in S \ {x} : f[y] = 0
    PROVE  Sum(f) = f[x]
<1>1. /\ Sum(f) = Cardinality(Coins(f))
      /\ \A y, k : <<y, k>> \in Coins(f) <=> y \in S /\ k \in 1 .. f[y]
      /\ \A e \in Coins(f) : e = <<e[1], e[2]>> /\ e[1] \in S /\ e[2] \in 1 .. f[e[1]]
  BY CoinsAre
<1>2. Coins(f) = {x} \X (1 .. f[x])
  <2>1. ASSUME NEW e \in Coins(f)
        PROVE  e \in {x} \X (1 .. f[x])
    <3>1. e = <<e[1], e[2]>> /\ e[1] \in S /\ e[2] \in 1 .. f[e[1]]
      BY <1>1
    <3>2. e[1] = x
      BY <3>1
    <3> QED
      BY <3>1, <3>2
  <2>2. ASSUME NEW e \in {x} \X (1 .. f[x])
        PROVE  e \in Coins(f)
    <3>1. e = <<x, e[2]>> /\ e[2] \in 1 .. f[x]
      OBVIOUS
    <3> QED
      BY <1>1, <3>1
  <2> QED
    BY <2>1, <2>2
<1>3. f[x] \in Int /\ f[x] \in Nat /\ 1 \in Int
  OBVIOUS
<1>4. IsFiniteSet(1 .. f[x]) /\ Cardinality(1 .. f[x]) = f[x]
  BY <1>3, FS_Interval
<1>5. IsFiniteSet({x}) /\ Cardinality({x}) = 1
  BY FS_Singleton
<1>6. Cardinality({x} \X (1 .. f[x])) = Cardinality({x}) * Cardinality(1 .. f[x])
  BY <1>4, <1>5, FS_Product
<1>7. 1 * f[x] = f[x]
  BY <1>3
<1> QED
  BY <1>1, <1>2, <1>4, <1>5, <1>6, <1>7

-----------------------------------------------------------------------------
\* STRETCHES

\* Stretches from T[x] to T[x] + f[x] that do not meet, and all end by Sum(f).
LaidOut(S, T, f) ==
    /\ \A x, y \in S : x # y => T[x] + f[x] <= T[y] \/ T[y] + f[y] <= T[x]
    /\ \A x \in S : T[x] + f[x] <= Sum(f)

\* The sum over a part, and over one more, fits in the sum over all of them.
LEMMA PartAndOne ==
    ASSUME NEW S, IsFiniteSet(S), NEW f \in [S -> Nat], NEW B \in SUBSET S, NEW x \in S \ B,
           NEW g \in [B -> Nat], \A y \in B : g[y] = f[y]
    PROVE  Sum(g) + f[x] <= Sum(f)
<1> DEFINE part == [y \in S |-> IF y \in B THEN f[y] ELSE 0]
           one == [y \in S |-> IF y = x THEN f[y] ELSE 0]
           both == [y \in S |-> IF y \in B \cup {x} THEN f[y] ELSE 0]
<1>1. part \in [S -> Nat] /\ one \in [S -> Nat] /\ both \in [S -> Nat]
  OBVIOUS
<1>2. \A y \in S : both[y] = part[y] + one[y] /\ both[y] <= f[y]
  OBVIOUS
<1>3. x \in S /\ one[x] = f[x] /\ \A y \in S \ {x} : one[y] = 0
  OBVIOUS
<1>4. \A y \in S : part[y] = IF y \in B THEN g[y] ELSE 0
  OBVIOUS
<1> HIDE DEF part, one, both
<1>5. Sum(one) = f[x]
  BY <1>1, <1>3, SumOne
<1>6. Sum(both) = Sum(part) + Sum(one)
  BY <1>1, <1>2, SumPlus
<1>7. Sum(both) <= Sum(f)
  BY <1>1, <1>2, SumMono
<1>8. Sum(g) = Sum(part)
  BY <1>1, <1>4, SumWithin
<1> QED
  BY <1>5, <1>6, <1>7, <1>8

\* What comes before each element, or after it, lays a function's values out.
LEMMA BeforeLaysOut ==
    ASSUME NEW S \in SUBSET Nat, IsFiniteSet(S), NEW f \in [S -> Nat], NEW T,
           \A x \in S : T[x] = Sum([y \in Before(S, x) |-> f[y]])
    PROVE  (\A x \in S : T[x] \in Nat) /\ LaidOut(S, T, f)
<1> DEFINE B == [x \in S |-> Before(S, x)]
           g == [x \in S |-> [y \in Before(S, x) |-> f[y]]]
<1>1. B \in [S -> SUBSET S] /\ \A x \in S : x \notin B[x]
  BY DEF Before
<1>2. ASSUME NEW x \in S, NEW y \in S, x < y
      PROVE  B[x] \subseteq B[y] /\ x \in B[y]
  <2>1. x \in Nat /\ y \in Nat /\ B[x] = {z \in S : z < x} /\ B[y] = {z \in S : z < y}
    BY DEF Before
  <2>2. \A z \in S : z \in Nat /\ (z < x => z < y)
    BY <1>2, <2>1
  <2> QED
    BY <1>2, <2>1, <2>2
<1>3. \A x, y \in S : x # y => x < y \/ y < x
  OBVIOUS
<1>4. /\ DOMAIN g = S /\ \A x \in S : T[x] = Sum(g[x])
      /\ \A x \in S : g[x] \in [B[x] -> Nat] /\ \A y \in B[x] : g[x][y] = f[y]
  BY <1>1
<1> HIDE DEF B, g
<1>5. ASSUME NEW x \in S
      PROVE  B[x] \in SUBSET S /\ x \in S \ B[x] /\ g[x] \in [B[x] -> Nat] /\ \A y \in B[x] : g[x][y] = f[y]
  BY <1>1, <1>4
<1>6. ASSUME NEW x \in S
      PROVE  Sum(g[x]) + f[x] <= Sum(f)
  <2>1. B[x] \in SUBSET S /\ x \in S \ B[x] /\ g[x] \in [B[x] -> Nat]
    BY <1>5
  <2>2. \A y \in B[x] : g[x][y] = f[y]
    BY <1>5
  <2> QED
    BY <2>1, <2>2, PartAndOne
<1>7. ASSUME NEW x \in S, NEW y \in S, x < y
      PROVE  Sum(g[x]) + f[x] <= Sum(g[y])
  <2>1. /\ IsFiniteSet(B[y]) /\ g[y] \in [B[y] -> Nat] /\ g[x] \in [B[x] -> Nat]
        /\ B[x] \in SUBSET B[y] /\ x \in B[y] \ B[x] /\ g[y][x] = f[x]
    BY <1>2, <1>5, <1>7, FS_Subset
  <2>2. \A z \in B[x] : g[x][z] = g[y][z]
    BY <1>5, <2>1
  <2>3. Sum(g[x]) + g[y][x] <= Sum(g[y])
    BY <2>1, <2>2, PartAndOne
  <2> QED
    BY <2>1, <2>3
<1>8. ASSUME NEW x \in S
      PROVE  Sum(g[x]) \in Nat
  BY <1>5, FS_Subset, SumNat
<1> QED
  BY <1>3, <1>4, <1>6, <1>7, <1>8 DEF LaidOut

\* And what comes after each does so too.
LEMMA AfterLaysOut ==
    ASSUME NEW S \in SUBSET Nat, IsFiniteSet(S), NEW f \in [S -> Nat], NEW T,
           \A x \in S : T[x] = Sum([y \in After(S, x) |-> f[y]])
    PROVE  (\A x \in S : T[x] \in Nat) /\ LaidOut(S, T, f)
<1> DEFINE B == [x \in S |-> After(S, x)]
           g == [x \in S |-> [y \in After(S, x) |-> f[y]]]
<1>1. B \in [S -> SUBSET S] /\ \A x \in S : x \notin B[x]
  BY DEF After
<1>2. ASSUME NEW x \in S, NEW y \in S, x > y
      PROVE  B[x] \subseteq B[y] /\ x \in B[y]
  <2>1. x \in Nat /\ y \in Nat /\ B[x] = {z \in S : z > x} /\ B[y] = {z \in S : z > y}
    BY DEF After
  <2>2. \A z \in S : z \in Nat /\ (z > x => z > y)
    BY <1>2, <2>1
  <2> QED
    BY <1>2, <2>1, <2>2
<1>3. \A x, y \in S : x # y => x > y \/ y > x
  OBVIOUS
<1>4. /\ DOMAIN g = S /\ \A x \in S : T[x] = Sum(g[x])
      /\ \A x \in S : g[x] \in [B[x] -> Nat] /\ \A y \in B[x] : g[x][y] = f[y]
  BY <1>1
<1> HIDE DEF B, g
<1>5. ASSUME NEW x \in S
      PROVE  B[x] \in SUBSET S /\ x \in S \ B[x] /\ g[x] \in [B[x] -> Nat] /\ \A y \in B[x] : g[x][y] = f[y]
  BY <1>1, <1>4
<1>6. ASSUME NEW x \in S
      PROVE  Sum(g[x]) + f[x] <= Sum(f)
  <2>1. B[x] \in SUBSET S /\ x \in S \ B[x] /\ g[x] \in [B[x] -> Nat]
    BY <1>5
  <2>2. \A y \in B[x] : g[x][y] = f[y]
    BY <1>5
  <2> QED
    BY <2>1, <2>2, PartAndOne
<1>7. ASSUME NEW x \in S, NEW y \in S, x > y
      PROVE  Sum(g[x]) + f[x] <= Sum(g[y])
  <2>1. /\ IsFiniteSet(B[y]) /\ g[y] \in [B[y] -> Nat] /\ g[x] \in [B[x] -> Nat]
        /\ B[x] \in SUBSET B[y] /\ x \in B[y] \ B[x] /\ g[y][x] = f[x]
    BY <1>2, <1>5, <1>7, FS_Subset
  <2>2. \A z \in B[x] : g[x][z] = g[y][z]
    BY <1>5, <2>1
  <2>3. Sum(g[x]) + g[y][x] <= Sum(g[y])
    BY <2>1, <2>2, PartAndOne
  <2> QED
    BY <2>1, <2>3
<1>8. ASSUME NEW x \in S
      PROVE  Sum(g[x]) \in Nat
  BY <1>5, FS_Subset, SumNat
<1> QED
  BY <1>3, <1>4, <1>6, <1>7, <1>8 DEF LaidOut

\* An overlap is the same read from either side.
LEMMA OverlapTurns ==
    ASSUME NEW a \in Nat, NEW b \in Nat, NEW c \in Nat, NEW d \in Nat
    PROVE  Overlap(a, b, c, d) = Overlap(c, d, a, b)
BY DEF Overlap, AtLeastZero, Smaller

\* Stretches laid out meet another in no more than it is long.
LEMMA StretchesFit ==
    ASSUME NEW S, IsFiniteSet(S), NEW f \in [S -> Nat], NEW T, \A x \in S : T[x] \in Nat, LaidOut(S, T, f),
           NEW m \in Nat, NEW n \in Nat, NEW o \in [S -> Nat],
           \A x \in S : o[x] = Overlap(T[x], f[x], m, n)
    PROVE  Sum(o) <= n
<1> DEFINE start(x) == IF T[x] < m THEN m ELSE T[x]
           put == [e \in Coins(o) |-> start(e[1]) + e[2]]
<1>1. /\ Sum(o) = Cardinality(Coins(o)) /\ IsFiniteSet(Coins(o))
      /\ \A e \in Coins(o) : e = <<e[1], e[2]>> /\ e[1] \in S /\ e[2] \in 1 .. o[e[1]]
  BY CoinsAre
<1>2. ASSUME NEW e \in Coins(o)
      PROVE  /\ e = <<e[1], e[2]>> /\ e[1] \in S /\ e[2] \in Int
             /\ put[e] \in m + 1 .. m + n
             /\ put[e] \in T[e[1]] + 1 .. T[e[1]] + f[e[1]]
             /\ put[e] = start(e[1]) + e[2]
  <2>1. e = <<e[1], e[2]>> /\ e[1] \in S /\ e[2] \in 1 .. o[e[1]]
    BY <1>1
  <2>2. T[e[1]] \in Nat /\ f[e[1]] \in Nat /\ o[e[1]] = Overlap(T[e[1]], f[e[1]], m, n)
    BY <2>1
  <2>3. put[e] = start(e[1]) + e[2]
    OBVIOUS
  <2> HIDE DEF put
  <2> QED
    BY <2>1, <2>2, <2>3 DEF Overlap, AtLeastZero, Smaller
<1>3. put \in Injection(Coins(o), m + 1 .. m + n)
  <2>1. put \in [Coins(o) -> m + 1 .. m + n]
    BY <1>2
  <2>2. ASSUME NEW a \in Coins(o), NEW b \in Coins(o), put[a] = put[b]
        PROVE  a = b
    <3> HIDE DEF put
    <3>1. a[1] = b[1]
      <4>1. /\ a[1] \in S /\ b[1] \in S /\ T[a[1]] \in Nat /\ f[a[1]] \in Nat /\ T[b[1]] \in Nat /\ f[b[1]] \in Nat
            /\ put[a] \in T[a[1]] + 1 .. T[a[1]] + f[a[1]]
            /\ put[a] \in T[b[1]] + 1 .. T[b[1]] + f[b[1]]
        BY <1>2, <2>2
      <4>2. ~(T[a[1]] + f[a[1]] <= T[b[1]] \/ T[b[1]] + f[b[1]] <= T[a[1]])
        BY <4>1
      <4> QED
        BY <4>1, <4>2 DEF LaidOut
    <3>2. start(a[1]) + a[2] = start(a[1]) + b[2] /\ a[2] \in Int /\ b[2] \in Int /\ start(a[1]) \in Int
      BY <1>2, <2>2, <3>1
    <3>3. a[2] = b[2]
      BY <3>2
    <3>4. a = <<a[1], a[2]>> /\ b = <<b[1], b[2]>>
      BY <1>2
    <3> QED
      BY <3>1, <3>3, <3>4
  <2> HIDE DEF put
  <2> QED
    BY <2>1, <2>2 DEF Injection, IsInjective
<1> HIDE DEF put
<1>4. IsFiniteSet(m + 1 .. m + n) /\ Cardinality(m + 1 .. m + n) = n
  <2>1. m + 1 \in Int /\ m + n \in Int
    OBVIOUS
  <2>2. IsFiniteSet(m + 1 .. m + n) /\ Cardinality(m + 1 .. m + n) = IF m + 1 > m + n THEN 0 ELSE m + n - (m + 1) + 1
    BY <2>1, FS_Interval
  <2> QED
    BY <2>2
<1> QED
  BY <1>1, <1>3, <1>4, FS_Injection

\* And they leave no gap.
LEMMA Lands ==
    ASSUME NEW S, IsFiniteSet(S), NEW f \in [S -> Nat], NEW T, \A x \in S : T[x] \in Nat, LaidOut(S, T, f),
           NEW k \in 1 .. Sum(f)
    PROVE  \E x \in S : T[x] < k /\ k <= T[x] + f[x]
<1> DEFINE put == [e \in Coins(f) |-> T[e[1]] + e[2]]
<1>1. /\ Sum(f) = Cardinality(Coins(f)) /\ IsFiniteSet(Coins(f)) /\ Sum(f) \in Nat
      /\ \A e \in Coins(f) : e = <<e[1], e[2]>> /\ e[1] \in S /\ e[2] \in 1 .. f[e[1]]
  BY CoinsAre
<1>2. ASSUME NEW e \in Coins(f)
      PROVE  /\ e = <<e[1], e[2]>> /\ e[1] \in S /\ e[2] \in Int
             /\ put[e] \in 1 .. Sum(f)
             /\ put[e] \in T[e[1]] + 1 .. T[e[1]] + f[e[1]]
             /\ put[e] = T[e[1]] + e[2]
  <2>1. e = <<e[1], e[2]>> /\ e[1] \in S /\ e[2] \in 1 .. f[e[1]]
    BY <1>1
  <2>2. T[e[1]] \in Nat /\ f[e[1]] \in Nat /\ T[e[1]] + f[e[1]] <= Sum(f)
    BY <2>1 DEF LaidOut
  <2>3. put[e] = T[e[1]] + e[2]
    OBVIOUS
  <2> HIDE DEF put
  <2> QED
    BY <1>1, <2>1, <2>2, <2>3
<1>3. put \in Injection(Coins(f), 1 .. Sum(f))
  <2>1. put \in [Coins(f) -> 1 .. Sum(f)]
    BY <1>2
  <2>2. ASSUME NEW a \in Coins(f), NEW b \in Coins(f), put[a] = put[b]
        PROVE  a = b
    <3> HIDE DEF put
    <3>1. a[1] = b[1]
      <4>1. /\ a[1] \in S /\ b[1] \in S /\ T[a[1]] \in Nat /\ f[a[1]] \in Nat /\ T[b[1]] \in Nat /\ f[b[1]] \in Nat
            /\ put[a] \in T[a[1]] + 1 .. T[a[1]] + f[a[1]]
            /\ put[a] \in T[b[1]] + 1 .. T[b[1]] + f[b[1]]
        BY <1>2, <2>2
      <4>2. ~(T[a[1]] + f[a[1]] <= T[b[1]] \/ T[b[1]] + f[b[1]] <= T[a[1]])
        BY <4>1
      <4> QED
        BY <4>1, <4>2 DEF LaidOut
    <3>2. T[a[1]] + a[2] = T[a[1]] + b[2] /\ a[2] \in Int /\ b[2] \in Int /\ T[a[1]] \in Int
      BY <1>2, <2>2, <3>1
    <3>3. a[2] = b[2]
      BY <3>2
    <3>4. a = <<a[1], a[2]>> /\ b = <<b[1], b[2]>>
      BY <1>2
    <3> QED
      BY <3>1, <3>3, <3>4
  <2> HIDE DEF put
  <2> QED
    BY <2>1, <2>2 DEF Injection, IsInjective
<1>4. IsFiniteSet(1 .. Sum(f)) /\ Cardinality(1 .. Sum(f)) = Sum(f)
  <2>1. 1 \in Int /\ Sum(f) \in Int
    BY <1>1
  <2>2. \A n \in Nat : (IF 1 > n THEN 0 ELSE n - 1 + 1) = n
    OBVIOUS
  <2>3. Cardinality(1 .. Sum(f)) = IF 1 > Sum(f) THEN 0 ELSE Sum(f) - 1 + 1
    BY <2>1, FS_Interval
  <2> QED
    BY <1>1, <2>1, <2>2, <2>3, FS_Interval
<1>5. put \in Surjection(Coins(f), 1 .. Sum(f))
  <2> HIDE DEF put
  <2> QED
    BY <1>1, <1>3, <1>4, FS_Injection
<1>6. \E e \in Coins(f) : put[e] = k
  <2> HIDE DEF put
  <2> QED
    BY <1>5 DEF Surjection
<1>7. PICK e \in Coins(f) : put[e] = k
  BY <1>6
<1> HIDE DEF put
<1>8. e[1] \in S /\ k \in T[e[1]] + 1 .. T[e[1]] + f[e[1]] /\ T[e[1]] \in Nat /\ f[e[1]] \in Nat
  BY <1>2, <1>7
<1> QED
  BY <1>8

\* So they meet all of one that starts with them and does not outlast them.
LEMMA StretchesCover ==
    ASSUME NEW S, IsFiniteSet(S), NEW f \in [S -> Nat], NEW T, \A x \in S : T[x] \in Nat, LaidOut(S, T, f),
           NEW n \in Nat, n <= Sum(f), NEW o \in [S -> Nat],
           \A x \in S : o[x] = Overlap(T[x], f[x], 0, n)
    PROVE  n <= Sum(o)
<1> DEFINE from == [k \in 1 .. n |-> CHOOSE e \in Coins(o) : T[e[1]] + e[2] = k]
<1>1. /\ Sum(o) = Cardinality(Coins(o)) /\ IsFiniteSet(Coins(o)) /\ Sum(f) \in Nat
      /\ \A x, k : <<x, k>> \in Coins(o) <=> x \in S /\ k \in 1 .. o[x]
  BY CoinsAre
<1>2. ASSUME NEW k \in 1 .. n
      PROVE  from[k] \in Coins(o) /\ T[from[k][1]] + from[k][2] = k
  <2>1. k \in 1 .. Sum(f) /\ k \in Int
    BY <1>1
  <2>2. PICK x \in S : T[x] < k /\ k <= T[x] + f[x]
    BY <2>1, Lands
  <2>3. k - T[x] \in 1 .. o[x]
    <3>1. T[x] \in Nat /\ f[x] \in Nat /\ o[x] = Overlap(T[x], f[x], 0, n)
      OBVIOUS
    <3> QED
      BY <2>1, <2>2, <3>1 DEF Overlap, AtLeastZero, Smaller
  <2>4. <<x, k - T[x]>> \in Coins(o)
    BY <1>1, <2>3
  <2>5. T[x] + (k - T[x]) = k
    BY <2>1
  <2>6. \E e \in Coins(o) : T[e[1]] + e[2] = k
    BY <2>4, <2>5
  <2> QED
    BY <2>6
<1>3. from \in Injection(1 .. n, Coins(o))
  <2>1. from \in [1 .. n -> Coins(o)]
    BY <1>2
  <2>2. ASSUME NEW k \in 1 .. n, NEW l \in 1 .. n, from[k] = from[l]
        PROVE  k = l
    <3>1. T[from[k][1]] + from[k][2] = k /\ T[from[l][1]] + from[l][2] = l
      BY <1>2
    <3> HIDE DEF from
    <3> QED
      BY <2>2, <3>1
  <2> HIDE DEF from
  <2> QED
    BY <2>1, <2>2 DEF Injection, IsInjective
<1> HIDE DEF from
<1>4. Cardinality(1 .. n) = n
  <2>1. 1 \in Int /\ n \in Int
    OBVIOUS
  <2> QED
    BY <2>1, FS_Interval
<1> QED
  BY <1>1, <1>3, <1>4, FS_Injection

-----------------------------------------------------------------------------
\* WHAT ALLOCATIONS AMOUNT TO

\* What allocations A put on an inscription and take from a payment, and what
\* they become when moves are added to the ones there are.
On(A, i) == Sum([p \in Payments |-> A[p][i]])
From(A, p) == Sum(A[p])
With(A, moves) == [p \in Payments |-> [i \in Inscriptions |-> AtLeastZero(A[p][i] + moves[p][i])]]
Applied(moves) == With(allocated, moves)
Allocations == [Payments -> [Inscriptions -> Nat]]

\* What a row holds of an allocation is a natural.
LEMMA OnNat ==
    ASSUME NEW A \in Allocations, NEW i \in Inscriptions
    PROVE  On(A, i) \in Nat
<1> DEFINE f == [p \in Payments |-> A[p][i]]
<1>1. f \in [Payments -> Nat] /\ On(A, i) = Sum(f)
  BY DEF Allocations, On
<1> HIDE DEF f
<1> QED
  BY <1>1, SumNat, FiniteAssumption

\* What an allocation takes from a payment is a natural.
LEMMA FromNat ==
    ASSUME NEW A \in Allocations, NEW p \in Payments
    PROVE  From(A, p) \in Nat
<1>1. A[p] \in [Inscriptions -> Nat]
  BY DEF Allocations
<1> QED
  BY <1>1, SumNat, FiniteAssumption DEF From

\* Allocations that only fall leave no more on a row, nor taken from a payment.
LEMMA OnMono ==
    ASSUME NEW A \in Allocations, NEW B \in Allocations, NEW i \in Inscriptions,
           \A p \in Payments : A[p][i] <= B[p][i]
    PROVE  On(A, i) <= On(B, i)
<1> DEFINE f == [p \in Payments |-> A[p][i]]
           g == [p \in Payments |-> B[p][i]]
<1>1. f \in [Payments -> Nat] /\ g \in [Payments -> Nat] /\ \A p \in Payments : f[p] <= g[p]
  BY DEF Allocations
<1>2. On(A, i) = Sum(f) /\ On(B, i) = Sum(g)
  BY DEF On
<1> HIDE DEF f, g
<1> QED
  BY <1>1, <1>2, SumMono, FiniteAssumption

\* The same for what is taken from a payment.
LEMMA FromMono ==
    ASSUME NEW A \in Allocations, NEW B \in Allocations, NEW p \in Payments,
           \A i \in Inscriptions : A[p][i] <= B[p][i]
    PROVE  From(A, p) <= From(B, p)
<1>1. A[p] \in [Inscriptions -> Nat] /\ B[p] \in [Inscriptions -> Nat]
  BY DEF Allocations
<1> QED
  BY <1>1, SumMono, FiniteAssumption DEF From

\* What applying moves leaves of an allocation.
LEMMA WithIs ==
    ASSUME NEW A \in Allocations, NEW moves \in [Payments -> [Inscriptions -> Int]]
    PROVE  /\ With(A, moves) \in Allocations
           /\ \A p \in Payments, i \in Inscriptions : With(A, moves)[p][i] = AtLeastZero(A[p][i] + moves[p][i])
<1>1. ASSUME NEW p \in Payments, NEW i \in Inscriptions
      PROVE  AtLeastZero(A[p][i] + moves[p][i]) \in Nat
  <2>1. A[p][i] \in Nat /\ moves[p][i] \in Int
    BY DEF Allocations
  <2> QED
    BY <2>1 DEF AtLeastZero
<1>2. With(A, moves) \in Allocations
  BY <1>1 DEF With, Allocations
<1> QED
  BY <1>2 DEF With

\* What a row holds in the tables is what it holds of these allocations.
LEMMA AllocatedIs ==
    ASSUME MoneyRows
    PROVE  allocated \in Allocations
BY DEF MoneyRows, Allocations

\* Moves that put nothing on a row, or draw nothing from a payment.
LEMMA WithFalls ==
    ASSUME NEW A \in Allocations, NEW B \in Allocations, NEW moves \in [Payments -> [Inscriptions -> Int]]
    PROVE  /\ \A i \in Inscriptions :
                 /\ (\A p \in Payments : A[p][i] <= B[p][i]) => On(With(A, moves), i) <= On(With(B, moves), i)
                 /\ (\A p \in Payments : ~(moves[p][i] > 0)) => On(With(A, moves), i) <= On(A, i)
           /\ \A p \in Payments :
                 /\ (\A i \in Inscriptions : A[p][i] <= B[p][i]) => From(With(A, moves), p) <= From(With(B, moves), p)
                 /\ (\A i \in Inscriptions : ~(moves[p][i] > 0)) => From(With(A, moves), p) <= From(A, p)
<1>1. With(A, moves) \in Allocations /\ With(B, moves) \in Allocations
  BY WithIs
<1>2. ASSUME NEW p \in Payments, NEW i \in Inscriptions
      PROVE  /\ A[p][i] <= B[p][i] => With(A, moves)[p][i] <= With(B, moves)[p][i]
             /\ ~(moves[p][i] > 0) => With(A, moves)[p][i] <= A[p][i]
  <2>1. With(A, moves)[p][i] = AtLeastZero(A[p][i] + moves[p][i])
    BY WithIs
  <2>2. With(B, moves)[p][i] = AtLeastZero(B[p][i] + moves[p][i])
    BY WithIs
  <2>3. A[p][i] \in Nat /\ B[p][i] \in Nat /\ moves[p][i] \in Int
    BY DEF Allocations
  <2> QED
    BY <2>1, <2>2, <2>3 DEF AtLeastZero
<1>3. ASSUME NEW i \in Inscriptions, \A p \in Payments : A[p][i] <= B[p][i]
      PROVE  On(With(A, moves), i) <= On(With(B, moves), i)
  BY <1>1, <1>2, <1>3, OnMono
<1>4. ASSUME NEW i \in Inscriptions, \A p \in Payments : ~(moves[p][i] > 0)
      PROVE  On(With(A, moves), i) <= On(A, i)
  BY <1>1, <1>2, <1>4, OnMono
<1>5. ASSUME NEW p \in Payments, \A i \in Inscriptions : A[p][i] <= B[p][i]
      PROVE  From(With(A, moves), p) <= From(With(B, moves), p)
  BY <1>1, <1>2, <1>5, FromMono
<1>6. ASSUME NEW p \in Payments, \A i \in Inscriptions : ~(moves[p][i] > 0)
      PROVE  From(With(A, moves), p) <= From(A, p)
  BY <1>1, <1>2, <1>6, FromMono
<1> QED
  BY <1>3, <1>4, <1>5, <1>6

\* So what a row holds is what is allocated to it.
LEMMA HeldIs ==
    /\ \A i : Held(i) = On(allocated, i)
    /\ \A p : Spent(p) = From(allocated, p)
BY DEF Held, On, Spent, From

\* What is taken off a row is at least what was asked, when the row has it.
LEMMA UnwoundRow ==
    ASSUME MoneyRows, NEW need \in [Inscriptions -> Nat], NEW i \in Inscriptions, need[i] <= Held(i)
    PROVE  On(Applied(Unwind(need)), i) + need[i] <= Held(i)
<1> DEFINE f == [p \in Payments |-> allocated[p][i]]
           T == [p \in Payments |-> Sum([q \in After(Payments, p) |-> allocated[q][i]])]
           o == [p \in Payments |-> Overlap(T[p], f[p], 0, need[i])]
           h == [p \in Payments |-> Applied(Unwind(need))[p][i]]
<1>0. Payments \in SUBSET Nat /\ IsFiniteSet(Payments)
  BY NumbersAssumption, FiniteAssumption
<1>1. f \in [Payments -> Nat] /\ Held(i) = Sum(f) /\ On(Applied(Unwind(need)), i) = Sum(h)
  BY DEF MoneyRows, Held, On
<1>2. \A p \in Payments : T[p] = Sum([q \in After(Payments, p) |-> f[q]])
  <2>1. ASSUME NEW p \in Payments
        PROVE  [q \in After(Payments, p) |-> f[q]] = [q \in After(Payments, p) |-> allocated[q][i]]
    BY DEF After
  <2> QED
    BY <2>1
<1>3. \A p \in Payments : o[p] = Overlap(T[p], f[p], 0, need[i])
  OBVIOUS
<1>4. \A p \in Payments : Unwind(need)[p][i] = -o[p]
  BY DEF Unwind
<1>5. \A p \in Payments : h[p] = AtLeastZero(allocated[p][i] + Unwind(need)[p][i]) /\ f[p] = allocated[p][i]
  BY DEF Applied, With
<1>6. need[i] \in Nat
  OBVIOUS
<1>7. DOMAIN o = Payments /\ DOMAIN h = Payments /\ h = [p \in Payments |-> h[p]] /\ o = [p \in Payments |-> o[p]]
  OBVIOUS
<1> HIDE DEF f, T, o, h
<1>8. (\A p \in Payments : T[p] \in Nat) /\ LaidOut(Payments, T, f)
  BY <1>0, <1>1, <1>2, AfterLaysOut
<1>9. ASSUME NEW p \in Payments
      PROVE  o[p] \in Nat /\ o[p] <= f[p] /\ h[p] \in Nat /\ f[p] = h[p] + o[p]
  <2>1. T[p] \in Nat /\ f[p] \in Nat /\ 0 \in Nat
    BY <1>1, <1>8
  <2>2. o[p] \in Nat /\ o[p] <= f[p]
    BY <1>3, <1>6, <2>1 DEF Overlap, AtLeastZero, Smaller
  <2>3. h[p] = AtLeastZero(f[p] + (-o[p]))
    BY <1>4, <1>5
  <2> QED
    BY <2>1, <2>2, <2>3 DEF AtLeastZero
<1>10. o \in [Payments -> Nat] /\ h \in [Payments -> Nat]
  BY <1>7, <1>9
<1>11. Sum(f) = Sum(h) + Sum(o)
  <2>1. \A p \in Payments : f[p] = h[p] + o[p]
    BY <1>9
  <2>2. f \in [Payments -> Nat] /\ IsFiniteSet(Payments)
    BY <1>0, <1>1
  <2> QED
    BY <1>10, <2>1, <2>2, SumPlus
<1>12. need[i] <= Sum(o)
  <2>1. need[i] <= Sum(f)
    BY <1>1
  <2>2. f \in [Payments -> Nat] /\ IsFiniteSet(Payments) /\ o \in [Payments -> Nat]
    BY <1>0, <1>1, <1>10
  <2> QED
    BY <1>3, <1>6, <1>8, <2>1, <2>2, StretchesCover
<1>13. Sum(h) \in Nat /\ Sum(o) \in Nat
  BY <1>0, <1>10, SumNat
<1> QED
  BY <1>1, <1>6, <1>11, <1>12, <1>13

\* What a pool is asked for: its payments' stretches and the rows' meet.
LEMMA Meeting ==
    ASSUME MoneyRows, OtherRows, NEW need \in [Inscriptions -> Nat], NEW a
    PROVE  \E T, U, f :
              /\ f \in [PaymentsOf(a) -> Nat] /\ \A p \in PaymentsOf(a) : f[p] = Available(p)
              /\ \A p \in PaymentsOf(a) : T[p] \in Nat
              /\ \A i \in Inscriptions : U[i] \in Nat
              /\ LaidOut(PaymentsOf(a), T, f) /\ LaidOut(Inscriptions, U, need)
              /\ \A p \in Payments, i \in Inscriptions :
                    Spread(need, a)[p][i] = IF p \in PaymentsOf(a) THEN Overlap(T[p], f[p], U[i], need[i]) ELSE 0
<1> DEFINE S == PaymentsOf(a)
           f == [p \in S |-> Available(p)]
           T == [p \in S |-> Sum([q \in Before(S, p) |-> Available(q)])]
           U == [i \in Inscriptions |-> Sum([j \in Before(Inscriptions, i) |-> need[j]])]
<1>0. S \in SUBSET Nat /\ IsFiniteSet(S) /\ Inscriptions \in SUBSET Nat /\ IsFiniteSet(Inscriptions)
  <2>1. S \subseteq Payments
    BY DEF PaymentsOf
  <2> QED
    BY <2>1, NumbersAssumption, OrderAssumption, FiniteAssumption, FS_Subset
<1>1. f \in [S -> Nat] /\ \A p \in S : f[p] = Available(p)
  BY AvailableNat DEF PaymentsOf
<1>2. \A p \in S : T[p] = Sum([q \in Before(S, p) |-> f[q]])
  <2>1. ASSUME NEW p \in S
        PROVE  [q \in Before(S, p) |-> f[q]] = [q \in Before(S, p) |-> Available(q)]
    BY DEF Before
  <2> QED
    BY <2>1
<1>3. \A i \in Inscriptions : U[i] = Sum([j \in Before(Inscriptions, i) |-> need[j]])
  OBVIOUS
<1>4. \A p \in Payments, i \in Inscriptions :
         Spread(need, a)[p][i] = IF p \in S THEN Overlap(T[p], f[p], U[i], need[i]) ELSE 0
  BY DEF Spread
<1> HIDE DEF f, T, U, S
<1>5. (\A p \in S : T[p] \in Nat) /\ LaidOut(S, T, f)
  BY <1>0, <1>1, <1>2, BeforeLaysOut
<1>6. (\A i \in Inscriptions : U[i] \in Nat) /\ LaidOut(Inscriptions, U, need)
  BY <1>0, <1>3, BeforeLaysOut
<1> QED
  BY <1>1, <1>4, <1>5, <1>6 DEF S

\* A spread puts on a row what it needs at most,
LEMMA SpreadOnRow ==
    ASSUME MoneyRows, OtherRows, NEW need \in [Inscriptions -> Nat], NEW a, NEW i \in Inscriptions
    PROVE  On(Applied(Spread(need, a)), i) <= Held(i) + need[i]
<1>1. PICK T, U, f :
              /\ f \in [PaymentsOf(a) -> Nat] /\ \A p \in PaymentsOf(a) : f[p] = Available(p)
              /\ \A p \in PaymentsOf(a) : T[p] \in Nat
              /\ \A j \in Inscriptions : U[j] \in Nat
              /\ LaidOut(PaymentsOf(a), T, f) /\ LaidOut(Inscriptions, U, need)
              /\ \A p \in Payments, j \in Inscriptions :
                    Spread(need, a)[p][j] = IF p \in PaymentsOf(a) THEN Overlap(T[p], f[p], U[j], need[j]) ELSE 0
  BY Meeting
<1> DEFINE S == PaymentsOf(a)
           o == [p \in S |-> Spread(need, a)[p][i]]
           all == [p \in Payments |-> Spread(need, a)[p][i]]
           g == [p \in Payments |-> allocated[p][i]]
           h == [p \in Payments |-> Applied(Spread(need, a))[p][i]]
<1>0. S \in SUBSET Payments /\ IsFiniteSet(S) /\ IsFiniteSet(Payments)
  <2>1. S \subseteq Payments
    BY DEF PaymentsOf
  <2> QED
    BY <2>1, FiniteAssumption, FS_Subset
<1>2. g \in [Payments -> Nat] /\ Held(i) = Sum(g) /\ On(Applied(Spread(need, a)), i) = Sum(h)
  BY DEF MoneyRows, Held, On
<1>3. \A p \in S : o[p] = Overlap(T[p], f[p], U[i], need[i])
  BY <1>0, <1>1
<1>4. \A p \in Payments : all[p] = IF p \in S THEN o[p] ELSE 0
  BY <1>1
<1>5. \A p \in Payments : h[p] = AtLeastZero(g[p] + all[p])
  BY DEF Applied, With
<1>6. U[i] \in Nat /\ need[i] \in Nat /\ \A p \in S : T[p] \in Nat /\ f[p] \in Nat
  BY <1>1
<1>7. f \in [S -> Nat] /\ LaidOut(S, T, f) /\ \A p \in S : T[p] \in Nat
  BY <1>1
<1>8. o = [p \in S |-> o[p]] /\ all = [p \in Payments |-> all[p]] /\ h = [p \in Payments |-> h[p]]
  OBVIOUS
<1> HIDE DEF S, o, all, g, h
<1>9. ASSUME NEW p \in S
      PROVE  o[p] \in Nat
  <2>1. T[p] \in Nat /\ f[p] \in Nat /\ U[i] \in Nat /\ need[i] \in Nat
    BY <1>6
  <2>2. Overlap(T[p], f[p], U[i], need[i]) \in Nat
    BY <2>1, OverlapNat
  <2> QED
    BY <1>3, <2>2
<1>10. o \in [S -> Nat]
  BY <1>8, <1>9
<1>11. Sum(o) <= need[i]
  BY <1>0, <1>3, <1>6, <1>7, <1>10, StretchesFit
<1>12. ASSUME NEW p \in Payments
       PROVE  all[p] \in Nat /\ h[p] \in Nat /\ h[p] = g[p] + all[p]
  <2>1. all[p] \in Nat
    BY <1>4, <1>9
  <2>2. g[p] \in Nat
    BY <1>2
  <2> QED
    BY <1>5, <2>1, <2>2 DEF AtLeastZero
<1>13. all \in [Payments -> Nat] /\ h \in [Payments -> Nat]
  BY <1>8, <1>12
<1>14. Sum(o) = Sum(all)
  <2>1. S \in SUBSET Payments /\ IsFiniteSet(Payments) /\ all \in [Payments -> Nat]
    BY <1>0, <1>13
  <2> QED
    BY <1>4, <1>10, <2>1, SumWithin
<1>15. Sum(h) = Sum(g) + Sum(all)
  BY <1>0, <1>2, <1>12, <1>13, SumPlus
<1>16. Sum(g) \in Nat /\ Sum(all) \in Nat
  BY <1>0, <1>2, <1>13, SumNat
<1> QED
  BY <1>2, <1>6, <1>11, <1>14, <1>15, <1>16

\* and draws on a payment of the pool what it has available at most, on others nothing.
LEMMA SpreadFromPayment ==
    ASSUME MoneyRows, OtherRows, NEW need \in [Inscriptions -> Nat], NEW a, NEW p \in Payments
    PROVE  /\ p \in PaymentsOf(a) => From(Applied(Spread(need, a)), p) <= Spent(p) + Available(p)
           /\ p \notin PaymentsOf(a) => From(Applied(Spread(need, a)), p) = Spent(p)
<1>1. PICK T, U, f :
              /\ f \in [PaymentsOf(a) -> Nat] /\ \A q \in PaymentsOf(a) : f[q] = Available(q)
              /\ \A q \in PaymentsOf(a) : T[q] \in Nat
              /\ \A j \in Inscriptions : U[j] \in Nat
              /\ LaidOut(PaymentsOf(a), T, f) /\ LaidOut(Inscriptions, U, need)
              /\ \A q \in Payments, j \in Inscriptions :
                    Spread(need, a)[q][j] = IF q \in PaymentsOf(a) THEN Overlap(T[q], f[q], U[j], need[j]) ELSE 0
  BY Meeting
<1> DEFINE o == [j \in Inscriptions |-> Spread(need, a)[p][j]]
           g == allocated[p]
           h == Applied(Spread(need, a))[p]
<1>2. g \in [Inscriptions -> Nat] /\ Spent(p) = Sum(g) /\ From(Applied(Spread(need, a)), p) = Sum(h)
  BY DEF MoneyRows, Spent, From
<1>3. \A j \in Inscriptions : o[j] = IF p \in PaymentsOf(a) THEN Overlap(T[p], f[p], U[j], need[j]) ELSE 0
  BY <1>1
<1>4. \A j \in Inscriptions : h[j] = AtLeastZero(g[j] + o[j])
  BY DEF Applied, With
<1>5. o = [j \in Inscriptions |-> o[j]] /\ h = [j \in Inscriptions |-> h[j]]
  BY DEF Applied, With
<1> HIDE DEF o, g, h
<1>6. \A j \in Inscriptions : U[j] \in Nat /\ need[j] \in Nat
  BY <1>1
<1>7. p \in PaymentsOf(a) => T[p] \in Nat /\ f[p] \in Nat /\ f[p] = Available(p)
  BY <1>1
<1>8. ASSUME NEW j \in Inscriptions
      PROVE  /\ o[j] \in Nat /\ h[j] \in Nat /\ h[j] = g[j] + o[j]
             /\ p \in PaymentsOf(a) => o[j] = Overlap(U[j], need[j], T[p], f[p])
  <2>1. o[j] \in Nat
    <3>1. CASE p \in PaymentsOf(a)
      BY <1>3, <1>6, <1>7, <3>1 DEF Overlap, AtLeastZero, Smaller
    <3>2. CASE p \notin PaymentsOf(a)
      BY <1>3, <3>2
    <3> QED
      BY <3>1, <3>2
  <2>2. g[j] \in Nat
    BY <1>2
  <2>3. p \in PaymentsOf(a) => o[j] = Overlap(U[j], need[j], T[p], f[p])
    BY <1>3, <1>6, <1>7, OverlapTurns
  <2>4. h[j] \in Nat /\ h[j] = g[j] + o[j]
    BY <1>4, <2>1, <2>2 DEF AtLeastZero
  <2> QED
    BY <2>1, <2>3, <2>4
<1>9. o \in [Inscriptions -> Nat] /\ h \in [Inscriptions -> Nat]
  BY <1>5, <1>8
<1>10. Sum(h) = Sum(g) + Sum(o)
  BY <1>2, <1>8, <1>9, SumPlus, FiniteAssumption
<1>11. Sum(g) \in Nat /\ Sum(o) \in Nat /\ (Sum(o) = 0 <=> \A j \in Inscriptions : o[j] = 0)
  BY <1>2, <1>9, SumNat, FiniteAssumption
<1>12. ASSUME p \in PaymentsOf(a)
       PROVE  Sum(o) <= f[p]
  <2>1. T[p] \in Nat /\ f[p] \in Nat /\ \A j \in Inscriptions : o[j] = Overlap(U[j], need[j], T[p], f[p])
    BY <1>7, <1>8, <1>12
  <2>2. \A j \in Inscriptions : U[j] \in Nat
    BY <1>6
  <2>3. LaidOut(Inscriptions, U, need) /\ need \in [Inscriptions -> Nat]
    BY <1>1
  <2>4. IsFiniteSet(Inscriptions) /\ o \in [Inscriptions -> Nat]
    BY <1>9, FiniteAssumption
  <2> QED
    BY <2>1, <2>2, <2>3, <2>4, StretchesFit
<1>13. ASSUME p \notin PaymentsOf(a)
       PROVE  Sum(o) = 0
  BY <1>3, <1>11, <1>13
<1> QED
  BY <1>2, <1>7, <1>10, <1>11, <1>12, <1>13

-----------------------------------------------------------------------------
\* WHAT A POOL IS WORTH

\* What the academy's payments have left, and what its refunds take of it.
Worth(a) == Sum([p \in Payments |-> IF p \in PaymentsOf(a) THEN Free(p) ELSE 0])
Debt(a) == Sum([r \in Refunds |-> IF refund[r].owner = a THEN refund[r].amount ELSE 0])

\* What payments are for, and what is spent and free of them, are naturals.
LEMMA AmountsNat ==
    ASSUME MoneyRows, NEW p \in Payments
    PROVE  payment[p].amount \in Nat /\ Spent(p) \in Nat /\ Free(p) \in Nat
BY SpentNat, FreeNat, PriceAssumption DEF MoneyRows, Payment, Amount

\* What a pool is worth is a natural.
LEMMA WorthNat ==
    ASSUME MoneyRows, NEW a
    PROVE  Worth(a) \in Nat
<1> DEFINE f == [p \in Payments |-> IF p \in PaymentsOf(a) THEN Free(p) ELSE 0]
<1>1. f \in [Payments -> Nat] /\ Worth(a) = Sum(f)
  BY FreeNat DEF Worth
<1> HIDE DEF f
<1> QED
  BY <1>1, SumNat, FiniteAssumption

\* What an academy's refunds take is a natural.
LEMMA DebtNat ==
    ASSUME OtherRows, NEW a
    PROVE  Debt(a) \in Nat
<1> DEFINE f == [r \in Refunds |-> IF refund[r].owner = a THEN refund[r].amount ELSE 0]
<1>1. f \in [Refunds -> Nat] /\ Debt(a) = Sum(f)
  BY PriceAssumption DEF Debt, OtherRows, Amount
<1> HIDE DEF f
<1> QED
  BY <1>1, SumNat, FiniteAssumption

\* What refunds take is the model's sum over the academy's refunds,
LEMMA DebtIs ==
    ASSUME OtherRows, NEW a
    PROVE  Refunded(a) = Debt(a)
<1> DEFINE S == RefundsOf(a)
           f == [r \in S |-> refund[r].amount]
           g == [r \in Refunds |-> IF refund[r].owner = a THEN refund[r].amount ELSE 0]
<1>1. S \in SUBSET Refunds /\ f \in [S -> Nat] /\ g \in [Refunds -> Nat]
  BY PriceAssumption DEF OtherRows, Amount, RefundsOf
<1>2. \A r \in Refunds : g[r] = IF r \in S THEN f[r] ELSE 0
  BY DEF RefundsOf
<1>3. Refunded(a) = Sum(f) /\ Debt(a) = Sum(g)
  BY DEF Refunded, Debt
<1> HIDE DEF S, f, g
<1>4. Sum(f) = Sum(g)
  BY <1>1, <1>2, SumWithin, FiniteAssumption
<1> QED
  BY <1>3, <1>4

\* and what a pool is worth is the sum over its payments.
LEMMA WorthIs ==
    ASSUME MoneyRows, NEW a
    PROVE  Sum([p \in PaymentsOf(a) |-> Free(p)]) = Worth(a)
<1> DEFINE S == PaymentsOf(a)
           f == [p \in S |-> Free(p)]
           g == [p \in Payments |-> IF p \in S THEN Free(p) ELSE 0]
<1>1. S \in SUBSET Payments /\ f \in [S -> Nat] /\ g \in [Payments -> Nat]
  BY FreeNat DEF PaymentsOf
<1>2. \A p \in Payments : g[p] = IF p \in S THEN f[p] ELSE 0
  OBVIOUS
<1>3. Worth(a) = Sum(g)
  BY DEF Worth
<1>4. IsFiniteSet(Payments)
  BY FiniteAssumption
<1> HIDE DEF f, g, S
<1>5. Sum(f) = Sum(g)
  BY <1>1, <1>2, <1>4, SumWithin
<1> QED
  BY <1>3, <1>5 DEF f, S

\* The balance as paymentChangeUncoversRefunds reads it is what the pool is worth.
LEMMA PoolFloorIs ==
    ASSUME MoneyRows, OtherRows, NoPaymentOverspent, NEW a
    PROVE  PoolFloor(a) = Worth(a) - Debt(a)
<1> DEFINE S == PaymentsOf(a)
           f == [p \in S |-> Free(p)]
           g == [p \in S |-> Spent(p)]
           h == [p \in S |-> payment[p].amount]
<1>1. S \subseteq Payments /\ IsFiniteSet(S)
  <2>1. S \subseteq Payments
    BY DEF PaymentsOf
  <2> QED
    BY <2>1, FiniteAssumption, FS_Subset
<1>2. ASSUME NEW p \in S
      PROVE  f[p] \in Nat /\ g[p] \in Nat /\ h[p] \in Nat /\ h[p] = f[p] + g[p]
  <2>1. payment[p].amount \in Nat /\ Spent(p) \in Nat /\ Spent(p) <= payment[p].amount
    BY <1>1, AmountsNat DEF NoPaymentOverspent
  <2> QED
    BY <2>1 DEF Free, AtLeastZero
<1>3. f \in [S -> Nat] /\ g \in [S -> Nat] /\ h \in [S -> Nat]
  BY <1>2
<1>4. PoolFloor(a) = Sum(h) - Sum(g) - Refunded(a) /\ Sum(f) = Worth(a)
  BY WorthIs DEF PoolFloor
<1> HIDE DEF f, g, h, S
<1>5. \A p \in S : h[p] = f[p] + g[p]
  BY <1>2
<1>6. Sum(h) = Sum(f) + Sum(g)
  BY <1>1, <1>3, <1>5, SumPlus
<1>7. Sum(f) \in Nat /\ Sum(g) \in Nat /\ Debt(a) \in Nat /\ Refunded(a) = Debt(a)
  BY <1>1, <1>3, SumNat, DebtNat, DebtIs
<1> QED
  BY <1>4, <1>6, <1>7

\* splitAvailableBalance: what refunds draw on each payment, when the pool has
\* it, comes to all they take.
LEMMA RefundsDraw ==
    ASSUME MoneyRows, OtherRows, NEW a, Debt(a) <= Worth(a)
    PROVE  \E o \in [PaymentsOf(a) -> Nat] :
              /\ \A p \in PaymentsOf(a) : Available(p) \in Nat /\ Available(p) + o[p] = Free(p)
              /\ Debt(a) <= Sum(o)
<1> DEFINE S == PaymentsOf(a)
           f == [p \in S |-> Free(p)]
           T == [p \in S |-> Sum([q \in After(S, p) |-> Free(q)])]
           o == [p \in S |-> Overlap(T[p], f[p], 0, Debt(a))]
<1>0. S \in SUBSET Nat /\ IsFiniteSet(S) /\ S \in SUBSET Payments
  <2>1. S \subseteq Payments
    BY DEF PaymentsOf
  <2> QED
    BY <2>1, NumbersAssumption, FiniteAssumption, FS_Subset
<1>1. f \in [S -> Nat] /\ \A p \in S : f[p] = Free(p)
  BY FreeNat, <1>0
<1>2. \A p \in S : T[p] = Sum([q \in After(S, p) |-> f[q]])
  <2>1. ASSUME NEW p \in S
        PROVE  [q \in After(S, p) |-> f[q]] = [q \in After(S, p) |-> Free(q)]
    BY DEF After
  <2> QED
    BY <2>1
<1>3. \A p \in S : Available(p) = Free(p) - Smaller(Free(p), AtLeastZero(Refunded(a) - T[p]))
  BY DEF Available, PaymentsOf
<1>4. \A p \in S : o[p] = Overlap(T[p], f[p], 0, Debt(a))
  OBVIOUS
<1>5. Sum(f) = Worth(a)
  BY WorthIs
<1>6. Debt(a) \in Nat /\ Refunded(a) = Debt(a)
  BY DebtNat, DebtIs
<1>7. o = [p \in S |-> o[p]]
  OBVIOUS
<1> HIDE DEF f, T, o, S
<1>8. (\A p \in S : T[p] \in Nat) /\ LaidOut(S, T, f)
  BY <1>0, <1>1, <1>2, AfterLaysOut
<1>9. ASSUME NEW p \in S
      PROVE  o[p] \in Nat /\ Available(p) \in Nat /\ Available(p) + o[p] = Free(p)
  <2>1. T[p] \in Nat /\ f[p] \in Nat /\ f[p] = Free(p)
    BY <1>1, <1>8
  <2>2. o[p] = Overlap(T[p], f[p], 0, Debt(a)) /\ Available(p) = f[p] - Smaller(f[p], AtLeastZero(Debt(a) - T[p]))
    BY <1>3, <1>4, <1>6, <2>1
  <2>3. \A x, t, r \in Nat : /\ Overlap(t, x, 0, r) \in Nat
                             /\ x - Smaller(x, AtLeastZero(r - t)) \in Nat
                             /\ x - Smaller(x, AtLeastZero(r - t)) + Overlap(t, x, 0, r) = x
    BY DEF Overlap, Smaller, AtLeastZero
  <2>4. /\ Overlap(T[p], f[p], 0, Debt(a)) \in Nat
        /\ f[p] - Smaller(f[p], AtLeastZero(Debt(a) - T[p])) \in Nat
        /\ f[p] - Smaller(f[p], AtLeastZero(Debt(a) - T[p])) + Overlap(T[p], f[p], 0, Debt(a)) = f[p]
    <3> HIDE DEF T, f
    <3> QED
      BY <1>6, <2>1, <2>3, Zenon
  <2> QED
    BY <2>1, <2>2, <2>4
<1>10. o \in [S -> Nat]
  BY <1>7, <1>9
<1>11. Debt(a) <= Sum(o)
  <2>1. Debt(a) <= Sum(f)
    BY <1>5
  <2>2. IsFiniteSet(S) /\ f \in [S -> Nat]
    BY <1>0, <1>1
  <2> QED
    BY <1>4, <1>6, <1>8, <1>10, <2>1, <2>2, StretchesCover
<1>12. \A p \in S : Available(p) \in Nat /\ Available(p) + o[p] = Free(p)
  BY <1>9
<1> QED
  BY <1>10, <1>11, <1>12 DEF S

\* So what is available and what refunds take fit in it together,
LEMMA AvailableFits ==
    ASSUME MoneyRows, OtherRows, NEW a, Debt(a) <= Worth(a)
    PROVE  AvailableBalance(a) \in Nat /\ AvailableBalance(a) + Debt(a) <= Worth(a)
<1>1. PICK o \in [PaymentsOf(a) -> Nat] :
              /\ \A p \in PaymentsOf(a) : Available(p) \in Nat /\ Available(p) + o[p] = Free(p)
              /\ Debt(a) <= Sum(o)
  BY RefundsDraw
<1> DEFINE S == PaymentsOf(a)
           f == [p \in S |-> Available(p)]
           h == [p \in S |-> Free(p)]
<1>2. IsFiniteSet(S) /\ S \subseteq Payments
  <2>1. S \subseteq Payments
    BY DEF PaymentsOf
  <2> QED
    BY <2>1, FiniteAssumption, FS_Subset
<1>3. f \in [S -> Nat] /\ o \in [S -> Nat]
  BY <1>1
<1>4. h \in [S -> Nat]
  BY <1>2, FreeNat
<1>5. \A p \in S : h[p] = f[p] + o[p]
  BY <1>1
<1>6. AvailableBalance(a) = Sum(f) /\ Sum(h) = Worth(a)
  BY WorthIs DEF AvailableBalance
<1> HIDE DEF S, f, h
<1>7. Sum(h) = Sum(f) + Sum(o)
  BY <1>2, <1>3, <1>4, <1>5, SumPlus
<1>8. Sum(f) \in Nat /\ Sum(o) \in Nat /\ Debt(a) \in Nat
  BY <1>2, <1>3, SumNat, DebtNat
<1> QED
  BY <1>1, <1>6, <1>7, <1>8

\* and a spread leaves what they take, and overspends no payment.
LEMMA SpreadLeaves ==
    ASSUME MoneyRows, OtherRows, NoPaymentOverspent, NEW a, Debt(a) <= Worth(a),
           NEW need \in [Inscriptions -> Nat],
           NEW left \in [Payments -> Nat],
           \A p \in Payments : left[p] = IF p \in PaymentsOf(a)
               THEN AtLeastZero(payment[p].amount - From(Applied(Spread(need, a)), p)) ELSE 0
    PROVE  /\ \A p \in PaymentsOf(a) : payment[p].amount - From(Applied(Spread(need, a)), p) >= 0
           /\ Debt(a) <= Sum(left)
<1> DEFINE S == PaymentsOf(a)
<1>1. PICK o \in [S -> Nat] :
              /\ \A p \in S : Available(p) \in Nat /\ Available(p) + o[p] = Free(p)
              /\ Debt(a) <= Sum(o)
  BY RefundsDraw
<1> DEFINE g == [p \in Payments |-> IF p \in S THEN o[p] ELSE 0]
<1>2. S \in SUBSET Payments
  BY DEF PaymentsOf
<1>3. o \in [S -> Nat] /\ g \in [Payments -> Nat] /\ \A p \in Payments : g[p] = IF p \in S THEN o[p] ELSE 0
  BY <1>1
<1>4. ASSUME NEW p \in S
      PROVE  From(Applied(Spread(need, a)), p) \in Nat
  <2>1. Spread(need, a) \in [Payments -> [Inscriptions -> Int]]
    BY SpreadIs
  <2>2. Applied(Spread(need, a)) \in Allocations
    BY <2>1, AllocatedIs, WithIs DEF Applied
  <2> QED
    BY <1>2, <2>2, FromNat
<1>5. ASSUME NEW p \in S
      PROVE  payment[p].amount - From(Applied(Spread(need, a)), p) >= o[p] /\ o[p] \in Nat
  <2>1. From(Applied(Spread(need, a)), p) <= Spent(p) + Available(p)
    BY <1>2, SpreadFromPayment
  <2>2. payment[p].amount \in Nat /\ Spent(p) \in Nat /\ Spent(p) <= payment[p].amount
    BY <1>2, AmountsNat DEF NoPaymentOverspent
  <2>3. Free(p) = payment[p].amount - Spent(p)
    BY <2>2 DEF Free, AtLeastZero
  <2>4. Available(p) \in Nat /\ Available(p) + o[p] = Free(p) /\ o[p] \in Nat
    BY <1>1
  <2> QED
    BY <1>4, <2>1, <2>2, <2>3, <2>4
<1>6. \A p \in S : payment[p].amount \in Nat
  BY <1>2, AmountsNat
<1>7. ASSUME NEW p \in Payments
      PROVE  g[p] <= left[p]
  <2>1. CASE p \in S
    <3>1. left[p] = AtLeastZero(payment[p].amount - From(Applied(Spread(need, a)), p)) /\ g[p] = o[p]
      BY <2>1
    <3> QED
      BY <1>4, <1>5, <1>6, <2>1, <3>1 DEF AtLeastZero
  <2>2. CASE p \notin S
    BY <2>2
  <2> QED
    BY <2>1, <2>2
<1>8. \A p \in S : payment[p].amount - From(Applied(Spread(need, a)), p) >= 0
  BY <1>4, <1>5, <1>6
<1>9. IsFiniteSet(Payments) /\ IsFiniteSet(S)
  BY <1>2, FiniteAssumption, FS_Subset
<1> HIDE DEF S, g
<1>10. Sum(o) = Sum(g)
  BY <1>2, <1>3, <1>9, SumWithin
<1>11. Sum(g) <= Sum(left)
  BY <1>3, <1>7, <1>9, SumMono
<1>12. Sum(g) \in Nat /\ Sum(left) \in Nat /\ Debt(a) \in Nat
  BY <1>3, <1>9, SumNat, DebtNat
<1>13. Debt(a) <= Sum(left)
  BY <1>1, <1>10, <1>11, <1>12
<1> QED
  BY <1>8, <1>13 DEF S

-----------------------------------------------------------------------------
\* WHAT ROWS HOLD: THE INDUCTIVE INVARIANT

\* Money on a row fits when it is within the Total of the price that applies, or of
\* a stored price that it covered while it was within that one.
Within(price, now, money) ==
    \/ money <= TotalAt[now]
    \/ price # None /\ DepositAt[price] <= TotalAt[now] /\ money <= TotalAt[price]

\* Nothing changes the deposit a withdrawn row was measured by.
Fixed == "reprice" \notin Operations \/ \A p, q \in Prices : DepositAt[p] = DepositAt[q]
Retains(i, money) == \E p \in {stored[i], today[i]} \ {None} : money <= DepositAt[p]

SoundRow(i) ==
    /\ Fixed /\ roster[i] = "withdrawn" => Retains(i, Held(i))
    /\ i \in waived => Held(i) = 0
    /\ "reprice" \notin Operations => Within(stored[i], today[i], Held(i))

\* What a row will hold once a call's moves are written, and what it will hold at
\* least once a call at its pool's lock goes on.
HeldAfter(c, i) == On(With(allocated, call[c].moves), i)
About(c, i) == IF call[c].at = "write" THEN HeldAfter(c, i) ELSE Money(c, i)

\* A removal that is about to write leaves a deposit at most on what it withdraws;
\* a seminar's removes one row.
Releasing(c) ==
    /\ call[c].op = "remove-seminar-row" => \A i, j \in call[c].rows : i = j
    /\ Fixed /\ call[c].op \in Removals /\ call[c].at = "write" =>
          \A i \in call[c].rows \ call[c].cut : roster[i] = "deleted" \/ Retains(i, HeldAfter(c, i))

\* What a call is about to put on a row fits the price it stores with it, while no
\* price moves, and is put on none that a waiver marks.
Funding(c) ==
    call[c].op \in Payers /\ call[c].at \in {"pool", "write"} =>
        \A i \in call[c].rows :
            /\ i \notin waived
            /\ "reprice" \notin Operations => Within(StoredBy(c, i), today[i], About(c, i))

RowSums == (\A i \in Inscriptions : SoundRow(i)) /\ \A c \in Calls : Releasing(c) /\ Funding(c)

RowTables == <<allocated, roster, waived, stored, today>>

\* Less money fits too.
LEMMA WithinFalls ==
    ASSUME NEW price \in Prices \cup {None}, NEW now \in Prices, NEW money \in Nat, NEW less \in Nat,
           Within(price, now, money), less <= money
    PROVE  Within(price, now, less)
<1>1. TotalAt[now] \in Nat /\ (price # None => TotalAt[price] \in Nat)
  BY PriceAssumption
<1> QED
  BY <1>1 DEF Within

\* And so does more, within the Total of the price the row is read at.
LEMMA WithinGrows ==
    ASSUME NEW price \in Prices \cup {None}, NEW now \in Prices, NEW money \in Nat, NEW n \in Nat,
           Within(price, now, money), money + n <= TotalAt[Effective(price, now, money)]
    PROVE  Within(price, now, money + n)
<1>1. TotalAt[now] \in Nat /\ (price # None => TotalAt[price] \in Nat /\ DepositAt[price] \in Nat)
  BY PriceAssumption
<1>2. CASE Covers(price, money)
  <2>1. price # None /\ DepositAt[price] <= money /\ money + n <= TotalAt[price]
    BY <1>2 DEF Covers, Effective
  <2>2. DepositAt[price] <= TotalAt[now]
    BY <1>1, <2>1 DEF Within
  <2> QED
    BY <2>1, <2>2 DEF Within
<1>3. CASE ~Covers(price, money)
  BY <1>3 DEF Effective, Within
<1> QED
  BY <1>2, <1>3

\* Below its deposit a row may store any price.
LEMMA WithinRepicks ==
    ASSUME NEW price \in Prices \cup {None}, NEW now \in Prices, NEW money \in Nat, NEW other,
           Within(price, now, money), ~Covers(price, money)
    PROVE  Within(other, now, money)
<1>1. TotalAt[now] \in Nat /\ (price # None => TotalAt[price] \in Nat /\ DepositAt[price] \in Nat)
  BY PriceAssumption
<1>2. money <= TotalAt[now]
  BY <1>1 DEF Within, Covers
<1> QED
  BY <1>2 DEF Within

LEMMA RetainsFalls ==
    ASSUME PriceInv, NEW i \in Inscriptions, NEW money \in Nat, NEW less \in Nat, Retains(i, money), less <= money
    PROVE  Retains(i, less)
<1>1. \A p \in {stored[i], today[i]} \ {None} : DepositAt[p] \in Nat
  BY PriceAssumption DEF PriceInv
<1> QED
  BY <1>1 DEF Retains

\* What a row holds, and may come to hold, is a natural.
LEMMA AboutNat ==
    ASSUME MoneyInv, NEW c \in Calls, NEW i \in Inscriptions
    PROVE  Held(i) \in Nat /\ Money(c, i) \in Nat /\ HeldAfter(c, i) \in Nat /\ About(c, i) \in Nat
<1>1. /\ allocated \in Allocations /\ call[c].moves \in [Payments -> [Inscriptions -> Int]]
      /\ call[c].need[i] \in Nat
  BY AllocatedIs DEF MoneyInv, MoneyCall, Moving, Planning
<1>2. Held(i) \in Nat
  BY HeldNat DEF MoneyInv
<1>3. Money(c, i) \in Nat
  BY <1>1, <1>2 DEF Money
<1>4. HeldAfter(c, i) \in Nat
  <2>1. With(allocated, call[c].moves) \in Allocations
    BY <1>1, WithIs
  <2> QED
    BY <2>1, OnNat DEF HeldAfter
<1> QED
  BY <1>2, <1>3, <1>4 DEF About

-----------------------------------------------------------------------------
\* THE OTHER CALLS

\* A call beside a write that only takes from the rows it holds.
LEMMA RowsBeside ==
    ASSUME PriceInv, MoneyInv, MoneyRows', NEW d \in Calls, call'[d] = call[d], Releasing(d), Funding(d),
           today' = today,
           \A i \in Inscriptions : RowHeld(d, i) => /\ \A p \in Payments : allocated'[p][i] <= allocated[p][i]
                                                    /\ i \in waived' => i \in waived
                                                    /\ stored'[i] = stored[i],
           \A i \in Inscriptions : roster[i] = "deleted" => roster'[i] = "deleted"
    PROVE  Releasing(d)' /\ Funding(d)'
<1>1. MoneyCall(d) /\ MoneyRows
  BY DEF MoneyInv
<1>2. call[d].moves \in [Payments -> [Inscriptions -> Int]] /\ call[d].rows \subseteq Inscriptions
      /\ call[d].need \in [Inscriptions -> Nat]
  BY <1>1 DEF MoneyCall, Moving, Shaped, Planning
<1>3. allocated \in Allocations /\ allocated' \in Allocations
  BY <1>1 DEF MoneyRows, Allocations
<1>4. ASSUME NEW i \in Inscriptions, RowHeld(d, i)
      PROVE  /\ HeldAfter(d, i)' <= HeldAfter(d, i) /\ HeldAfter(d, i)' \in Nat /\ HeldAfter(d, i) \in Nat
             /\ Money(d, i)' <= Money(d, i) /\ Money(d, i)' \in Nat /\ Money(d, i) \in Nat
  <2>1. \A p \in Payments : allocated'[p][i] <= allocated[p][i]
    BY <1>4
  <2>2. On(With(allocated', call[d].moves), i) <= On(With(allocated, call[d].moves), i)
    BY <1>2, <1>3, <2>1, WithFalls
  <2>3. On(allocated', i) <= On(allocated, i)
    BY <1>3, <2>1, OnMono
  <2>4. With(allocated', call[d].moves) \in Allocations /\ With(allocated, call[d].moves) \in Allocations
    BY <1>2, <1>3, WithIs
  <2>5. /\ On(With(allocated', call[d].moves), i) \in Nat /\ On(With(allocated, call[d].moves), i) \in Nat
        /\ On(allocated', i) \in Nat /\ On(allocated, i) \in Nat
    BY <1>3, <2>4, OnNat
  <2>6. /\ HeldAfter(d, i)' = On(With(allocated', call[d].moves), i)
        /\ HeldAfter(d, i) = On(With(allocated, call[d].moves), i)
    BY DEF HeldAfter
  <2>7. /\ Money(d, i)' = On(allocated', i) + call[d].need[i] /\ Money(d, i) = On(allocated, i) + call[d].need[i]
    BY DEF Money, Held, On
  <2>8. call[d].need[i] \in Nat
    BY <1>2
  <2> QED
    BY <2>2, <2>3, <2>5, <2>6, <2>7, <2>8
<1>5. Releasing(d)'
  <2> SUFFICES ASSUME Fixed, call[d].op \in Removals, call[d].at = "write", NEW i \in call[d].rows \ call[d].cut
               PROVE  roster'[i] = "deleted" \/ Retains(i, HeldAfter(d, i))'
    BY DEF Releasing
  <2>1. i \in Inscriptions /\ RowHeld(d, i)
    BY <1>1, <1>2 DEF MoneyCall, Removing
  <2>2. roster[i] = "deleted" \/ Retains(i, HeldAfter(d, i))
    BY DEF Releasing
  <2>3. roster[i] = "deleted" \/ Retains(i, HeldAfter(d, i)')
    BY <1>4, <2>1, <2>2, RetainsFalls
  <2>4. stored'[i] = stored[i] /\ today'[i] = today[i]
    BY <2>1
  <2> QED
    BY <2>1, <2>3, <2>4 DEF Retains
<1>6. Funding(d)'
  <2> SUFFICES ASSUME call[d].op \in Payers, call[d].at \in {"pool", "write"}, NEW i \in call[d].rows
               PROVE  /\ i \notin waived'
                      /\ "reprice" \notin Operations => Within(StoredBy(d, i)', today'[i], About(d, i)')
    BY DEF Funding
  <2>1. call[d].op \in Movers
    BY DEF Payers, Movers, Gestures
  <2>2. i \in Inscriptions /\ RowHeld(d, i)
    BY <1>1, <1>2, <2>1 DEF MoneyCall, Planning
  <2>3. i \notin waived /\ ("reprice" \notin Operations => Within(StoredBy(d, i), today[i], About(d, i)))
    BY DEF Funding
  <2>4. StoredBy(d, i)' = StoredBy(d, i) /\ today'[i] = today[i]
    BY <2>2 DEF StoredBy
  <2>5. About(d, i)' \in Nat /\ About(d, i) \in Nat /\ About(d, i)' <= About(d, i)
    BY <1>4, <2>2 DEF About
  <2>6. StoredBy(d, i) \in Prices \cup {None} /\ today[i] \in Prices
    BY <2>2, PricesRead
  <2>7. "reprice" \notin Operations => Within(StoredBy(d, i), today[i], About(d, i)')
    BY <2>3, <2>5, <2>6, WithinFalls
  <2> QED
    BY <2>2, <2>3, <2>4, <2>7
<1> QED
  BY <1>5, <1>6

\* When none of these rows change, what was sound is.
LEMMA RowsSame ==
    ASSUME RowSums, UNCHANGED RowTables
    PROVE  /\ \A i \in Inscriptions : SoundRow(i)'
           /\ \A d \in Calls : call'[d] = call[d] => Releasing(d)' /\ Funding(d)'
<1>1. UNCHANGED <<allocated, roster, waived, stored, today>>
  BY DEF RowTables
<1>2. ASSUME NEW i \in Inscriptions
      PROVE  SoundRow(i)'
  <2>1. SoundRow(i) /\ Held(i)' = Held(i)
    BY <1>1 DEF RowSums, Held
  <2> QED
    BY <1>1, <2>1 DEF SoundRow, Retains
<1>3. ASSUME NEW d \in Calls, call'[d] = call[d]
      PROVE  Releasing(d)' /\ Funding(d)'
  <2>1. Releasing(d) /\ Funding(d)
    BY DEF RowSums
  <2>2. Releasing(d)'
    BY <1>1, <1>3, <2>1 DEF Releasing, HeldAfter, Retains
  <2>3. \A i : About(d, i)' = About(d, i) /\ StoredBy(d, i)' = StoredBy(d, i)
    BY <1>1, <1>3 DEF About, HeldAfter, Money, Held, StoredBy
  <2>4. Funding(d)'
    BY <1>1, <1>3, <2>1, <2>3 DEF Funding
  <2> QED
    BY <2>2, <2>4
<1> QED
  BY <1>2, <1>3

\* Then one call's part is enough.
LEMMA RowsQuiet ==
    ASSUME RowSums, NEW c \in Calls, \A d \in Calls \ {c} : call'[d] = call[d], UNCHANGED RowTables,
           Releasing(c)', Funding(c)'
    PROVE  RowSums'
BY RowsSame DEF RowSums

\* A call that is no payer's, and no removal's with something to say.
LEMMA RowsOther ==
    ASSUME IInv, RowSums, NEW c \in Calls, NEW fields, Become(c, fields), UNCHANGED RowTables,
           fields.at \notin {"pool", "write"} \/ fields.op \notin Payers \cup Removals,
           fields.op = "remove-seminar-row" => \A i, j \in fields.rows : i = j
    PROVE  RowSums'
<1>1. call'[c] = fields /\ \A d \in Calls \ {c} : call'[d] = call[d]
  BY DEF IInv, CallsInv, Become
<1>2. Releasing(c)' /\ Funding(c)'
  BY <1>1 DEF Releasing, Funding
<1> QED
  BY <1>1, <1>2, RowsQuiet

\* No call moves.
LEMMA RowsIdle ==
    ASSUME RowSums, UNCHANGED call, UNCHANGED RowTables
    PROVE  RowSums'
BY RowsSame DEF RowSums

\* A call that ends has nothing left to write to a row.
LEMMA RowsEnd ==
    ASSUME IInv, RowSums, NEW c \in Calls, End(c), UNCHANGED RowTables
    PROVE  RowSums'
<1>1. Become(c, NoCall)
  BY DEF End, Become
<1>2. NoCall.op = "none" /\ NoCall.at = "idle"
  BY DEF NoCall
<1> QED
  BY <1>1, <1>2, RowsOther

\* A refused call ends.
LEMMA RowsRefused ==
    ASSUME IInv, RowSums, NEW c \in Calls, Refuse(c)
    PROVE  RowSums'
BY RowsEnd DEF Refuse, rows, RowTables

-----------------------------------------------------------------------------
\* A CALL BEGINS

\* What the sums count on when a call begins.
LEMMA Starts ==
    ASSUME IInv, NEW c \in Calls, Start(c)
    PROVE  /\ Framed(c) /\ UNCHANGED rows /\ call'[c].at # "write"
           /\ call'[c].at = "pool" => call'[c].op \notin Payers \cup Removals
           /\ call'[c].op = "remove-seminar-row" => \A i, j \in call'[c].rows : i = j
           /\ call'[c].op = "delete-refund" => call'[c].n = 0
<1> USE DEF NoCall
<1> DEFINE Fresh(fields) == /\ fields.at # "write"
                            /\ fields.at = "pool" => fields.op \notin Payers \cup Removals
                            /\ fields.op = "remove-seminar-row" => \A i, j \in fields.rows : i = j
                            /\ fields.op = "delete-refund" => fields.n = 0
<1>1. ASSUME NEW fields, Begin(c, fields), DOMAIN fields = DOMAIN NoCall, Fresh(fields)
      PROVE  Framed(c) /\ UNCHANGED rows /\ Fresh(call'[c])
  <2>1. Framed(c) /\ call'[c] = fields /\ UNCHANGED rows
    BY <1>1, BecomeMoves DEF IInv, Begin, Become
  <2> QED
    BY <1>1, <2>1
<1>2. ASSUME NEW fields, Become(c, fields), DOMAIN fields = DOMAIN NoCall, NEW S, Acquire(c, S),
             UNCHANGED rows, Fresh(fields)
      PROVE  Framed(c) /\ UNCHANGED rows /\ Fresh(call'[c])
  <2>1. Framed(c) /\ call'[c] = fields
    BY <1>2, AcquireMoves DEF IInv
  <2> QED
    BY <1>2, <2>1
<1> DEFINE Goal == Framed(c) /\ UNCHANGED rows /\ Fresh(call'[c])
<1>3. ASSUME NEW op \in Gestures, NEW i \in Inscriptions, NEW n \in Amount, NEW pick \in Prices \cup {None},
             StartGesture(c, op, i, n, pick)
      PROVE  Goal
  BY <1>1, <1>3 DEF StartGesture, Gestures
<1>4. ASSUME NEW op \in Charges, NEW u \in Units, NEW pick \in Prices \cup {None}, StartCharge(c, op, u, pick)
      PROVE  Goal
  BY <1>1, <1>4 DEF StartCharge, Charges
<1>5. ASSUME NEW u \in Units, NEW R \in SUBSET Inscriptions, StartRosterSync(c, u, R)
      PROVE  Goal
  BY <1>1, <1>5 DEF StartRosterSync
<1>6. ASSUME NEW u \in Units, StartChoreographyRemoval(c, u)
      PROVE  Goal
  BY <1>1, <1>6 DEF StartChoreographyRemoval
<1>7. ASSUME NEW i \in Inscriptions, StartSeminarRemoval(c, i)
      PROVE  Goal
  BY <1>1, <1>7 DEF StartSeminarRemoval
<1>8. ASSUME NEW u \in Units, NEW S \in SUBSET Inscriptions, StartEmission(c, u, S)
      PROVE  Goal
  <2> DEFINE fields == [NoCall EXCEPT !.op = "emit", !.at = "reserve", !.unit = u, !.rows = S, !.scope = academyOf[u]]
             T == {<<"anchor", u>>}
  <2>1. Become(c, fields) /\ Acquire(c, T) /\ UNCHANGED rows
    BY <1>8 DEF StartEmission
  <2>2. DOMAIN fields = DOMAIN NoCall /\ Fresh(fields)
    OBVIOUS
  <2> HIDE DEF fields, T, Fresh
  <2> QED
    BY <1>2, <2>1, <2>2
<1>9. ASSUME NEW p \in Payments, NEW a \in Academies, NEW n, NEW op \in PaymentChanges,
             StartPaymentChange(c, op, p, n, a)
      PROVE  Goal
  BY <1>1, <1>9 DEF StartPaymentChange, PaymentChanges, Payers, Charges, Removals
<1>10. ASSUME NEW a \in Academies, NEW n \in Amounts, StartRefund(c, a, n)
       PROVE  Goal
  BY <1>1, <1>10 DEF StartRefund, Payers, Charges, Removals
<1>11. ASSUME NEW op \in RefundChanges \ {"register-refund"}, NEW r \in Refunds, NEW n \in Amount,
              StartRefundChange(c, op, r, n)
       PROVE  Goal
  <2>1. op \in {"edit-refund", "delete-refund"} /\ n \in Nat
    BY PriceAssumption DEF RefundChanges, Amount
  <2>2. op = "delete-refund" => n = 0
    BY <1>11, <2>1 DEF StartRefundChange
  <2> QED
    BY <1>1, <1>11, <2>1, <2>2 DEF StartRefundChange, Payers, Charges, Removals
<1>12. ASSUME NEW a \in Academies, NEW b \in Academies, StartMerge(c, a, b)
       PROVE  Goal
  BY <1>1, <1>12 DEF StartMerge, Payers, Charges, Removals
<1> HIDE DEF Goal
<1>13. Goal
  BY <1>3, <1>4, <1>5, <1>6, <1>7, <1>8, <1>9, <1>10, <1>11, <1>12 DEF Start, PaymentChanges
<1> QED
  BY <1>13 DEF Goal

\* A call that begins is about nobody's money yet.
LEMMA RowsStart ==
    ASSUME IInv, RowSums, NEW c \in Calls, Start(c)
    PROVE  RowSums'
<1>1. /\ Framed(c) /\ UNCHANGED rows /\ call'[c].at # "write"
      /\ call'[c].at = "pool" => call'[c].op \notin Payers \cup Removals
      /\ call'[c].op = "remove-seminar-row" => \A i, j \in call'[c].rows : i = j
  BY Starts
<1>2. UNCHANGED RowTables
  BY <1>1 DEF rows, RowTables
<1>3. Releasing(c)' /\ Funding(c)'
  BY <1>1 DEF Releasing, Funding
<1> QED
  BY <1>1, <1>2, <1>3, RowsQuiet DEF Framed

-----------------------------------------------------------------------------
\* A CALL PLANS

\* At the price it takes, a row fits what it holds.
LEMMA TakenFits ==
    ASSUME PriceInv, MoneyInv, RowSums, NEW c \in Calls, NEW i \in Inscriptions, "reprice" \notin Operations
    PROVE  Within(Taken(c, i), today[i], Held(i))
<1>1. Held(i) \in Nat /\ stored[i] \in Prices \cup {None} /\ today[i] \in Prices
  BY AboutNat, HeldNat, PricesRead DEF MoneyInv
<1>2. Within(stored[i], today[i], Held(i))
  BY DEF RowSums, SoundRow
<1>3. CASE Crossed(i) \/ call[c].pick = None
  BY <1>2, <1>3 DEF Taken
<1>4. CASE ~Crossed(i)
  <2>1. ~Covers(stored[i], Held(i))
    BY <1>4 DEF Crossed
  <2> QED
    BY <1>1, <1>2, <2>1, WithinRepicks
<1> QED
  BY <1>3, <1>4

\* The price a charge takes is the one it will leave.
LEMMA TakenIs ==
    ASSUME NEW c \in Calls, NEW i \in Charged(c)
    PROVE  Taken(c, i) = IF call[c].pick # None /\ i \in OnPrice(c) THEN call[c].pick ELSE stored[i]
BY DEF Taken, OnPrice

\* A payment gesture plans no more than the row may take.
LEMMA RowsReadGesture ==
    ASSUME IInv, PriceInv, MoneyInv, RowSums, NEW c \in Calls, NEW i \in Inscriptions, ReadGesture(c, i)
    PROVE  RowSums'
<1>1. CASE Refuse(c)
  BY <1>1, RowsRefused
<1>2. CASE ~Refuse(c)
  <2> DEFINE amount == GestureAmount(c, i)
             below == IF Crossed(i) THEN {} ELSE {i}
             fields == [call[c] EXCEPT !.at = "pool", !.need[i] = amount, !.onPrice = below]
  <2>1. /\ call[c].op \in Gestures /\ i \in call[c].rows /\ roster[i] # "deleted" /\ amount > 0
        /\ Become(c, fields) /\ UNCHANGED <<rows, held>>
    BY <1>2 DEF ReadGesture
  <2>2. /\ MoneyCall(c) /\ DOMAIN call[c] = DOMAIN NoCall /\ call[c].need \in [Inscriptions -> Nat]
        /\ call'[c] = fields /\ \A d \in Calls \ {c} : call'[d] = call[d]
    BY <2>1 DEF MoneyInv, MoneyCall, Planning, IInv, CallsInv, Become
  <2>3. /\ fields.op = call[c].op /\ fields.at = "pool" /\ fields.need[i] = amount
        /\ fields.rows = call[c].rows /\ fields.pick = call[c].pick /\ fields.onPrice = below
    BY <2>2 DEF NoCall
  <2>4. UNCHANGED RowTables
    BY <2>1 DEF rows, RowTables
  <2>5. call[c].op = "allocate" =>
            /\ i \notin waived /\ amount \in Nat
            /\ Held(i) + amount <= TotalAt[Effective(Taken(c, i), today[i], Held(i))]
    BY <2>1, <2>2, PriceAssumption DEF GestureAmount, Allocates, MoneyCall, Shaped, Amount
  <2>6. (IF call[c].pick # None /\ i \in below THEN call[c].pick ELSE stored[i]) = Taken(c, i)
    BY DEF Taken
  <2> HIDE DEF fields, amount, below
  <2>7. \A j \in call[c].rows : j = i
    BY <2>1, <2>2 DEF MoneyCall, Planning
  <2>8. stored' = stored /\ today' = today /\ waived' = waived /\ Held(i)' = Held(i)
    BY <2>4 DEF RowTables, Held
  <2>9. StoredBy(c, i)' = Taken(c, i) /\ About(c, i)' = Held(i) + amount
    BY <2>2, <2>3, <2>6, <2>8 DEF StoredBy, About, Money
  <2>10. Releasing(c)'
    BY <2>1, <2>2, <2>3 DEF Releasing, Gestures, Removals
  <2>11. Funding(c)'
    <3> SUFFICES ASSUME call[c].op = "allocate"
                 PROVE  /\ i \notin waived'
                        /\ "reprice" \notin Operations => Within(StoredBy(c, i)', today'[i], About(c, i)')
      BY <2>1, <2>2, <2>3, <2>7 DEF Funding, Payers, Gestures, Charges
    <3>1. Held(i) \in Nat /\ Taken(c, i) \in Prices \cup {None} /\ today[i] \in Prices
      BY HeldNat, PricesRead DEF MoneyInv
    <3>2. "reprice" \notin Operations => Within(Taken(c, i), today[i], Held(i))
      BY TakenFits
    <3>3. "reprice" \notin Operations => Within(Taken(c, i), today[i], Held(i) + amount)
      BY <2>5, <3>1, <3>2, WithinGrows
    <3> QED
      BY <2>5, <2>8, <2>9, <3>3
  <2> QED
    BY <2>2, <2>4, <2>10, <2>11, RowsQuiet
<1> QED
  BY <1>1, <1>2

\* What a charge plans before the pool's lock, when it does not refuse.
FirstNeed(c) == IF Covering(c) # {} THEN Cover(c) ELSE Opening(c)
ChargeBecomes(c, rate) == Become(c, [call[c] EXCEPT !.at = "pool", !.rows = Charged(c), !.onPrice = OnPrice(c),
                                                   !.need = FirstNeed(c), !.rate = rate])
LEMMA ChargePlans ==
    ASSUME CallsInv, NEW c \in Calls, ReadCharge(c), ~Refuse(c), ~End(c)
    PROVE  /\ ~ChargeRefused(c) /\ UNCHANGED <<rows, held>>
           /\ \E rate : ChargeBecomes(c, rate)
<1>1. DOMAIN call[c] = DOMAIN NoCall
  BY DEF CallsInv
<1>2. ~ChargeRefused(c) /\ UNCHANGED <<rows, held>>
  BY DEF ReadCharge
<1> DEFINE priced == [call[c] EXCEPT !.at = "pool", !.rows = Charged(c), !.onPrice = OnPrice(c)]
<1>3. CASE Covering(c) # {}
  <2>1. [priced EXCEPT !.need = FirstNeed(c)]
          = [call[c] EXCEPT !.at = "pool", !.rows = Charged(c), !.onPrice = OnPrice(c), !.need = FirstNeed(c),
                            !.rate = call[c].rate]
    BY <1>1 DEF NoCall
  <2>2. Become(c, [priced EXCEPT !.need = FirstNeed(c)])
    BY <1>3 DEF ReadCharge, FirstNeed
  <2>3. ChargeBecomes(c, call[c].rate)
    BY <2>1, <2>2 DEF ChargeBecomes
  <2> QED
    BY <1>2, <2>3
<1>4. CASE Covering(c) = {}
  <2> DEFINE rate == [i \in Inscriptions |-> Found(c, i)]
  <2>1. Become(c, [priced EXCEPT !.need = FirstNeed(c), !.rate = rate])
    BY <1>4 DEF ReadCharge, FirstNeed
  <2>2. ChargeBecomes(c, rate)
    BY <2>1 DEF ChargeBecomes
  <2> HIDE DEF rate
  <2> QED
    BY <1>2, <2>2
<1> QED
  BY <1>3, <1>4

\* It fits.
LEMMA ChargedFits ==
    ASSUME PriceInv, MoneyInv, RowSums, NEW c \in Calls, call[c].op \in Charges, ~ChargeRefused(c),
           NEW i \in Charged(c), "reprice" \notin Operations
    PROVE  Within(Taken(c, i), today[i], Held(i) + FirstNeed(c)[i])
<1>0. i \in Inscriptions /\ ~Overcharged(c, i)
  BY ChargedRows DEF ChargeRefused
<1>1. /\ Held(i) \in Nat /\ Taken(c, i) \in Prices \cup {None} /\ today[i] \in Prices
      /\ Within(Taken(c, i), today[i], Held(i))
  BY <1>0, HeldNat, PricesRead, TakenFits DEF MoneyInv
<1>2. /\ FirstNeed(c) \in [Inscriptions -> Nat]
      /\ Covering(c) # {} => FirstNeed(c) = Cover(c)
      /\ Covering(c) = {} => FirstNeed(c) = Opening(c)
  BY ChargedNat DEF FirstNeed
<1>3. CASE FirstNeed(c)[i] = 0
  BY <1>1, <1>3
<1>4. CASE FirstNeed(c)[i] # 0 /\ Covering(c) # {}
  <2>1. FirstNeed(c) = Cover(c) /\ i \in Covering(c)
    BY <1>0, <1>2, <1>4, ChargedNat
  <2>2. ~(Held(i) + FirstNeed(c)[i] > TotalAt[today[i]])
    BY <1>0, <1>4, <2>1 DEF Overcharged
  <2>3. TotalAt[today[i]] \in Nat /\ Held(i) + FirstNeed(c)[i] \in Nat
    BY <1>0, <1>1, <1>2, PriceAssumption
  <2>4. Held(i) + FirstNeed(c)[i] <= TotalAt[today[i]]
    BY <2>2, <2>3
  <2> QED
    BY <2>4 DEF Within
<1>5. CASE FirstNeed(c)[i] # 0 /\ Covering(c) = {}
  <2>1. FirstNeed(c) = Opening(c) /\ i \in First(Owing(c))
    BY <1>0, <1>2, <1>5, ChargedNat
  <2>2. ~(Held(i) + FirstNeed(c)[i] > TotalAt[Found(c, i)])
    BY <1>0, <1>5, <2>1 DEF Overcharged, First
  <2>3. TotalAt[Found(c, i)] \in Nat /\ Held(i) + FirstNeed(c)[i] \in Nat
    BY <1>0, <1>1, <1>2, PricesRead, PriceAssumption
  <2>4. Held(i) + FirstNeed(c)[i] <= TotalAt[Effective(Taken(c, i), today[i], Held(i))]
    BY <2>2, <2>3 DEF Found
  <2> QED
    BY <1>0, <1>1, <1>2, <2>4, WithinGrows
<1> QED
  BY <1>2, <1>3, <1>4, <1>5

\* A charge, which reads its rows under their locks, plans what fits each.
LEMMA RowsChargePlans ==
    ASSUME IInv, PriceInv, MoneyInv, RowSums, NEW c \in Calls, ReadCharge(c), ~Refuse(c), ~End(c)
    PROVE  RowSums'
<1>1. PICK rate : ChargeBecomes(c, rate)
  BY ChargePlans DEF IInv
<1>2. ~ChargeRefused(c) /\ UNCHANGED <<rows, held>> /\ call[c].op \in Charges
  <2>1. ~ChargeRefused(c) /\ UNCHANGED <<rows, held>>
    BY ChargePlans DEF IInv
  <2> QED
    BY <2>1 DEF ReadCharge
<1> DEFINE fields == [call[c] EXCEPT !.at = "pool", !.rows = Charged(c), !.onPrice = OnPrice(c),
                                     !.need = FirstNeed(c), !.rate = rate]
<1>3. /\ DOMAIN call[c] = DOMAIN NoCall
      /\ call'[c] = fields /\ \A d \in Calls \ {c} : call'[d] = call[d]
  BY <1>1 DEF ChargeBecomes, IInv, CallsInv, Become
<1>4. /\ fields.op = call[c].op /\ fields.at = "pool" /\ fields.need = FirstNeed(c)
      /\ fields.rows = Charged(c) /\ fields.onPrice = OnPrice(c) /\ fields.pick = call[c].pick
  BY <1>3 DEF NoCall
<1>5. UNCHANGED RowTables
  BY <1>2 DEF rows, RowTables
<1> HIDE DEF fields
<1>6. Releasing(c)'
  BY <1>2, <1>3, <1>4 DEF Releasing, Charges, Removals
<1>7. ASSUME NEW i \in Charged(c)
      PROVE  /\ i \notin waived'
             /\ "reprice" \notin Operations => Within(StoredBy(c, i)', today'[i], About(c, i)')
  <2>1. stored' = stored /\ today' = today /\ waived' = waived /\ Held(i)' = Held(i)
    BY <1>5 DEF RowTables, Held
  <2>2. StoredBy(c, i)' = Taken(c, i)
    BY <1>3, <1>4, <2>1, TakenIs DEF StoredBy
  <2>3. About(c, i)' = Held(i) + FirstNeed(c)[i]
    BY <1>3, <1>4, <2>1 DEF About, Money
  <2>4. i \notin waived
    BY <1>2, ChargedRows
  <2>5. "reprice" \notin Operations => Within(Taken(c, i), today[i], Held(i) + FirstNeed(c)[i])
    BY <1>2, ChargedFits
  <2> QED
    BY <2>1, <2>2, <2>3, <2>4, <2>5
<1>8. Funding(c)'
  BY <1>3, <1>4, <1>7 DEF Funding
<1> QED
  BY <1>3, <1>5, <1>6, <1>8, RowsQuiet

\* A plan, the rows a charge plans last included, fits what the rows may take.
LEMMA PlannedFits ==
    ASSUME PriceInv, MoneyInv, RowSums, NEW c \in Calls, call[c].op \in Payers, call[c].at = "pool",
           \A i \in Later(c) : Fits(c, i), NEW i \in call[c].rows, "reprice" \notin Operations
    PROVE  Within(StoredBy(c, i), today[i], Held(i) + Planned(c)[i])
<1>1. i \in Inscriptions
  BY DEF MoneyInv, MoneyCall, Shaped
<1>2. /\ Money(c, i) \in Nat /\ Rest(c, i) \in Nat /\ Planned(c)[i] = call[c].need[i] + Rest(c, i)
      /\ Held(i) \in Nat /\ call[c].need[i] \in Nat
  BY <1>1, PlannedRow, HeldNat DEF MoneyInv, MoneyCall, Planning
<1>3. StoredBy(c, i) \in Prices \cup {None} /\ today[i] \in Prices
  BY <1>1, PricesRead
<1>4. Within(StoredBy(c, i), today[i], Money(c, i))
  BY DEF RowSums, Funding, About
<1>5. Held(i) + Planned(c)[i] = Money(c, i) + Rest(c, i)
  BY <1>2 DEF Money
<1>6. CASE Rest(c, i) = 0
  BY <1>2, <1>4, <1>5, <1>6
<1>7. CASE Rest(c, i) # 0
  <2>1. i \in Later(c)
    BY <1>7 DEF Rest
  <2>2. Money(c, i) + Rest(c, i) <= TotalAt[Effective(StoredBy(c, i), today[i], Money(c, i))]
    BY <1>2, <1>7, <2>1 DEF Fits
  <2>3. Within(StoredBy(c, i), today[i], Money(c, i) + Rest(c, i))
    BY <1>2, <1>3, <1>4, <2>2, WithinGrows
  <2> QED
    BY <1>5, <2>3
<1> QED
  BY <1>6, <1>7

\* A call that has its pool goes on to write.
LEMMA PoolFields ==
    ASSUME IInv, NEW c \in Calls, NEW fields, WithPool(c, fields), DOMAIN fields = DOMAIN NoCall
    PROVE  /\ call'[c] = [fields EXCEPT !.at = "write"] /\ call'[c].at = "write"
           /\ call'[c].op = fields.op /\ call'[c].rows = fields.rows /\ call'[c].cut = fields.cut
           /\ call'[c].moves = fields.moves /\ call'[c].scope = fields.scope /\ call'[c].item = fields.item
           /\ call'[c].n = fields.n /\ call'[c].into = fields.into
           /\ call'[c].pick = fields.pick /\ call'[c].onPrice = fields.onPrice
           /\ (\A d \in Calls \ {c} : call'[d] = call[d]) /\ UNCHANGED rows
<1>1. /\ call'[c] = [fields EXCEPT !.at = "write"] /\ UNCHANGED rows
      /\ \A d \in Calls \ {c} : call'[d] = call[d]
  BY DEF WithPool, Become, IInv, CallsInv
<1> QED
  BY <1>1 DEF NoCall

\* A payer plans moves that put on its rows what it planned.
LEMMA RowsFundFromPool ==
    ASSUME IInv, PriceInv, MoneyInv, RowSums, NEW c \in Calls, FundFromPool(c)
    PROVE  RowSums'
<1>1. CASE Refuse(c)
  BY <1>1, RowsRefused
<1>2. CASE ~Refuse(c)
  <2> DEFINE plan == Planned(c)
             moves == Spread(plan, call[c].scope)
             fields == [call[c] EXCEPT !.moves = moves]
  <2>1. /\ call[c].op \in Payers /\ call[c].at = "pool" /\ WithPool(c, fields)
        /\ \A i \in Later(c) : Fits(c, i)
    BY <1>2 DEF FundFromPool, Payers, LockPool
  <2>2. /\ DOMAIN fields = DOMAIN NoCall /\ fields.op = call[c].op /\ fields.moves = moves
        /\ fields.rows = call[c].rows /\ fields.pick = call[c].pick /\ fields.onPrice = call[c].onPrice
    BY DEF IInv, CallsInv, NoCall
  <2>3. plan \in [Inscriptions -> Nat]
    BY PlannedNat
  <2>4. \A i \in call[c].rows : "reprice" \notin Operations => Within(StoredBy(c, i), today[i], Held(i) + plan[i])
    BY <2>1, PlannedFits
  <2> HIDE DEF plan
  <2>5. \A i \in Inscriptions : On(Applied(moves), i) <= Held(i) + plan[i]
    BY <2>3, SpreadOnRow DEF MoneyInv
  <2>6. \A i \in Inscriptions : On(Applied(moves), i) \in Nat
    <3>1. moves \in [Payments -> [Inscriptions -> Int]]
      BY <2>3, SpreadIs DEF MoneyInv
    <3> HIDE DEF moves
    <3>2. Applied(moves) \in Allocations
      BY <3>1, WithIs, AllocatedIs DEF Applied, MoneyInv
    <3> QED
      BY <3>2, OnNat
  <2> HIDE DEF fields, moves
  <2>7. /\ call'[c].op = call[c].op /\ call'[c].at = "write" /\ call'[c].moves = moves
        /\ call'[c].rows = call[c].rows /\ call'[c].pick = call[c].pick /\ call'[c].onPrice = call[c].onPrice
        /\ (\A d \in Calls \ {c} : call'[d] = call[d]) /\ UNCHANGED rows
    BY <2>1, <2>2, PoolFields
  <2>8. UNCHANGED RowTables
    BY <2>7 DEF rows, RowTables
  <2>9. stored' = stored /\ today' = today /\ waived' = waived /\ allocated' = allocated
    BY <2>8 DEF RowTables
  <2>10. \A i : About(c, i)' = On(Applied(moves), i) /\ StoredBy(c, i)' = StoredBy(c, i)
    BY <2>7, <2>9 DEF About, HeldAfter, Applied, StoredBy
  <2>11. Releasing(c)'
    BY <2>1, <2>7 DEF Releasing, Payers, Charges, Removals
  <2>12. Funding(c)'
    <3> SUFFICES ASSUME NEW i \in call[c].rows
                 PROVE  /\ i \notin waived'
                        /\ "reprice" \notin Operations => Within(StoredBy(c, i)', today'[i], About(c, i)')
      BY <2>7 DEF Funding
    <3>1. i \in Inscriptions /\ i \notin waived
      BY <2>1 DEF MoneyInv, MoneyCall, Shaped, RowSums, Funding
    <3>2. Held(i) \in Nat /\ plan[i] \in Nat /\ StoredBy(c, i) \in Prices \cup {None} /\ today[i] \in Prices
      BY <2>3, <3>1, HeldNat, PricesRead DEF MoneyInv
    <3>3. /\ On(Applied(moves), i) \in Nat /\ On(Applied(moves), i) <= Held(i) + plan[i]
          /\ Held(i) + plan[i] \in Nat
      BY <2>5, <2>6, <3>1, <3>2
    <3>4. "reprice" \notin Operations => Within(StoredBy(c, i), today[i], On(Applied(moves), i))
      BY <2>4, <3>2, <3>3, WithinFalls
    <3> QED
      BY <2>9, <2>10, <3>1, <3>4
  <2> QED
    BY <2>7, <2>8, <2>11, <2>12, RowsQuiet
<1> QED
  BY <1>1, <1>2

\* A removal unwinds each row it withdraws to its deposit.
LEMMA RowsReleaseAboveDeposit ==
    ASSUME IInv, PriceInv, MoneyInv, RowSums, NEW c \in Calls, ReleaseAboveDeposit(c)
    PROVE  RowSums'
<1> DEFINE need == [i \in Inscriptions |-> IF i \in call[c].rows \ call[c].cut THEN Held(i) - Retained(i) ELSE 0]
           moves == Unwind(need)
           fields == [call[c] EXCEPT !.moves = moves]
<1>1. call[c].op \in Removals /\ call[c].at = "pool" /\ WithPool(c, fields)
  BY DEF ReleaseAboveDeposit, Removals, LockPool
<1>2. /\ DOMAIN fields = DOMAIN NoCall /\ fields.op = call[c].op /\ fields.moves = moves
      /\ fields.rows = call[c].rows /\ fields.cut = call[c].cut
  BY DEF IInv, CallsInv, NoCall
<1>3. ASSUME NEW i \in Inscriptions
      PROVE  /\ Held(i) \in Nat /\ need[i] \in Nat /\ need[i] <= Held(i) /\ DepositAt[PriceOf(i)] \in Nat
             /\ i \in call[c].rows \ call[c].cut => Held(i) - need[i] <= DepositAt[PriceOf(i)]
  <2>1. Held(i) \in Nat /\ DepositAt[PriceOf(i)] \in Nat
    BY HeldNat, PricesRead, PriceAssumption DEF MoneyInv
  <2> QED
    BY <2>1 DEF Retained, Smaller
<1>4. need \in [Inscriptions -> Nat]
  BY <1>3
<1> HIDE DEF fields, need
<1>5. \A i \in Inscriptions : On(Applied(moves), i) + need[i] <= Held(i)
  BY <1>3, <1>4, UnwoundRow DEF MoneyInv
<1>6. \A i \in Inscriptions : On(Applied(moves), i) \in Nat
  <2>1. moves \in [Payments -> [Inscriptions -> Int]]
    BY <1>4, UnwindIs DEF MoneyInv
  <2> HIDE DEF moves
  <2>2. Applied(moves) \in Allocations
    BY <2>1, WithIs, AllocatedIs DEF Applied, MoneyInv
  <2> QED
    BY <2>2, OnNat
<1> HIDE DEF moves
<1>7. /\ call'[c].op = call[c].op /\ call'[c].at = "write" /\ call'[c].moves = moves /\ call'[c].cut = call[c].cut
      /\ call'[c].rows = call[c].rows /\ (\A d \in Calls \ {c} : call'[d] = call[d]) /\ UNCHANGED rows
  BY <1>1, <1>2, PoolFields
<1>8. UNCHANGED RowTables
  BY <1>7 DEF rows, RowTables
<1>9. \A i \in Inscriptions : HeldAfter(c, i)' = On(Applied(moves), i)
  BY <1>7, <1>8 DEF HeldAfter, Applied, RowTables
<1>10. Releasing(c)'
  <2>1. ASSUME NEW i \in call[c].rows \ call[c].cut
        PROVE  Retains(i, HeldAfter(c, i))'
    <3>1. i \in Inscriptions
      BY DEF MoneyInv, MoneyCall, Shaped
    <3>2. HeldAfter(c, i)' <= DepositAt[PriceOf(i)]
      BY <1>3, <1>5, <1>6, <1>9, <3>1
    <3>3. PriceOf(i) \in {stored[i], today[i]} \ {None}
      <4>1. PriceOf(i) \in Prices /\ PriceOf(i) \in {stored[i], today[i]}
        BY <3>1, PricesRead DEF PriceOf, Effective
      <4> QED
        BY <4>1, NoneAssumption
    <3>4. stored' = stored /\ today' = today
      BY <1>8 DEF RowTables
    <3> QED
      BY <3>2, <3>3, <3>4 DEF Retains
  <2> QED
    BY <1>7, <2>1 DEF Releasing, RowSums
<1>11. Funding(c)'
  BY <1>1, <1>7 DEF Funding, Payers, Charges, Removals
<1> QED
  BY <1>7, <1>8, <1>10, <1>11, RowsQuiet

-----------------------------------------------------------------------------
\* A REMOVAL DECIDES

\* What goes on without money: nothing is left to withdraw when it writes.
LEMMA RowsDecide ==
    ASSUME IInv, RowSums, NEW c \in Calls, UNCHANGED rows, NEW place, NEW cut,
           Become(c, [call[c] EXCEPT !.at = place, !.cut = cut]), call[c].op \in Removals,
           place = "write" => \A i \in call[c].rows \ cut : roster[i] = "deleted"
    PROVE  RowSums'
<1> DEFINE fields == [call[c] EXCEPT !.at = place, !.cut = cut]
<1>1. /\ call'[c] = fields /\ DOMAIN call[c] = DOMAIN NoCall /\ \A d \in Calls \ {c} : call'[d] = call[d]
  BY DEF IInv, CallsInv, Become
<1>2. fields.op = call[c].op /\ fields.at = place /\ fields.cut = cut /\ fields.rows = call[c].rows
  BY <1>1 DEF NoCall
<1> HIDE DEF fields
<1>3. UNCHANGED RowTables /\ roster' = roster
  BY DEF rows, RowTables
<1>4. Releasing(c)'
  BY <1>1, <1>2, <1>3 DEF Releasing, RowSums
<1>5. Funding(c)'
  BY <1>1, <1>2 DEF Funding, Payers, Charges, Removals
<1> QED
  BY <1>1, <1>3, <1>4, <1>5, RowsQuiet

\* What a removal decides to release is measured before its pool's lock.
LEMMA RowsDecides ==
    ASSUME IInv, MoneyInv, RowSums, NEW c \in Calls,
           \/ DecideRosterRemoval(c) \/ DecideChoreographyRemoval(c) \/ DecideSeminarRemoval(c)
           \/ WriteSeminarRow(c)
    PROVE  RowSums'
<1>0. CallInv(c) /\ MoneyCall(c) /\ DOMAIN call[c] = DOMAIN NoCall
  BY DEF IInv, MoneyInv, CallsInv
<1>1. CASE DecideRosterRemoval(c)
  <2> DEFINE cut == {i \in call[c].rows : ~Evidence(i)}
             place == IF cut = call[c].rows THEN "write" ELSE "pool"
  <2>1. /\ Become(c, [call[c] EXCEPT !.at = place, !.cut = cut]) /\ UNCHANGED rows /\ call[c].op \in Removals
    BY <1>1 DEF DecideRosterRemoval, Removals
  <2>2. place = "write" => call[c].rows \ cut = {}
    BY DEF Removals
  <2> HIDE DEF place, cut
  <2> QED
    BY <2>1, <2>2, RowsDecide
<1>2. CASE DecideChoreographyRemoval(c)
  <2> DEFINE cut == IF \E i \in Kept(call[c].unit) : Evidence(i) THEN {} ELSE Kept(call[c].unit)
             place == IF cut # {} \/ call[c].rows = {} THEN "write" ELSE "pool"
  <2>1. /\ Become(c, [call[c] EXCEPT !.at = place, !.cut = cut]) /\ UNCHANGED rows /\ call[c].op \in Removals
    BY <1>2 DEF DecideChoreographyRemoval, Removals
  <2>2. ASSUME place = "write", NEW i \in call[c].rows \ cut
        PROVE  roster[i] = "deleted"
    <3>1. cut = Kept(call[c].unit)
      BY <2>2
    <3>2. i \in RowsOf(call[c].unit)
      BY <1>0, <2>1 DEF CallInv, OfOneUnit
    <3> QED
      BY <3>1, <3>2 DEF Kept
  <2> HIDE DEF place, cut
  <2> QED
    BY <2>1, <2>2, RowsDecide
<1>3. CASE DecideSeminarRemoval(c)
  <2> DEFINE cut == {i \in call[c].rows : ~Evidence(i)}
  <2>1. Become(c, [call[c] EXCEPT !.at = "rows", !.cut = cut]) /\ UNCHANGED rows /\ call[c].op \in Removals
    BY <1>0, <1>3 DEF DecideSeminarRemoval, CallInv, Placed, Removals
  <2> HIDE DEF cut
  <2> QED
    BY <2>1, RowsDecide
<1>4. CASE WriteSeminarRow(c)
  <2> DEFINE place == IF call[c].cut = {} THEN "pool" ELSE "write"
  <2>1. /\ Become(c, [call[c] EXCEPT !.at = place]) /\ UNCHANGED rows /\ call[c].op = "remove-seminar-row"
    BY <1>4 DEF WriteSeminarRow, Go
  <2>2. [call[c] EXCEPT !.at = place] = [call[c] EXCEPT !.at = place, !.cut = call[c].cut]
    BY <1>0 DEF NoCall
  <2>3. call[c].cut \subseteq call[c].rows /\ \A i, j \in call[c].rows : i = j
    BY <1>0, <2>1 DEF MoneyCall, Removing, RowSums, Releasing, Removals
  <2>4. place = "write" => call[c].rows \ call[c].cut = {}
    BY <2>3
  <2> HIDE DEF place
  <2> QED
    BY <2>1, <2>2, <2>4, RowsDecide DEF Removals
<1> QED
  BY <1>1, <1>2, <1>3, <1>4

-----------------------------------------------------------------------------
\* A CALL WRITES

\* Whoever writes puts money and prices only on rows it has locked.
LEMMA RowsWrite ==
    ASSUME IInv, PriceInv, MoneyInv, MoneyInv', RowSums, NEW c \in Calls, End(c), UNCHANGED <<waived, today>>,
           \A i \in Inscriptions : roster[i] = "deleted" => roster'[i] = "deleted",
           \A i \in Inscriptions : \/ RowHeld(c, i)
                                   \/ /\ \A p \in Payments : allocated'[p][i] <= allocated[p][i]
                                      /\ stored'[i] = stored[i],
           \A i \in Inscriptions : SoundRow(i)'
    PROVE  RowSums'
<1>1. ASSUME NEW d \in Calls, d # c
      PROVE  Releasing(d)' /\ Funding(d)'
  <2>1. call'[d] = call[d] /\ held[c] \cap held[d] = {}
    BY <1>1, Beside
  <2>2. \A i \in Inscriptions : RowHeld(d, i) => ~RowHeld(c, i)
    BY <2>1 DEF RowHeld
  <2>3. \A i \in Inscriptions : RowHeld(d, i) => /\ \A p \in Payments : allocated'[p][i] <= allocated[p][i]
                                                 /\ i \in waived' => i \in waived
                                                 /\ stored'[i] = stored[i]
    BY <2>2
  <2>4. Releasing(d) /\ Funding(d) /\ MoneyRows' /\ today' = today
    BY DEF RowSums, MoneyInv
  <2> QED
    BY <2>1, <2>3, <2>4, RowsBeside
<1>2. call'[c] = NoCall
  BY DEF End, IInv, CallsInv
<1>3. call'[c].op = "none"
  BY <1>2 DEF NoCall
<1>4. Releasing(c)' /\ Funding(c)'
  BY <1>3 DEF Releasing, Funding, Payers, Charges, Removals
<1> QED
  BY <1>1, <1>4 DEF RowSums

\* A row whose money only falls stays sound, withdrawn with no more than it retains.
LEMMA RowFalls ==
    ASSUME PriceInv, MoneyInv, MoneyInv', RowSums, NEW i \in Inscriptions, UNCHANGED <<waived, today>>,
           stored'[i] = stored[i], \A p \in Payments : allocated'[p][i] <= allocated[p][i],
           roster'[i] = "withdrawn" => roster[i] = "withdrawn" \/ ~Fixed \/ Retains(i, Held(i)')
    PROVE  SoundRow(i)'
<1>1. allocated \in Allocations /\ allocated' \in Allocations
  BY DEF MoneyInv, MoneyRows, Allocations
<1>2. Held(i)' = On(allocated', i) /\ Held(i) = On(allocated, i)
  BY DEF Held, On
<1>3. On(allocated', i) <= On(allocated, i) /\ On(allocated', i) \in Nat /\ On(allocated, i) \in Nat
  BY <1>1, OnMono, OnNat
<1>4. Held(i)' \in Nat /\ Held(i) \in Nat /\ Held(i)' <= Held(i)
  BY <1>2, <1>3
<1>5. SoundRow(i) /\ stored[i] \in Prices \cup {None} /\ today[i] \in Prices
  BY PricesRead DEF RowSums, PriceInv
<1>6. Fixed /\ roster[i] = "withdrawn" => Retains(i, Held(i)')
  BY <1>4, <1>5, RetainsFalls DEF SoundRow
<1>7. Fixed /\ roster'[i] = "withdrawn" => Retains(i, Held(i))'
  BY <1>6 DEF Retains
<1>8. i \in waived' => Held(i)' = 0
  BY <1>4, <1>5 DEF SoundRow
<1>9. "reprice" \notin Operations => Within(stored[i], today[i], Held(i)')
  BY <1>4, <1>5, WithinFalls DEF SoundRow
<1> QED
  BY <1>7, <1>8, <1>9 DEF SoundRow

\* A charge that finds nothing owed stores its prices on rows below their deposit.
LEMMA RowsReadCharge ==
    ASSUME IInv, PriceInv, MoneyInv, MoneyInv', RowSums, NEW c \in Calls, ReadCharge(c)
    PROVE  RowSums'
<1>1. CASE Refuse(c)
  BY <1>1, RowsRefused
<1>2. CASE ~Refuse(c) /\ ~End(c)
  BY <1>2, RowsChargePlans
<1>3. CASE ~Refuse(c) /\ End(c)
  <2>1. /\ UNCHANGED <<allocated, roster, waived, today>> /\ call[c].op \in Charges /\ RowsLocked(c)
        /\ stored' = [i \in Inscriptions |-> IF i \in OnPrice(c) THEN Taken(c, i) ELSE stored[i]]
    BY <1>3, ChargeDecides DEF ReadCharge, IInv, Refuse, rows
  <2>2. \A i \in Inscriptions : Held(i)' = Held(i)
    BY <2>1 DEF Held
  <2>3. ASSUME NEW i \in OnPrice(c)
        PROVE  i \in Inscriptions /\ RowHeld(c, i) /\ roster[i] = "active" /\ i \notin waived
    BY <2>1, ChargedRows DEF OnPrice, RowsLocked, Pending, RowHeld
  <2>4. ASSUME NEW i \in Inscriptions
        PROVE  SoundRow(i)'
    <3>1. SoundRow(i)
      BY DEF RowSums
    <3>2. CASE i \notin OnPrice(c)
      BY <2>1, <2>2, <3>1, <3>2 DEF SoundRow, Retains
    <3>3. CASE i \in OnPrice(c)
      <4>1. "reprice" \notin Operations => Within(Taken(c, i), today[i], Held(i))
        BY TakenFits
      <4> QED
        BY <2>1, <2>2, <2>3, <3>3, <4>1 DEF SoundRow
    <3> QED
      BY <3>2, <3>3
  <2>5. ASSUME NEW i \in Inscriptions
        PROVE  \/ RowHeld(c, i)
               \/ /\ \A p \in Payments : allocated'[p][i] <= allocated[p][i]
                  /\ stored'[i] = stored[i]
    BY <2>1, <2>3 DEF MoneyInv, MoneyRows
  <2>6. \A i \in Inscriptions : roster[i] = "deleted" => roster'[i] = "deleted"
    BY <2>1
  <2> QED
    BY <1>3, <2>1, <2>4, <2>5, <2>6, RowsWrite
<1> QED
  BY <1>1, <1>2, <1>3

\* What a write leaves of an allocation.
LEMMA MovedAre ==
    ASSUME MoneyInv, NEW c \in Calls, NEW cut, allocated' = Moved(c, cut)
    PROVE  /\ call[c].moves \in [Payments -> [Inscriptions -> Int]]
           /\ With(allocated, call[c].moves) \in Allocations
           /\ \A p \in Payments, i \in Inscriptions :
                 /\ allocated[p][i] \in Nat /\ With(allocated, call[c].moves)[p][i] \in Nat
                 /\ ~(call[c].moves[p][i] > 0) => With(allocated, call[c].moves)[p][i] <= allocated[p][i]
                 /\ i \in cut => allocated'[p][i] = 0
                 /\ i \notin cut => allocated'[p][i] = With(allocated, call[c].moves)[p][i]
<1>1. call[c].moves \in [Payments -> [Inscriptions -> Int]] /\ allocated \in Allocations
  BY AllocatedIs DEF MoneyInv, MoneyCall, Moving
<1>2. With(allocated, call[c].moves) \in Allocations
  BY <1>1, WithIs
<1>3. ASSUME NEW p \in Payments, NEW i \in Inscriptions
      PROVE  /\ allocated[p][i] \in Nat /\ With(allocated, call[c].moves)[p][i] \in Nat
             /\ ~(call[c].moves[p][i] > 0) => With(allocated, call[c].moves)[p][i] <= allocated[p][i]
             /\ i \in cut => allocated'[p][i] = 0
             /\ i \notin cut => allocated'[p][i] = With(allocated, call[c].moves)[p][i]
  <2>1. allocated[p][i] \in Nat /\ call[c].moves[p][i] \in Int
    BY <1>1 DEF Allocations
  <2>2. With(allocated, call[c].moves)[p][i] = AtLeastZero(allocated[p][i] + call[c].moves[p][i])
    BY <1>1, WithIs
  <2>3. allocated'[p][i] = IF i \in cut THEN 0 ELSE AtLeastZero(allocated[p][i] + call[c].moves[p][i])
    BY DEF Moved
  <2> QED
    BY <2>1, <2>2, <2>3 DEF AtLeastZero
<1> QED
  BY <1>1, <1>2, <1>3

\* The write of a payment gesture, of a charge or of a return.
LEMMA RowsMoveMoney ==
    ASSUME IInv, PriceInv, MoneyInv, MoneyInv', RowSums, NEW c \in Calls, MoveMoney(c)
    PROVE  RowSums'
<1>1. /\ call[c].op \in Movers /\ call[c].at = "write" /\ allocated' = Moved(c, {}) /\ End(c)
      /\ UNCHANGED <<roster, waived, today>> /\ MoneyCall(c)
      /\ stored' = [i \in Inscriptions |-> StoredBy(c, i)]
  BY DEF MoveMoney, Movers, MoneyInv
<1>2. \A p \in Payments, i \in Inscriptions :
         /\ allocated'[p][i] = With(allocated, call[c].moves)[p][i]
         /\ ~(call[c].moves[p][i] > 0) => allocated'[p][i] <= allocated[p][i]
  BY <1>1, MovedAre
<1>3. ASSUME NEW i \in Inscriptions
      PROVE  Held(i)' = HeldAfter(c, i)
  <2> DEFINE f == [p \in Payments |-> allocated'[p][i]]
             g == [p \in Payments |-> With(allocated, call[c].moves)[p][i]]
  <2>1. f = g
    BY <1>2
  <2>2. Held(i)' = Sum(f) /\ HeldAfter(c, i) = Sum(g)
    BY DEF Held, HeldAfter, On
  <2> QED
    BY <2>1, <2>2
<1> DEFINE Paid(i) == call[c].op \in Payers /\ i \in call[c].rows
<1>4. ASSUME NEW i \in Inscriptions, Paid(i)
      PROVE  RowHeld(c, i) /\ SoundRow(i)'
  <2>1. RowHeld(c, i) /\ roster[i] = "active"
    BY <1>1, <1>4 DEF MoneyCall, Planning
  <2>2. i \notin waived /\ ("reprice" \notin Operations => Within(StoredBy(c, i), today[i], HeldAfter(c, i)))
    BY <1>1, <1>4 DEF RowSums, Funding, About
  <2> QED
    BY <1>1, <1>3, <2>1, <2>2 DEF SoundRow
<1>5. ASSUME NEW i \in Inscriptions, ~Paid(i)
      PROVE  /\ \A p \in Payments : allocated'[p][i] <= allocated[p][i]
             /\ stored'[i] = stored[i] /\ SoundRow(i)'
  <2>1. \A p \in Payments : allocated'[p][i] <= allocated[p][i]
    BY <1>1, <1>2, <1>5 DEF MoneyCall, Moving
  <2>2. stored'[i] = stored[i]
    BY <1>1, <1>5 DEF StoredBy, PriceInv, PricedAs
  <2>3. UNCHANGED <<waived, today>> /\ (roster'[i] = "withdrawn" => roster[i] = "withdrawn")
    BY <1>1
  <2>4. SoundRow(i)'
    BY <2>1, <2>2, <2>3, RowFalls
  <2> QED
    BY <2>1, <2>2, <2>4
<1> HIDE DEF Paid
<1>6. \A i \in Inscriptions : roster[i] = "deleted" => roster'[i] = "deleted"
  BY <1>1
<1>7. ASSUME NEW i \in Inscriptions
      PROVE  \/ RowHeld(c, i)
             \/ /\ \A p \in Payments : allocated'[p][i] <= allocated[p][i]
                /\ stored'[i] = stored[i]
  BY <1>4, <1>5
<1>8. \A i \in Inscriptions : SoundRow(i)'
  BY <1>4, <1>5
<1> QED
  BY <1>1, <1>6, <1>7, <1>8, RowsWrite

\* The write of a removal: rows withdrawn, and their excess given back.
LEMMA RowsCommitRemoval ==
    ASSUME IInv, PriceInv, MoneyInv, MoneyInv', RowSums, NEW c \in Calls, CommitRemoval(c)
    PROVE  RowSums'
<1> DEFINE cut == call[c].cut
<1>1. /\ call[c].op \in Removals /\ call[c].at = "write"
      /\ roster' = [i \in Inscriptions |->
                       IF i \in cut THEN "deleted"
                       ELSE IF i \in call[c].rows /\ roster[i] # "deleted" THEN "withdrawn" ELSE roster[i]]
      /\ allocated' = Moved(c, cut) /\ End(c) /\ UNCHANGED <<waived, stored, today>> /\ MoneyCall(c)
  BY DEF CommitRemoval, Removals, MoneyInv
<1>2. \A p \in Payments, i \in Inscriptions : ~(call[c].moves[p][i] > 0)
  BY <1>1 DEF MoneyCall, Moving, Payers, Charges, Removals
<1>3. ASSUME NEW p \in Payments, NEW i \in Inscriptions
      PROVE  allocated'[p][i] <= allocated[p][i] /\ allocated'[p][i] <= With(allocated, call[c].moves)[p][i]
  <2>1. /\ allocated[p][i] \in Nat /\ With(allocated, call[c].moves)[p][i] \in Nat
        /\ ~(call[c].moves[p][i] > 0) => With(allocated, call[c].moves)[p][i] <= allocated[p][i]
        /\ i \in cut => allocated'[p][i] = 0
        /\ i \notin cut => allocated'[p][i] = With(allocated, call[c].moves)[p][i]
    BY <1>1, MovedAre
  <2> QED
    BY <1>2, <2>1
<1>4. ASSUME NEW i \in Inscriptions
      PROVE  Held(i)' <= HeldAfter(c, i) /\ Held(i)' \in Nat /\ HeldAfter(c, i) \in Nat
  <2>1. allocated' \in Allocations /\ With(allocated, call[c].moves) \in Allocations
    BY <1>1, MovedAre DEF MoneyInv, MoneyRows, Allocations
  <2>2. On(allocated', i) <= On(With(allocated, call[c].moves), i)
    BY <1>3, <2>1, OnMono
  <2>3. Held(i)' = On(allocated', i) /\ HeldAfter(c, i) = On(With(allocated, call[c].moves), i)
    BY DEF Held, On, HeldAfter
  <2>4. On(allocated', i) \in Nat /\ On(With(allocated, call[c].moves), i) \in Nat
    BY <2>1, OnNat
  <2> QED
    BY <2>2, <2>3, <2>4
<1>5. ASSUME NEW i \in Inscriptions, roster'[i] = "withdrawn", roster[i] # "withdrawn", Fixed
      PROVE  Retains(i, Held(i)')
  <2>1. i \notin cut /\ i \in call[c].rows /\ roster[i] # "deleted"
    BY <1>1, <1>5
  <2>2. Retains(i, HeldAfter(c, i))
    BY <1>1, <1>5, <2>1 DEF RowSums, Releasing
  <2> QED
    BY <1>4, <2>2, RetainsFalls
<1>6. ASSUME NEW i \in Inscriptions
      PROVE  SoundRow(i)'
  <2>1. UNCHANGED <<waived, today>> /\ stored'[i] = stored[i] /\ \A p \in Payments : allocated'[p][i] <= allocated[p][i]
    BY <1>1, <1>3
  <2>2. roster'[i] = "withdrawn" => roster[i] = "withdrawn" \/ ~Fixed \/ Retains(i, Held(i)')
    BY <1>5
  <2> QED
    BY <2>1, <2>2, RowFalls
<1>7. \A i \in Inscriptions : roster[i] = "deleted" => roster'[i] = "deleted"
  BY <1>1
<1> HIDE DEF cut
<1> QED
  BY <1>1, <1>3, <1>6, <1>7, RowsWrite

\* A payment deleted takes its allocations from the rows.
LEMMA RowsDeletePayment ==
    ASSUME IInv, PriceInv, MoneyInv, MoneyInv', RowSums, NEW c \in Calls, NEW p \in Payments, DeletePayment(c, p)
    PROVE  RowSums'
<1>1. End(c) /\ allocated' = [allocated EXCEPT ![p] = MoneyNowhere] /\ UNCHANGED <<roster, waived, stored, today>>
  BY DEF DeletePayment
<1>2. ASSUME NEW q \in Payments, NEW i \in Inscriptions
      PROVE  allocated'[q][i] <= allocated[q][i]
  <2>1. allocated[q][i] \in Nat /\ allocated \in [Payments -> [Inscriptions -> Nat]]
    BY DEF MoneyInv, MoneyRows
  <2>2. allocated'[q][i] = IF q = p THEN 0 ELSE allocated[q][i]
    BY <1>1, <2>1 DEF MoneyNowhere
  <2> QED
    BY <2>1, <2>2
<1>3. ASSUME NEW i \in Inscriptions
      PROVE  SoundRow(i)'
  <2>1. /\ UNCHANGED <<waived, today>> /\ stored'[i] = stored[i]
        /\ roster'[i] = "withdrawn" => roster[i] = "withdrawn"
    BY <1>1
  <2> QED
    BY <1>2, <2>1, RowFalls
<1>4. \A i \in Inscriptions : roster[i] = "deleted" => roster'[i] = "deleted"
  BY <1>1
<1> QED
  BY <1>1, <1>2, <1>3, <1>4, RowsWrite

-----------------------------------------------------------------------------
\* THE OTHER STEPS

\* A step that takes locks or decides nothing about money of rows.
LEMMA RowsLocksTaken ==
    ASSUME IInv, MoneyInv, RowSums, NEW c \in Calls,
           \/ \E i \in Inscriptions : ReadDepositRelease(c, i)
           \/ LockRow(c) \/ LockAnchor(c) \/ LockChoreography(c)
    PROVE  RowSums'
<1>0. CallInv(c) /\ MoneyCall(c) /\ DOMAIN call[c] = DOMAIN NoCall /\ Releasing(c)
  BY DEF IInv, MoneyInv, CallsInv, RowSums
<1>1. CASE Refuse(c)
  BY <1>1, RowsRefused
<1>2. ASSUME NEW i \in Inscriptions, ReadDepositRelease(c, i), ~Refuse(c)
      PROVE  RowSums'
  <2> DEFINE fields == [call[c] EXCEPT !.at = "pool"]
  <2>1. call[c].op = "release-deposit" /\ Become(c, fields) /\ UNCHANGED rows
    BY <1>2 DEF ReadDepositRelease, Go
  <2>2. fields.op = "release-deposit"
    BY <1>0, <2>1 DEF NoCall
  <2> HIDE DEF fields
  <2> QED
    BY <2>1, <2>2, RowsOther DEF Payers, Charges, Removals, rows, RowTables
<1>3. CASE LockRow(c)
  BY <1>3, RowsIdle DEF LockRow, rows, RowTables
<1>4. CASE LockAnchor(c)
  <2> DEFINE place == IF call[c].op = "sync-roster" THEN "choreography" ELSE "reading"
             fields == [call[c] EXCEPT !.at = place]
  <2>1. Become(c, fields) /\ UNCHANGED rows
    BY <1>4 DEF LockAnchor, Go
  <2>2. fields.op = call[c].op /\ fields.rows = call[c].rows /\ fields.at \notin {"pool", "write"}
    BY <1>0 DEF NoCall
  <2> HIDE DEF fields, place
  <2>3. fields.op = "remove-seminar-row" => \A i, j \in fields.rows : i = j
    BY <1>0, <2>2 DEF Releasing
  <2>4. UNCHANGED RowTables
    BY <2>1 DEF rows, RowTables
  <2> QED
    BY <2>1, <2>2, <2>3, <2>4, RowsOther
<1>5. CASE LockChoreography(c) /\ ~Refuse(c)
  <2> DEFINE taken == IF call[c].op = "sync-roster" THEN call[c].rows \cap ActiveRows(call[c].unit)
                                                    ELSE ActiveRows(call[c].unit)
             fields == [call[c] EXCEPT !.at = "rows", !.rows = taken, !.scope = academyOf[call[c].unit]]
  <2>1. call[c].at = "choreography" /\ Become(c, fields) /\ UNCHANGED rows
    BY <1>5 DEF LockChoreography
  <2>2. fields.op = call[c].op /\ fields.at = "rows" /\ fields.op # "remove-seminar-row"
    BY <1>0, <2>1 DEF CallInv, Placed, OfChoreography, NoCall
  <2> HIDE DEF fields, taken
  <2>3. UNCHANGED RowTables
    BY <2>1 DEF rows, RowTables
  <2> QED
    BY <2>1, <2>2, <2>3, RowsOther
<1> QED
  BY <1>1, <1>2, <1>3, <1>4, <1>5

\* A gesture that gives money back plans under its pool.
LEMMA RowsUnwind ==
    ASSUME IInv, RowSums, NEW c \in Calls, NEW i \in Inscriptions, UnwindFromRow(c, i)
    PROVE  RowSums'
<1>1. CASE Refuse(c)
  BY <1>1, RowsRefused
<1>2. CASE ~Refuse(c)
  <2> DEFINE need == IF call[c].op = "release-deposit" THEN [MoneyNowhere EXCEPT ![i] = Held(i)] ELSE call[c].need
             moves == Unwind(need)
             fields == [call[c] EXCEPT !.moves = moves]
             written == [fields EXCEPT !.at = "write"]
  <2>1. call[c].op \in Gestures \ {"allocate"} /\ WithPool(c, fields)
    BY <1>2 DEF UnwindFromRow
  <2> HIDE DEF moves, need
  <2>2. written.op = call[c].op
    BY DEF IInv, CallsInv, NoCall
  <2>3. Become(c, written) /\ UNCHANGED rows
    BY <2>1 DEF WithPool
  <2> HIDE DEF fields, written
  <2>4. UNCHANGED RowTables
    BY <2>3 DEF rows, RowTables
  <2>5. written.op \notin Payers \cup Removals /\ written.op # "remove-seminar-row"
    BY <2>1, <2>2 DEF Gestures, Payers, Charges, Removals
  <2> QED
    BY <2>3, <2>4, <2>5, RowsOther
<1> QED
  BY <1>1, <1>2

\* Emissions, payments' and refunds' changes and merges put nothing on a row.
LEMMA RowsElse ==
    ASSUME IInv, RowSums, NEW c \in Calls,
           \/ ReserveLines(c) \/ SettleEmission(c)
           \/ \E p \in Payments : LockPaymentPool(c, p) \/ UpdatePayment(c, p)
           \/ LockRefundPool(c) \/ WriteRefund(c)
           \/ LockMergePool(c) \/ LockAcademies(c) \/ CommitMerge(c)
    PROVE  RowSums'
<1>0. CallInv(c) /\ DOMAIN call[c] = DOMAIN NoCall
  BY DEF IInv, CallsInv
<1>1. CASE Refuse(c)
  BY <1>1, RowsRefused
<1>2. CASE SettleEmission(c) \/ (\E p \in Payments : UpdatePayment(c, p)) \/ WriteRefund(c)
           \/ (CommitMerge(c) /\ ~Refuse(c))
  <2>1. End(c) /\ UNCHANGED RowTables
    BY <1>2 DEF SettleEmission, UpdatePayment, WriteRefund, CommitMerge, RowTables
  <2> QED
    BY <2>1, RowsEnd
<1> DEFINE Other == PaymentChanges \cup RefundChanges \cup {"merge", "emit"}
<1>3. ASSUME NEW place, Become(c, [call[c] EXCEPT !.at = place]), call[c].op \in Other, UNCHANGED RowTables
      PROVE  RowSums'
  <2> DEFINE fields == [call[c] EXCEPT !.at = place]
  <2>1. fields.op = call[c].op /\ Become(c, fields)
    BY <1>0, <1>3 DEF NoCall
  <2> HIDE DEF fields
  <2>2. fields.op \notin Payers \cup Removals /\ fields.op # "remove-seminar-row"
    BY <1>3, <2>1 DEF PaymentChanges, RefundChanges, Payers, Charges, Removals
  <2> QED
    BY <1>3, <2>1, <2>2, RowsOther
<1>4. CASE ReserveLines(c) /\ ~Refuse(c)
  <2>1. call[c].op \in Other /\ Become(c, [call[c] EXCEPT !.at = "settle"]) /\ UNCHANGED RowTables
    BY <1>0, <1>4 DEF ReserveLines, Go, CallInv, Placed, RowTables
  <2> QED
    BY <1>3, <2>1
<1>5. CASE (LockRefundPool(c) \/ \E p \in Payments : LockPaymentPool(c, p)) /\ ~Refuse(c)
  <2>1. call[c].op \in Other /\ WithPool(c, call[c])
    BY <1>5 DEF LockRefundPool, LockPaymentPool, PaymentChanges
  <2>2. Become(c, [call[c] EXCEPT !.at = "write"]) /\ UNCHANGED RowTables
    BY <2>1 DEF WithPool, rows, RowTables
  <2> QED
    BY <1>3, <2>1, <2>2
<1>6. CASE LockMergePool(c)
  <2> DEFINE place == IF PoolsOf(c) = {a \in PoolsOf(c) : <<"pool", a>> \in held'[c]} THEN "academies" ELSE "pool"
  <2>1. call[c].op \in Other /\ Become(c, [call[c] EXCEPT !.at = place]) /\ UNCHANGED RowTables
    BY <1>6 DEF LockMergePool, Go, rows, RowTables
  <2> HIDE DEF place
  <2> QED
    BY <1>3, <2>1
<1>7. CASE LockAcademies(c) /\ ~Refuse(c)
  <2>1. call[c].op \in Other /\ Become(c, [call[c] EXCEPT !.at = "write"]) /\ UNCHANGED RowTables
    BY <1>0, <1>7 DEF LockAcademies, Go, CallInv, Placed, rows, RowTables
  <2> QED
    BY <1>3, <2>1
<1> QED
  BY <1>1, <1>2, <1>4, <1>5, <1>6, <1>7

\* Every step of a call keeps the invariant.
LEMMA RowsStep ==
    ASSUME IInv, PriceInv, MoneyInv, MoneyInv', RowSums, NEW c \in Calls, Step(c)
    PROVE  RowSums'
<1>1. CASE DeadlockVictim(c)
  BY <1>1, RowsRefused DEF DeadlockVictim
<1> QED
  BY <1>1, RowsReadGesture, RowsLocksTaken, RowsUnwind, RowsReadCharge, RowsFundFromPool, RowsMoveMoney,
     RowsDecides, RowsReleaseAboveDeposit, RowsCommitRemoval, RowsElse, RowsDeletePayment
     DEF Step

-----------------------------------------------------------------------------
\* BESIDE THE CALLS

\* A waiver marks rows without money, and no call has them.
LEMMA RowsWaived ==
    ASSUME PriceInv, MoneyInv, MoneyInv', RowSums, NEW S \in SUBSET Inscriptions, Waive(S) \/ Unwaive(S)
    PROVE  RowSums'
<1>1. /\ UNCHANGED <<allocated, roster, stored, today, call>> /\ NotHeld(RowLocks(S))
      /\ (waived' = waived \cup S /\ \A i \in S : Held(i) = 0) \/ waived' = waived \ S
  BY DEF Waive, Unwaive
<1>2. ASSUME NEW i \in Inscriptions
      PROVE  SoundRow(i)'
  <2>1. SoundRow(i) /\ Held(i)' = Held(i)
    BY <1>1 DEF RowSums, Held
  <2>2. i \in waived' => i \in waived \/ Held(i) = 0
    BY <1>1
  <2> QED
    BY <1>1, <2>1, <2>2 DEF SoundRow, Retains
<1>3. ASSUME NEW d \in Calls
      PROVE  Releasing(d)' /\ Funding(d)'
  <2>1. \A i \in Inscriptions : RowHeld(d, i) => i \notin S
    <3>1. ASSUME NEW i \in S
          PROVE  <<"row", i>> \in RowLocks(S)
      BY DEF RowLocks
    <3> QED
      BY <1>1, <3>1 DEF NotHeld, RowHeld
  <2>2. \A p \in Payments, i \in Inscriptions : allocated'[p][i] <= allocated[p][i]
    BY <1>1 DEF MoneyInv, MoneyRows
  <2>3. \A i \in Inscriptions : RowHeld(d, i) => /\ \A p \in Payments : allocated'[p][i] <= allocated[p][i]
                                                 /\ i \in waived' => i \in waived
                                                 /\ stored'[i] = stored[i]
    BY <1>1, <2>1, <2>2
  <2>4. /\ Releasing(d) /\ Funding(d) /\ MoneyRows' /\ call'[d] = call[d] /\ today' = today
        /\ \A i \in Inscriptions : roster[i] = "deleted" => roster'[i] = "deleted"
    BY <1>1 DEF RowSums, MoneyInv
  <2> QED
    BY <2>3, <2>4, RowsBeside
<1> QED
  BY <1>2, <1>3 DEF RowSums

\* A new price may leave a row above its Total; a deposit, only where it is another.
LEMMA RowsRepriced ==
    ASSUME PriceInv, PriceInv', MoneyInv, RowSums, NEW i \in Inscriptions, TotalMoves(i)
    PROVE  RowSums'
<1>1. UNCHANGED <<allocated, roster, waived, call>> /\ "reprice" \in Operations
  BY DEF TotalMoves
<1>2. ASSUME Fixed, NEW j \in Inscriptions, NEW money, Retains(j, money)
      PROVE  Retains(j, money)'
  <2>1. PICK p \in Prices : money <= DepositAt[p]
    BY <1>2 DEF Retains, PriceInv
  <2>2. today'[j] \in Prices \ {None}
    BY NoneAssumption DEF PriceInv
  <2>3. DepositAt[today'[j]] = DepositAt[p]
    BY <1>1, <1>2, <2>2 DEF Fixed
  <2> QED
    BY <2>1, <2>2, <2>3 DEF Retains
<1>3. ASSUME NEW j \in Inscriptions
      PROVE  SoundRow(j)'
  <2>1. SoundRow(j) /\ Held(j)' = Held(j)
    BY <1>1 DEF RowSums, Held
  <2>2. Fixed /\ roster'[j] = "withdrawn" => Retains(j, Held(j))'
    BY <1>1, <1>2, <2>1 DEF SoundRow, Retains
  <2> QED
    BY <1>1, <2>1, <2>2 DEF SoundRow
<1>4. ASSUME NEW d \in Calls
      PROVE  Releasing(d)' /\ Funding(d)'
  <2>1. Releasing(d) /\ Funding(d) /\ call[d].rows \subseteq Inscriptions
    BY DEF RowSums, MoneyInv, MoneyCall, Shaped
  <2>2. \A j : HeldAfter(d, j)' = HeldAfter(d, j)
    BY <1>1 DEF HeldAfter
  <2>3. Releasing(d)'
    <3>1. ASSUME Fixed, NEW j \in Inscriptions, Retains(j, HeldAfter(d, j))
          PROVE  Retains(j, HeldAfter(d, j))'
      BY <1>2, <2>2, <3>1 DEF Retains
    <3> QED
      BY <1>1, <2>1, <3>1 DEF Releasing
  <2>4. Funding(d)'
    BY <1>1, <2>1 DEF Funding
  <2> QED
    BY <2>3, <2>4
<1> QED
  BY <1>3, <1>4 DEF RowSums

\* And so does every step outside the calls.
LEMMA RowsElsewhere ==
    ASSUME PriceInv, PriceInv', MoneyInv, MoneyInv', RowSums, Elsewhere
    PROVE  RowSums'
<1>1. CASE \/ Quiet \/ \E a \in Academies, n \in Amounts : RegisterPayment(a, n)
           \/ \E u \in Units : SettleReservation(u)
  <2>1. UNCHANGED call /\ UNCHANGED RowTables
    BY <1>1 DEF Quiet, RegisterPayment, SettleReservation, vars, rows, RowTables
  <2> QED
    BY <2>1, RowsIdle
<1> QED
  BY <1>1, RowsWaived, RowsRepriced DEF Elsewhere

-----------------------------------------------------------------------------
\* WHAT ROWS HOLD, IN EVERY STATE

\* What rows hold and what calls are about to put on them or leave there fits the
\* prices the rows store and those the calls are about to store, however the calls
\* interleave.
THEOREM RowSumsInductive == Spec => []RowSums
<1>1. ASSUME Init
      PROVE  RowSums
  <2>1. ASSUME NEW i \in Inscriptions
        PROVE  Held(i) = 0
    <3> DEFINE f == [p \in Payments |-> allocated[p][i]]
    <3>1. f \in [Payments -> Nat] /\ \A p \in Payments : f[p] = 0
      BY <1>1 DEF Init, NoMoves, MoneyNowhere
    <3>2. Held(i) = Sum(f)
      BY DEF Held
    <3> HIDE DEF f
    <3> QED
      BY <3>1, <3>2, SumNat, FiniteAssumption
  <2>2. ASSUME NEW i \in Inscriptions
        PROVE  SoundRow(i)
    <3>1. roster[i] = "active" /\ i \notin waived /\ today[i] \in Prices
      BY <1>1, PriceAssumption DEF Init
    <3>2. TotalAt[today[i]] \in Nat
      BY <3>1, PriceAssumption
    <3> QED
      BY <2>1, <3>1, <3>2 DEF SoundRow, Within
  <2>3. ASSUME NEW c \in Calls
        PROVE  Releasing(c) /\ Funding(c)
    <3>1. call[c].op = "none"
      BY <1>1 DEF Init, NoCall
    <3> QED
      BY <3>1 DEF Releasing, Funding, Removals, Payers, Charges
  <2> QED
    BY <2>2, <2>3 DEF RowSums
<1>2. ASSUME IInv, PriceInv, PriceInv', MoneyInv, MoneyInv', RowSums, [Next]_vars
      PROVE  RowSums'
  <2>1. CASE UNCHANGED vars
    BY <1>2, <2>1, RowsIdle DEF vars, rows, RowTables
  <2> QED
    BY <1>2, <2>1, RowsStart, RowsStep, RowsElsewhere DEF Next
<1> QED
  BY <1>1, <1>2, Inductive, PricesInductive, MoneyInductive, PTL DEF Spec

\* A withdrawn inscription never holds more than a deposit of its own, whatever
\* allocations were on their way to it while the removal ran: where no price moves,
\* or all prices have one deposit.
THEOREM DepositsRetained ==
    ASSUME Fixed
    PROVE  Spec => []WithdrawnRetainsDeposit
<1>1. RowSums => WithdrawnRetainsDeposit
  BY DEF RowSums, SoundRow, Retains, WithdrawnRetainsDeposit
<1> QED
  BY <1>1, RowSumsInductive, PTL

\* Where no price moves under it, money above an inscription's Total got there by
\* covering the deposit of a price stored with it, under any number of gestures,
\* charges and waivers at once.
THEOREM TotalsHold ==
    ASSUME "reprice" \notin Operations
    PROVE  Spec => []OverTotalOnlyByCrossing
<1>1. ASSUME PriceInv, MoneyInv, RowSums
      PROVE  OverTotalOnlyByCrossing
  <2> SUFFICES ASSUME NEW i \in Inscriptions, Held(i) > TotalOf(i)
               PROVE  i \notin waived /\ Crossed(i) /\ Held(i) <= TotalAt[today[i]]
    BY DEF OverTotalOnlyByCrossing
  <2>1. /\ Held(i) \in Nat /\ stored[i] \in Prices \cup {None} /\ today[i] \in Prices
        /\ TotalAt[today[i]] \in Nat /\ (stored[i] # None => TotalAt[stored[i]] \in Nat /\ DepositAt[stored[i]] \in Nat)
    BY <1>1, HeldNat, PricesRead, PriceAssumption DEF MoneyInv, PriceInv
  <2>2. Within(stored[i], today[i], Held(i)) /\ (i \in waived => Held(i) = 0)
    BY <1>1 DEF RowSums, SoundRow
  <2>3. i \notin waived /\ Held(i) > TotalAt[PriceOf(i)]
    BY <2>1, <2>2 DEF TotalOf
  <2>4. CASE Crossed(i)
    <3>1. PriceOf(i) = stored[i] /\ stored[i] # None
      BY <2>4 DEF Crossed, Covers, PriceOf, Effective
    <3> QED
      BY <2>1, <2>2, <2>3, <2>4, <3>1 DEF Within
  <2>5. CASE ~Crossed(i)
    <3>1. PriceOf(i) = today[i] /\ ~Covers(stored[i], Held(i))
      BY <2>5 DEF Crossed, PriceOf, Effective
    <3>2. Within(None, today[i], Held(i))
      BY <2>1, <2>2, <3>1, WithinRepicks
    <3> QED
      BY <2>1, <2>3, <3>1, <3>2 DEF Within
  <2> QED
    BY <2>4, <2>5
<1> QED
  BY <1>1, PricesInductive, MoneyInductive, RowSumsInductive, PTL

-----------------------------------------------------------------------------
\* WHAT POOLS HOLD: THE INDUCTIVE INVARIANT

\* What a payment of the pool will have left once call k has written, if it was
\* worth amount and A is what is allocated.
Remainder(k, amount, A, p) ==
    IF k.op \in Payers THEN amount - From(With(A, k.moves), p)
    ELSE IF p # k.item THEN amount - From(A, p)
    ELSE IF k.op = "edit-payment" /\ k.into = k.scope THEN k.n - From(A, p) ELSE 0
Remains(c, p) == Remainder(call[c], payment[p].amount, allocated, p)
Left(c, p) == IF p \in PaymentsOf(call[c].scope) THEN AtLeastZero(Remains(c, p)) ELSE 0

\* A call about to draw on a pool overspends no payment, and leaves what its
\* refunds take.
Drawing(c) ==
    call[c].op \in Payers \cup PaymentChanges /\ call[c].at = "write" =>
        /\ \A p \in PaymentsOf(call[c].scope) : Remains(c, p) >= 0
        /\ Debt(call[c].scope) <= Sum([p \in Payments |-> Left(c, p)])

\* A refund about to be written fits in what the pool has left.
Own(c) == IF call[c].op = "register-refund" THEN 0 ELSE refund[call[c].item].amount
Refunding(c) ==
    /\ call[c].op = "delete-refund" => call[c].n = 0
    /\ call[c].op \in RefundChanges /\ call[c].at = "write" =>
          Debt(call[c].scope) + call[c].n <= Worth(call[c].scope) + Own(c)

PoolSums ==
    /\ NoPaymentOverspent
    /\ \A a \in Academies : Debt(a) <= Worth(a)
    /\ \A c \in Calls : Drawing(c) /\ Refunding(c)

PoolTables == <<payment, allocated, refund>>

-----------------------------------------------------------------------------
\* A POOL NOBODY DRAWS ON

\* What a write leaves of a payment is a number.
LEMMA RemainderInt ==
    ASSUME NEW k, k.op \in Payers \cup PaymentChanges, k.moves \in [Payments -> [Inscriptions -> Int]],
           k.op \in PaymentChanges => k.n \in Nat,
           NEW amount \in Nat, NEW A \in Allocations, NEW p \in Payments
    PROVE  Remainder(k, amount, A, p) \in Int
<1>1. With(A, k.moves) \in Allocations
  BY WithIs
<1>2. From(A, p) \in Nat /\ From(With(A, k.moves), p) \in Nat
  BY <1>1, FromNat
<1> HIDE DEF Payers, PaymentChanges
<1> QED
  BY <1>2 DEF Remainder

\* Less is allocated: more is left.
LEMMA RemainderMono ==
    ASSUME NEW k, k.op \in Payers \cup PaymentChanges, k.moves \in [Payments -> [Inscriptions -> Int]],
           k.op \in PaymentChanges => k.n \in Nat,
           NEW amount \in Nat, NEW A \in Allocations, NEW B \in Allocations, NEW p \in Payments,
           \A i \in Inscriptions : A[p][i] <= B[p][i]
    PROVE  Remainder(k, amount, B, p) <= Remainder(k, amount, A, p)
<1>1. With(A, k.moves) \in Allocations /\ With(B, k.moves) \in Allocations
  BY WithIs
<1>2. From(A, p) \in Nat /\ From(With(A, k.moves), p) \in Nat /\ From(B, p) \in Nat /\ From(With(B, k.moves), p) \in Nat
  BY <1>1, FromNat
<1>3. From(With(A, k.moves), p) <= From(With(B, k.moves), p)
  BY WithFalls
<1>4. From(A, p) <= From(B, p)
  BY FromMono
<1> QED
  BY <1>2, <1>3, <1>4 DEF Remainder

\* Its payments stay, nothing more is allocated of them, and so do its refunds.
Paid(a, r) == IF refund[r].owner = a THEN refund[r].amount ELSE 0
PoolKept(a) ==
    /\ \A p \in PaymentsOf(a) : payment'[p] = payment[p] /\ \A i \in Inscriptions : allocated'[p][i] <= allocated[p][i]
    /\ \A r \in Refunds : Paid(a, r)' = Paid(a, r)

\* A pool whose payments and refunds stay as they were keeps what it is worth and what is owed of it.
LEMMA PoolStays ==
    ASSUME MoneyInv, MoneyInv', NEW a, PoolKept(a)
    PROVE  Worth(a) <= Worth(a)' /\ Debt(a)' = Debt(a) /\ Worth(a) \in Nat /\ Worth(a)' \in Nat /\ Debt(a) \in Nat
<1>1. allocated \in Allocations /\ allocated' \in Allocations
  BY DEF MoneyInv, MoneyRows, Allocations
<1>2. \A p \in Payments : payment[p].amount \in Nat /\ payment'[p].amount \in Nat
  BY PriceAssumption DEF MoneyInv, MoneyRows, Payment, Amount
<1>3. \A p \in Payments : From(allocated, p) \in Nat /\ From(allocated', p) \in Nat
  BY <1>1, FromNat
<1>4. \A p \in Payments : /\ Free(p) = AtLeastZero(payment[p].amount - From(allocated, p))
                          /\ Free(p)' = AtLeastZero(payment'[p].amount - From(allocated', p))
  BY DEF Free, Spent, From
<1>5. \A p \in Payments : Free(p) \in Nat /\ Free(p)' \in Nat
  BY <1>2, <1>3, <1>4 DEF AtLeastZero
<1> DEFINE f == [p \in Payments |-> IF p \in PaymentsOf(a) THEN Free(p) ELSE 0]
           g == [p \in Payments |-> IF p \in PaymentsOf(a)' THEN Free(p)' ELSE 0]
<1>6. f \in [Payments -> Nat] /\ g \in [Payments -> Nat] /\ Worth(a) = Sum(f) /\ Worth(a)' = Sum(g)
  BY <1>5 DEF Worth
<1>7. ASSUME NEW p \in Payments
      PROVE  f[p] <= g[p]
  <2>1. CASE p \in PaymentsOf(a)
    <3>1. payment'[p] = payment[p] /\ From(allocated', p) <= From(allocated, p)
      <4>1. payment'[p] = payment[p] /\ \A i \in Inscriptions : allocated'[p][i] <= allocated[p][i]
        BY <2>1 DEF PoolKept
      <4> QED
        BY <1>1, <4>1, FromMono
    <3>2. p \in PaymentsOf(a)'
      BY <2>1, <3>1 DEF PaymentsOf
    <3>3. Free(p) <= Free(p)'
      BY <1>2, <1>3, <1>4, <3>1 DEF AtLeastZero
    <3> QED
      BY <2>1, <3>2, <3>3
  <2>2. CASE p \notin PaymentsOf(a)
    BY <1>6, <2>2
  <2> QED
    BY <2>1, <2>2
<1>8. Worth(a) <= Worth(a)' /\ Worth(a) \in Nat /\ Worth(a)' \in Nat
  <2> HIDE DEF f, g
  <2> QED
    BY <1>6, <1>7, SumMono, SumNat, FiniteAssumption
<1>9. Debt(a)' = Debt(a)
  <2> DEFINE h == [r \in Refunds |-> Paid(a, r)]
             k == [r \in Refunds |-> Paid(a, r)']
  <2>1. h = k
    BY DEF PoolKept
  <2>2. Debt(a) = Sum(h) /\ Debt(a)' = Sum(k)
    BY DEF Debt, Paid
  <2> QED
    BY <2>1, <2>2
<1> QED
  BY <1>8, <1>9, DebtNat DEF MoneyInv

\* A call beside a write that draws on nothing of its pool.
LEMMA PoolBeside ==
    ASSUME IInv, IInv', MoneyInv, MoneyInv', NoPaymentOverspent', NEW d \in Calls, call'[d] = call[d],
           Drawing(d), Refunding(d),
           call[d].op \in Payers \cup PaymentChanges \cup RefundChanges /\ call[d].at = "write" => PoolKept(call[d].scope)
    PROVE  Drawing(d)' /\ Refunding(d)'
<1> DEFINE a == call[d].scope
           k == call[d]
<1>0. MoneyCall(d) /\ MoneyCall(d)' /\ CallInv(d) /\ CallInv(d)'
  BY DEF MoneyInv, IInv
<1>1. ASSUME k.op \in Payers \cup PaymentChanges, k.at = "write"
      PROVE  Drawing(d)'
  <2>1. PoolKept(a)
    BY <1>1
  <2>2. k.moves \in [Payments -> [Inscriptions -> Int]] /\ (k.op \in PaymentChanges => k.n \in Nat)
    BY <1>0, PriceAssumption DEF MoneyCall, Moving, Changing, Amount
  <2>3. allocated \in Allocations /\ allocated' \in Allocations
    BY DEF MoneyInv, MoneyRows, Allocations
  <2>4. \A p \in Payments : payment[p].amount \in Nat /\ payment'[p].amount \in Nat
    BY PriceAssumption DEF MoneyInv, MoneyRows, Payment, Amount
  <2>5. \A p \in Payments : Remains(d, p) = Remainder(k, payment[p].amount, allocated, p)
                            /\ Remains(d, p)' = Remainder(k, payment'[p].amount, allocated', p)
    BY DEF Remains
  <2>6. ASSUME NEW p \in Payments
        PROVE  Remains(d, p) \in Int /\ Remains(d, p)' \in Int
    <3>1. payment[p].amount \in Nat /\ payment'[p].amount \in Nat
      BY <2>4
    <3>2. Remainder(k, payment[p].amount, allocated, p) \in Int
      BY <1>1, <2>2, <2>3, <3>1, RemainderInt
    <3>3. Remainder(k, payment'[p].amount, allocated', p) \in Int
      BY <1>1, <2>2, <2>3, <3>1, RemainderInt
    <3> QED
      BY <2>5, <3>2, <3>3
  <2>7. ASSUME NEW p \in PaymentsOf(a)
        PROVE  p \in PaymentsOf(a)' /\ Remains(d, p) <= Remains(d, p)'
    <3>1. payment'[p] = payment[p] /\ p \in Payments /\ \A i \in Inscriptions : allocated'[p][i] <= allocated[p][i]
      BY <2>1 DEF PoolKept, PaymentsOf
    <3>2. p \in PaymentsOf(a)'
      BY <3>1 DEF PaymentsOf
    <3>3. payment[p].amount \in Nat
      BY <2>4, <3>1
    <3>4. Remainder(k, payment[p].amount, allocated, p) <= Remainder(k, payment[p].amount, allocated', p)
      BY <1>1, <2>2, <2>3, <3>1, <3>3, RemainderMono
    <3> QED
      BY <2>5, <3>1, <3>2, <3>4
  <2>8. ASSUME NEW p \in PaymentsOf(a)', p \notin PaymentsOf(a)
        PROVE  Remains(d, p)' >= 0
    <3>1. p \in Payments /\ payment'[p].amount \in Nat
      BY <2>4 DEF PaymentsOf
    <3>2. From(allocated', p) <= payment'[p].amount
      BY <3>1 DEF NoPaymentOverspent, Spent, From
    <3>3. With(allocated', k.moves) \in Allocations
      BY <2>2, <2>3, WithIs
    <3>4. From(With(allocated', k.moves), p) \in Nat /\ From(allocated', p) \in Nat
      BY <2>3, <3>1, <3>3, FromNat
    <3>5. CASE k.op \in Payers
      <4>1. \A i \in Inscriptions : ~(k.moves[p][i] > 0)
        BY <1>0, <2>8, <3>1 DEF MoneyCall, Moving, PaymentsOf
      <4>2. From(With(allocated', k.moves), p) <= From(allocated', p)
        BY <2>2, <2>3, <3>1, <4>1, WithFalls
      <4>3. Remains(d, p)' = payment'[p].amount - From(With(allocated', k.moves), p)
        BY <2>5, <3>1, <3>5 DEF Remainder
      <4> QED
        BY <3>1, <3>2, <3>4, <4>2, <4>3
    <3>6. CASE k.op \notin Payers
      <4>1. k.item \in PaymentsOf(a)
        BY <1>0, <1>1, <3>6 DEF MoneyCall, Changing, PaymentsOf
      <4>2. Remains(d, p)' = payment'[p].amount - From(allocated', p)
        BY <2>5, <2>8, <3>1, <3>6, <4>1 DEF Remainder
      <4> QED
        BY <3>1, <3>2, <3>4, <4>2
    <3> QED
      BY <3>5, <3>6
  <2>9. (\A p \in PaymentsOf(a) : Remains(d, p) >= 0) /\ Debt(a) <= Sum([p \in Payments |-> Left(d, p)])
    BY <1>1 DEF Drawing
  <2> HIDE DEF k
  <2>10. ASSUME NEW p \in PaymentsOf(a)'
         PROVE  Remains(d, p)' >= 0
    <3>1. p \in Payments
      BY DEF PaymentsOf
    <3> QED
      BY <2>6, <2>7, <2>8, <2>9, <3>1
  <2> DEFINE f == [p \in Payments |-> Left(d, p)]
             g == [p \in Payments |-> Left(d, p)']
  <2>11. \A p \in Payments : /\ Left(d, p) = IF p \in PaymentsOf(a) THEN AtLeastZero(Remains(d, p)) ELSE 0
                             /\ Left(d, p)' = IF p \in PaymentsOf(a)' THEN AtLeastZero(Remains(d, p)') ELSE 0
    BY DEF Left
  <2>12. ASSUME NEW p \in Payments
         PROVE  f[p] \in Nat /\ g[p] \in Nat /\ f[p] <= g[p]
    <3>1. CASE p \in PaymentsOf(a)
      BY <2>6, <2>7, <2>11, <3>1 DEF AtLeastZero
    <3>2. CASE p \notin PaymentsOf(a)
      BY <2>6, <2>11, <3>2 DEF AtLeastZero
    <3> QED
      BY <3>1, <3>2
  <2>13. f \in [Payments -> Nat] /\ g \in [Payments -> Nat]
    BY <2>12
  <2>14. Debt(a)' = Debt(a) /\ Debt(a) \in Nat
    BY <2>1, PoolStays
  <2>15. Sum(f) <= Sum(g) /\ Sum(f) \in Nat /\ Sum(g) \in Nat
    <3> HIDE DEF f, g
    <3> QED
      BY <2>12, <2>13, SumMono, SumNat, FiniteAssumption
  <2>16. Debt(a)' <= Sum(g)
    BY <2>9, <2>14, <2>15
  <2> QED
    BY <2>10, <2>16 DEF Drawing
<1>2. Refunding(d)'
  <2>1. ASSUME k.op \in RefundChanges, k.at = "write"
        PROVE  Debt(a)' + k.n <= Worth(a)' + Own(d)'
    <3>1. PoolKept(a)
      BY <2>1
    <3>2. Worth(a) <= Worth(a)' /\ Debt(a)' = Debt(a) /\ Worth(a) \in Nat /\ Worth(a)' \in Nat /\ Debt(a) \in Nat
      BY <3>1, PoolStays
    <3>3. Own(d)' = Own(d) /\ Own(d) \in Nat
      <4>1. CASE k.op = "register-refund"
        BY <4>1 DEF Own
      <4>2. CASE k.op # "register-refund"
        <5>1. k.item \in Refunds /\ refund[k.item].owner = a /\ refund'[k.item].owner = a
          BY <1>0, <2>1, <4>2 DEF CallInv, OfOneOwner, ShownStays, RefundChanges
        <5>2. Paid(a, k.item)' = Paid(a, k.item) /\ Own(d)' = refund'[k.item].amount /\ Own(d) = refund[k.item].amount
          BY <3>1, <4>2, <5>1 DEF PoolKept, Own
        <5>3. refund[k.item].amount \in Nat
          BY <5>1, PriceAssumption DEF MoneyInv, OtherRows, Amount
        <5> QED
          BY <5>1, <5>2, <5>3 DEF Paid
      <4> QED
        BY <4>1, <4>2
    <3>4. Debt(a) + k.n <= Worth(a) + Own(d) /\ k.n \in Nat
      BY <1>0, <2>1 DEF Refunding, CallInv, OfOneOwner
    <3> QED
      BY <3>2, <3>3, <3>4
  <2> QED
    BY <2>1 DEF Refunding
<1> QED
  BY <1>1, <1>2 DEF Drawing

-----------------------------------------------------------------------------
\* THE OTHER CALLS

PoolUsers == Payers \cup PaymentChanges \cup RefundChanges

\* When no money moves, one call's part is enough.
LEMMA PoolsQuiet ==
    ASSUME PoolSums, NEW c \in Calls, \A d \in Calls \ {c} : call'[d] = call[d], UNCHANGED PoolTables,
           Drawing(c)', Refunding(c)'
    PROVE  PoolSums'
<1>1. UNCHANGED <<payment, allocated, refund>>
  BY DEF PoolTables
<1>2. NoPaymentOverspent' /\ \A a \in Academies : Debt(a)' <= Worth(a)'
  BY <1>1 DEF PoolSums, NoPaymentOverspent, Debt, Worth, PaymentsOf, Free, Spent
<1>3. ASSUME NEW d \in Calls, d # c
      PROVE  Drawing(d)' /\ Refunding(d)'
  <2>1. call'[d] = call[d] /\ Drawing(d) /\ Refunding(d)
    BY <1>3 DEF PoolSums
  <2> QED
    BY <1>1, <2>1 DEF Drawing, Refunding, Remains, Left, Own, Debt, Worth, PaymentsOf, Free, Spent
<1> QED
  BY <1>2, <1>3 DEF PoolSums

\* No call moves, and no money.
LEMMA PoolsIdle ==
    ASSUME PoolSums, UNCHANGED call, UNCHANGED PoolTables
    PROVE  PoolSums'
<1>1. UNCHANGED <<payment, allocated, refund>>
  BY DEF PoolTables
<1>2. NoPaymentOverspent' /\ \A a \in Academies : Debt(a)' <= Worth(a)'
  BY <1>1 DEF PoolSums, NoPaymentOverspent, Debt, Worth, PaymentsOf, Free, Spent
<1>3. ASSUME NEW d \in Calls
      PROVE  Drawing(d)' /\ Refunding(d)'
  <2>1. Drawing(d) /\ Refunding(d)
    BY DEF PoolSums
  <2> QED
    BY <1>1, <2>1 DEF Drawing, Refunding, Remains, Left, Own, Debt, Worth, PaymentsOf, Free, Spent
<1> QED
  BY <1>2, <1>3 DEF PoolSums

\* A call that goes on and is not about to write to its pool.
LEMMA PoolsOther ==
    ASSUME IInv, PoolSums, NEW c \in Calls, NEW fields, Become(c, fields), UNCHANGED PoolTables,
           fields.at # "write" \/ fields.op \notin PoolUsers, fields.op # "delete-refund"
    PROVE  PoolSums'
<1>1. call'[c] = fields /\ \A d \in Calls \ {c} : call'[d] = call[d]
  BY DEF IInv, CallsInv, Become
<1>2. Drawing(c)' /\ Refunding(c)'
  BY <1>1 DEF Drawing, Refunding, PoolUsers
<1> QED
  BY <1>1, <1>2, PoolsQuiet

\* A call that ends is about to draw on nothing.
LEMMA PoolsEnd ==
    ASSUME IInv, PoolSums, NEW c \in Calls, End(c), UNCHANGED PoolTables
    PROVE  PoolSums'
<1>1. Become(c, NoCall)
  BY DEF End, Become
<1>2. NoCall.op = "none" /\ NoCall.at = "idle"
  BY DEF NoCall
<1> QED
  BY <1>1, <1>2, PoolsOther

\* A refused call ends.
LEMMA PoolsRefused ==
    ASSUME IInv, PoolSums, NEW c \in Calls, Refuse(c)
    PROVE  PoolSums'
BY PoolsEnd DEF Refuse, rows, PoolTables

\* A call that begins is about to draw on nothing.
LEMMA PoolsStart ==
    ASSUME IInv, PoolSums, NEW c \in Calls, Start(c)
    PROVE  PoolSums'
<1>1. /\ Framed(c) /\ UNCHANGED rows /\ call'[c].at # "write"
      /\ call'[c].op = "delete-refund" => call'[c].n = 0
  BY Starts
<1>2. UNCHANGED PoolTables
  BY <1>1 DEF rows, PoolTables
<1>3. Drawing(c)' /\ Refunding(c)'
  BY <1>1 DEF Drawing, Refunding
<1> QED
  BY <1>1, <1>2, <1>3, PoolsQuiet DEF Framed

\* Calls that plan or take locks, removals included: their pools stay as they are.
LEMMA PoolsPlan ==
    ASSUME IInv, PoolSums, NEW c \in Calls,
           \/ \E i \in Inscriptions : ReadGesture(c, i) \/ ReadDepositRelease(c, i) \/ UnwindFromRow(c, i)
           \/ ReadCharge(c) \/ LockRow(c) \/ LockAnchor(c) \/ LockChoreography(c)
           \/ DecideRosterRemoval(c) \/ DecideChoreographyRemoval(c) \/ DecideSeminarRemoval(c)
           \/ WriteSeminarRow(c) \/ ReleaseAboveDeposit(c)
           \/ ReserveLines(c) \/ SettleEmission(c) \/ LockMergePool(c) \/ LockAcademies(c)
    PROVE  PoolSums'
<1>0. CallInv(c) /\ DOMAIN call[c] = DOMAIN NoCall
  BY DEF IInv, CallsInv
<1>1. CASE Refuse(c)
  BY <1>1, PoolsRefused
<1> DEFINE Goes(fields) == /\ Become(c, fields) /\ UNCHANGED PoolTables
                           /\ fields.at # "write" \/ fields.op \notin PoolUsers
                           /\ fields.op # "delete-refund"
<1>2. ASSUME NEW fields, Goes(fields)
      PROVE  PoolSums'
  BY <1>2, PoolsOther
<1>3. UNCHANGED rows => UNCHANGED PoolTables
  BY DEF rows, PoolTables
<1> DEFINE Away == (Gestures \ {"allocate"}) \cup Removals \cup {"merge", "emit"}
<1>4. Away \cap PoolUsers = {} /\ "delete-refund" \notin Away
  BY DEF PoolUsers, PaymentChanges, RefundChanges, Payers, Charges, Gestures, Removals
<1>5. ASSUME NEW i \in Inscriptions, ReadGesture(c, i), ~Refuse(c)
      PROVE  PoolSums'
  <2> DEFINE amount == GestureAmount(c, i)
             below == IF Crossed(i) THEN {} ELSE {i}
             fields == [call[c] EXCEPT !.at = "pool", !.need[i] = amount, !.onPrice = below]
  <2>1. call[c].op \in Gestures /\ Become(c, fields) /\ UNCHANGED rows
    BY <1>5 DEF ReadGesture
  <2> HIDE DEF amount, below
  <2>2. fields.op = call[c].op /\ fields.at = "pool"
    BY <1>0 DEF NoCall
  <2> HIDE DEF fields
  <2>3. Goes(fields)
    BY <1>3, <2>1, <2>2 DEF Gestures
  <2> QED
    BY <1>2, <2>3
<1>6. ASSUME NEW i \in Inscriptions, ReadDepositRelease(c, i), ~Refuse(c)
      PROVE  PoolSums'
  <2> DEFINE fields == [call[c] EXCEPT !.at = "pool"]
  <2>1. call[c].op = "release-deposit" /\ Become(c, fields) /\ UNCHANGED rows
    BY <1>6 DEF ReadDepositRelease, Go
  <2>2. fields.op = call[c].op /\ fields.at = "pool"
    BY <1>0 DEF NoCall
  <2> HIDE DEF fields
  <2>3. Goes(fields)
    BY <1>3, <2>1, <2>2
  <2> QED
    BY <1>2, <2>3
<1>7. ASSUME NEW i \in Inscriptions, UnwindFromRow(c, i), ~Refuse(c)
      PROVE  PoolSums'
  <2> DEFINE need == IF call[c].op = "release-deposit" THEN [MoneyNowhere EXCEPT ![i] = Held(i)] ELSE call[c].need
             moves == Unwind(need)
             fields == [[call[c] EXCEPT !.moves = moves] EXCEPT !.at = "write"]
  <2>1. call[c].op \in Away /\ Become(c, fields) /\ UNCHANGED rows
    BY <1>7 DEF UnwindFromRow, WithPool
  <2> HIDE DEF need, moves
  <2>2. fields.op = call[c].op
    BY <1>0 DEF NoCall
  <2> HIDE DEF fields, Away
  <2>3. Goes(fields)
    BY <1>3, <1>4, <2>1, <2>2
  <2> QED
    BY <1>2, <2>3
<1>8. CASE ReadCharge(c) /\ ~Refuse(c)
  <2>1. CASE End(c)
    <3>1. UNCHANGED PoolTables
      BY <1>8, <2>1 DEF ReadCharge, rows, PoolTables
    <3> QED
      BY <2>1, <3>1, PoolsEnd
  <2>2. CASE ~End(c)
    <3>1. PICK rate : ChargeBecomes(c, rate)
      BY <1>8, <2>2, ChargePlans DEF IInv
    <3>2. call[c].op \in Charges /\ UNCHANGED rows
      BY <1>8, <2>2, ChargePlans DEF IInv, ReadCharge
    <3> DEFINE need == FirstNeed(c)
               charged == Charged(c)
               onPrice == OnPrice(c)
               fields == [call[c] EXCEPT !.at = "pool", !.rows = charged, !.onPrice = onPrice, !.need = need, !.rate = rate]
    <3>3. Become(c, fields)
      BY <3>1 DEF ChargeBecomes
    <3> HIDE DEF need, charged, onPrice
    <3>4. fields.op = call[c].op /\ fields.at = "pool"
      BY <1>0 DEF NoCall
    <3> HIDE DEF fields
    <3>5. Goes(fields)
      BY <1>3, <3>2, <3>3, <3>4 DEF Charges
    <3> QED
      BY <1>2, <3>5
  <2> QED
    BY <2>1, <2>2
<1>9. CASE LockRow(c)
  BY <1>9, PoolsIdle DEF LockRow, rows, PoolTables
<1>10. ASSUME NEW place, NEW cut, call[c].op \in Away, UNCHANGED PoolTables,
              Become(c, [call[c] EXCEPT !.at = place]) \/ Become(c, [call[c] EXCEPT !.at = place, !.cut = cut])
       PROVE  PoolSums'
  <2> DEFINE f == [call[c] EXCEPT !.at = place]
             g == [call[c] EXCEPT !.at = place, !.cut = cut]
  <2>1. f.op = call[c].op /\ g.op = call[c].op
    BY <1>0 DEF NoCall
  <2>2. Become(c, f) \/ Become(c, g)
    BY <1>10
  <2> HIDE DEF f, g, Away
  <2>3. Goes(f) \/ Goes(g)
    BY <1>4, <1>10, <2>1, <2>2
  <2> QED
    BY <1>2, <2>3
<1>11. CASE LockAnchor(c) \/ WriteSeminarRow(c) \/ (LockAcademies(c) /\ ~Refuse(c)) \/ LockMergePool(c)
            \/ (ReserveLines(c) /\ ~Refuse(c))
  <2>1. call[c].op \in Away
    BY <1>0, <1>11 DEF LockAnchor, WriteSeminarRow, LockAcademies, LockMergePool, ReserveLines, CallInv, Placed, Removals
  <2>2. UNCHANGED PoolTables /\ \E place : Become(c, [call[c] EXCEPT !.at = place])
    BY <1>11 DEF LockAnchor, WriteSeminarRow, LockAcademies, LockMergePool, ReserveLines, Go, rows, PoolTables
  <2> HIDE DEF Away
  <2> QED
    BY <1>10, <2>1, <2>2
<1>12. CASE DecideRosterRemoval(c) \/ DecideChoreographyRemoval(c) \/ DecideSeminarRemoval(c)
  <2>1. call[c].op \in Away
    BY <1>0, <1>12 DEF DecideRosterRemoval, DecideChoreographyRemoval, DecideSeminarRemoval, CallInv, Placed, Removals
  <2>2. UNCHANGED PoolTables
    BY <1>12 DEF DecideRosterRemoval, DecideChoreographyRemoval, DecideSeminarRemoval, rows, PoolTables
  <2>3. \E place, cut : Become(c, [call[c] EXCEPT !.at = place, !.cut = cut])
    BY <1>12 DEF DecideRosterRemoval, DecideChoreographyRemoval, DecideSeminarRemoval
  <2> HIDE DEF Away
  <2> QED
    BY <1>10, <2>1, <2>2, <2>3
<1>13. CASE LockChoreography(c) /\ ~Refuse(c)
  <2> DEFINE taken == IF call[c].op = "sync-roster" THEN call[c].rows \cap ActiveRows(call[c].unit)
                                                    ELSE ActiveRows(call[c].unit)
             fields == [call[c] EXCEPT !.at = "rows", !.rows = taken, !.scope = academyOf[call[c].unit]]
  <2>1. call[c].at = "choreography" /\ Become(c, fields) /\ UNCHANGED rows
    BY <1>13 DEF LockChoreography
  <2> HIDE DEF taken
  <2>2. fields.op = call[c].op /\ call[c].op \in Away
    BY <1>0, <2>1 DEF CallInv, Placed, OfChoreography, Removals, NoCall
  <2> HIDE DEF fields, Away
  <2>3. Goes(fields)
    BY <1>3, <1>4, <2>1, <2>2
  <2> QED
    BY <1>2, <2>3
<1>14. CASE ReleaseAboveDeposit(c)
  <2> DEFINE need == [i \in Inscriptions |-> IF i \in call[c].rows \ call[c].cut THEN Held(i) - Retained(i) ELSE 0]
             moves == Unwind(need)
             fields == [[call[c] EXCEPT !.moves = moves] EXCEPT !.at = "write"]
  <2>1. call[c].op \in Away /\ Become(c, fields) /\ UNCHANGED rows
    BY <1>14 DEF ReleaseAboveDeposit, WithPool, Removals
  <2> HIDE DEF need, moves
  <2>2. fields.op = call[c].op
    BY <1>0 DEF NoCall
  <2> HIDE DEF fields, Away
  <2>3. Goes(fields)
    BY <1>3, <1>4, <2>1, <2>2
  <2> QED
    BY <1>2, <2>3
<1>15. CASE SettleEmission(c)
  BY <1>15, PoolsEnd DEF SettleEmission, PoolTables
<1> HIDE DEF Goes, Away
<1> QED
  BY <1>1, <1>5, <1>6, <1>7, <1>8, <1>9, <1>11, <1>12, <1>13, <1>14, <1>15

-----------------------------------------------------------------------------
\* A CALL WRITES

\* Whoever writes holds the pools it draws on, and leaves the others as they are.
LEMMA PoolsWritten ==
    ASSUME IInv, IInv', MoneyInv, MoneyInv', PoolSums, NEW c \in Calls, End(c), NEW S,
           \A a \in S : <<"pool", a>> \in held[c], NoPaymentOverspent',
           \A a \in Academies \ S : PoolKept(a),
           \A a \in S : Debt(a)' <= Worth(a)'
    PROVE  PoolSums'
<1>1. ASSUME NEW a \in Academies
      PROVE  Debt(a)' <= Worth(a)'
  <2>1. CASE a \in S
    BY <2>1
  <2>2. CASE a \notin S
    <3>1. PoolKept(a)
      BY <2>2
    <3>2. Worth(a) <= Worth(a)' /\ Debt(a)' = Debt(a) /\ Worth(a) \in Nat /\ Worth(a)' \in Nat /\ Debt(a) \in Nat
      BY <3>1, PoolStays
    <3>3. Debt(a) <= Worth(a)
      BY DEF PoolSums
    <3> QED
      BY <3>2, <3>3
  <2> QED
    BY <2>1, <2>2
<1>2. ASSUME NEW d \in Calls, d # c
      PROVE  Drawing(d)' /\ Refunding(d)'
  <2>1. call'[d] = call[d] /\ held[c] \cap held[d] = {} /\ MoneyCall(d) /\ CallInv(d)
    BY <1>2, Beside
  <2>2. ASSUME call[d].op \in Payers \cup PaymentChanges \cup RefundChanges, call[d].at = "write"
        PROVE  PoolKept(call[d].scope)
    <3>1. <<"pool", call[d].scope>> \in held[d]
      BY <2>1, <2>2 DEF MoneyCall, Moving, Changing, PoolHeld, CallInv, Locked
    <3>2. call[d].scope \in Academies
      BY <2>1, <2>2 DEF MoneyCall, Shaped, Payers, Charges, PaymentChanges, RefundChanges
    <3>3. call[d].scope \notin S
      BY <2>1, <3>1
    <3> QED
      BY <3>2, <3>3
  <2>3. Drawing(d) /\ Refunding(d)
    BY DEF PoolSums
  <2> QED
    BY <2>1, <2>2, <2>3, PoolBeside
<1>3. call'[c] = NoCall
  BY DEF End, IInv, CallsInv
<1>4. call'[c].op = "none" /\ call'[c].at = "idle"
  BY <1>3 DEF NoCall
<1>5. Drawing(c)' /\ Refunding(c)'
  BY <1>4 DEF Drawing, Refunding
<1> QED
  BY <1>1, <1>2, <1>5 DEF PoolSums

\* Payments keep within their amount when no allocation grows and none shrinks.
LEMMA StillUnspent ==
    ASSUME MoneyInv, MoneyInv', NoPaymentOverspent, NEW p \in Payments, payment[p].amount <= payment'[p].amount,
           \A i \in Inscriptions : allocated'[p][i] <= allocated[p][i]
    PROVE  Spent(p)' <= payment'[p].amount
<1>1. allocated \in Allocations /\ allocated' \in Allocations
  BY DEF MoneyInv, MoneyRows, Allocations
<1>2. From(allocated', p) <= From(allocated, p) /\ From(allocated', p) \in Nat /\ From(allocated, p) \in Nat
  BY <1>1, FromMono, FromNat
<1>3. Spent(p)' = From(allocated', p) /\ From(allocated, p) <= payment[p].amount
  BY DEF NoPaymentOverspent, Spent, From
<1>4. payment[p].amount \in Nat /\ payment'[p].amount \in Nat
  BY PriceAssumption DEF MoneyInv, MoneyRows, Payment, Amount
<1> QED
  BY <1>2, <1>3, <1>4

\* Money that only goes back draws on no pool.
LEMMA PoolsFall ==
    ASSUME IInv, IInv', MoneyInv, MoneyInv', PoolSums, NEW c \in Calls, End(c), UNCHANGED <<payment, refund>>,
           \A p \in Payments, i \in Inscriptions : allocated'[p][i] <= allocated[p][i]
    PROVE  PoolSums'
<1> DEFINE nobody == {}
<1>1. \A a \in Academies \ nobody : PoolKept(a)
  BY DEF PoolKept, PaymentsOf, Paid
<1>2. NoPaymentOverspent'
  <2>1. ASSUME NEW p \in Payments
        PROVE  Spent(p)' <= payment'[p].amount
    <3>1. payment[p].amount <= payment'[p].amount
      BY PriceAssumption DEF MoneyInv, MoneyRows, Payment, Amount
    <3> QED
      BY <3>1, StillUnspent DEF PoolSums
  <2> QED
    BY <2>1 DEF NoPaymentOverspent
<1>3. (\A a \in nobody : <<"pool", a>> \in held[c]) /\ \A a \in nobody : Debt(a)' <= Worth(a)'
  OBVIOUS
<1> HIDE DEF nobody
<1> QED
  BY <1>1, <1>2, <1>3, PoolsWritten

\* What a call drew on its pool is what it was about to leave in it.
LEMMA PoolDrawn ==
    ASSUME PoolSums, NEW c \in Calls, call[c].op \in Payers \cup PaymentChanges, call[c].at = "write",
           NEW a, a = call[c].scope, \A r \in Refunds : Paid(a, r)' = Paid(a, r),
           \A p \in Payments : Left(c, p) = IF p \in PaymentsOf(a)'
                                            THEN AtLeastZero(payment'[p].amount - From(allocated', p)) ELSE 0
    PROVE  Debt(a)' <= Worth(a)'
<1> DEFINE f == [p \in Payments |-> Left(c, p)]
           g == [p \in Payments |-> IF p \in PaymentsOf(a)' THEN Free(p)' ELSE 0]
           h == [r \in Refunds |-> Paid(a, r)]
           k == [r \in Refunds |-> Paid(a, r)']
<1>1. \A p \in Payments : Free(p)' = AtLeastZero(payment'[p].amount - From(allocated', p))
  BY DEF Free, Spent, From
<1>2. \A p \in Payments : f[p] = g[p]
  BY <1>1
<1>3. f = g /\ h = k
  <2>1. DOMAIN f = Payments /\ DOMAIN g = Payments
    OBVIOUS
  <2>2. h = k
    OBVIOUS
  <2>3. f = g
    BY <1>1
  <2> QED
    BY <2>2, <2>3
<1>4. Worth(a)' = Sum(g) /\ Debt(a) = Sum(h) /\ Debt(a)' = Sum(k)
  BY DEF Worth, Debt, Paid
<1>5. Debt(a) <= Sum(f)
  BY DEF PoolSums, Drawing
<1> HIDE DEF f, g, h, k
<1> QED
  BY <1>3, <1>4, <1>5

\* The write of what was planned under the pool's lock.
LEMMA PoolsMoveMoney ==
    ASSUME IInv, IInv', MoneyInv, MoneyInv', PoolSums, NEW c \in Calls, MoveMoney(c)
    PROVE  PoolSums'
<1>1. /\ call[c].op \in Movers /\ call[c].at = "write" /\ allocated' = Moved(c, {}) /\ End(c)
      /\ UNCHANGED <<payment, refund>> /\ MoneyCall(c)
  BY DEF MoveMoney, Movers, MoneyInv
<1>2. \A p \in Payments, i \in Inscriptions :
         /\ allocated'[p][i] = With(allocated, call[c].moves)[p][i]
         /\ ~(call[c].moves[p][i] > 0) => allocated'[p][i] <= allocated[p][i]
  BY <1>1, MovedAre
<1>3. allocated' \in Allocations /\ With(allocated, call[c].moves) \in Allocations
  BY <1>1, MovedAre DEF MoneyInv, MoneyRows, Allocations
<1>4. ASSUME NEW p \in Payments
      PROVE  From(allocated', p) = From(With(allocated, call[c].moves), p)
  <2> DEFINE f == allocated'[p]
             g == With(allocated, call[c].moves)[p]
  <2>1. f \in [Inscriptions -> Nat] /\ g \in [Inscriptions -> Nat] /\ \A i \in Inscriptions : f[i] = g[i]
    BY <1>2, <1>3 DEF Allocations
  <2>2. f = g
    <3> HIDE DEF f, g
    <3> QED
      BY <2>1
  <2> QED
    BY <2>2 DEF From
<1>5. CASE call[c].op \notin Payers
  <2>1. \A p \in Payments, i \in Inscriptions : allocated'[p][i] <= allocated[p][i]
    BY <1>1, <1>2, <1>5 DEF MoneyCall, Moving
  <2> QED
    BY <1>1, <2>1, PoolsFall
<1>6. CASE call[c].op \in Payers
  <2>0. PICK a : a = call[c].scope
    OBVIOUS
  <2>1. <<"pool", a>> \in held[c]
    BY <1>1, <1>6, <2>0 DEF MoneyCall, Moving, PoolHeld
  <2>2. ASSUME NEW p \in Payments, p \notin PaymentsOf(a), NEW i \in Inscriptions
        PROVE  allocated'[p][i] <= allocated[p][i]
    BY <1>1, <1>2, <2>0, <2>2 DEF MoneyCall, Moving, PaymentsOf
  <2>3. \A p \in PaymentsOf(a) : Remains(c, p) >= 0
    BY <1>1, <1>6, <2>0 DEF PoolSums, Drawing
  <2>4. \A p \in Payments : Remains(c, p) = payment[p].amount - From(allocated', p)
    BY <1>4, <1>6 DEF Remains, Remainder
  <2>5. NoPaymentOverspent'
    <3>1. ASSUME NEW p \in Payments
          PROVE  Spent(p)' <= payment'[p].amount
      <4>1. payment'[p] = payment[p] /\ payment[p].amount \in Nat /\ From(allocated', p) \in Nat
        BY <1>1, <1>3, FromNat, AmountsNat DEF MoneyInv
      <4>2. CASE p \in PaymentsOf(a)
        <5>1. Spent(p)' = From(allocated', p)
          BY DEF Spent, From
        <5>2. Remains(c, p) >= 0 /\ Remains(c, p) = payment[p].amount - From(allocated', p)
          BY <2>3, <2>4, <4>2
        <5> QED
          BY <4>1, <5>1, <5>2
      <4>3. CASE p \notin PaymentsOf(a)
        <5>1. \A i \in Inscriptions : allocated'[p][i] <= allocated[p][i]
          BY <2>2, <4>3
        <5>2. payment[p].amount <= payment'[p].amount
          BY <4>1
        <5> QED
          BY <5>1, <5>2, StillUnspent DEF PoolSums
      <4> QED
        BY <4>2, <4>3
    <3> QED
      BY <3>1 DEF NoPaymentOverspent
  <2>6. \A b \in Academies \ {a} : PoolKept(b)
    <3>1. ASSUME NEW b \in Academies \ {a}, NEW p \in PaymentsOf(b)
          PROVE  p \in Payments /\ p \notin PaymentsOf(a)
      BY DEF PaymentsOf
    <3> QED
      BY <1>1, <2>2, <3>1 DEF PoolKept, Paid
  <2>7. \A r \in Refunds : Paid(a, r)' = Paid(a, r)
    BY <1>1 DEF Paid
  <2>8. PaymentsOf(a)' = PaymentsOf(a)
    BY <1>1 DEF PaymentsOf
  <2>9. \A p \in Payments : Left(c, p) = IF p \in PaymentsOf(a)'
                                         THEN AtLeastZero(payment'[p].amount - From(allocated', p)) ELSE 0
    BY <1>1, <2>0, <2>4, <2>8 DEF Left
  <2>10. Debt(a)' <= Worth(a)'
    BY <1>1, <1>6, <2>0, <2>7, <2>9, PoolDrawn
  <2> DEFINE mine == {a}
  <2>11. /\ \A b \in mine : <<"pool", b>> \in held[c]
         /\ \A b \in mine : Debt(b)' <= Worth(b)'
         /\ \A b \in Academies \ mine : PoolKept(b)
    BY <2>1, <2>6, <2>10
  <2> HIDE DEF mine
  <2> QED
    BY <1>1, <2>5, <2>11, PoolsWritten
<1> QED
  BY <1>5, <1>6

\* A removal's write only gives money back.
LEMMA PoolsCommitRemoval ==
    ASSUME IInv, IInv', MoneyInv, MoneyInv', PoolSums, NEW c \in Calls, CommitRemoval(c)
    PROVE  PoolSums'
<1>1. /\ call[c].op \in Removals /\ allocated' = Moved(c, call[c].cut) /\ End(c)
      /\ UNCHANGED <<payment, refund>> /\ MoneyCall(c)
  BY DEF CommitRemoval, Removals, MoneyInv
<1>2. \A p \in Payments, i \in Inscriptions : ~(call[c].moves[p][i] > 0)
  BY <1>1 DEF MoneyCall, Moving, Payers, Charges, Removals
<1>3. ASSUME NEW p \in Payments, NEW i \in Inscriptions
      PROVE  allocated'[p][i] <= allocated[p][i]
  <2>1. /\ allocated[p][i] \in Nat
        /\ ~(call[c].moves[p][i] > 0) => With(allocated, call[c].moves)[p][i] <= allocated[p][i]
        /\ i \in call[c].cut => allocated'[p][i] = 0
        /\ i \notin call[c].cut => allocated'[p][i] = With(allocated, call[c].moves)[p][i]
    BY <1>1, MovedAre
  <2> QED
    BY <1>2, <2>1
<1> QED
  BY <1>1, <1>3, PoolsFall

-----------------------------------------------------------------------------
\* PAYMENTS CHANGE

\* A payment edited or deleted under its pool.
LEMMA PoolsChangePayment ==
    ASSUME IInv, IInv', MoneyInv, MoneyInv', PoolSums, NEW c \in Calls,
           call[c].op \in PaymentChanges, call[c].at = "write", End(c), refund' = refund,
           NEW p \in Payments, p = call[c].item, NEW a, a = call[c].scope,
           \A q \in Payments \ {p} : payment'[q] = payment[q] /\ allocated'[q] = allocated[q],
           Spent(p)' <= payment'[p].amount,
           Left(c, p) = IF p \in PaymentsOf(a)'
                        THEN AtLeastZero(payment'[p].amount - From(allocated', p)) ELSE 0
    PROVE  PoolSums'
<1>1. MoneyCall(c) /\ <<"pool", a>> \in held[c] /\ payment[p].owner = a
  BY DEF MoneyInv, MoneyCall, Changing, PoolHeld
<1>2. allocated \in Allocations /\ allocated' \in Allocations
  BY DEF MoneyInv, MoneyRows, Allocations
<1>3. \A q \in Payments, i \in Inscriptions : allocated[q][i] \in Nat
  BY <1>2 DEF Allocations
<1>4. NoPaymentOverspent'
  <2>1. ASSUME NEW q \in Payments
        PROVE  Spent(q)' <= payment'[q].amount
    <3>1. CASE q = p
      BY <3>1
    <3>2. CASE q # p
      BY <3>2 DEF Spent, PoolSums, NoPaymentOverspent
    <3> QED
      BY <3>1, <3>2
  <2> QED
    BY <2>1 DEF NoPaymentOverspent
<1>5. ASSUME NEW b \in Academies \ {a}
      PROVE  PoolKept(b)
  <2>1. ASSUME NEW q \in PaymentsOf(b)
        PROVE  q \in Payments \ {p}
    BY <1>1 DEF PaymentsOf
  <2>2. ASSUME NEW q \in PaymentsOf(b), NEW i \in Inscriptions
        PROVE  payment'[q] = payment[q] /\ allocated'[q][i] <= allocated[q][i]
    BY <1>3, <2>1
  <2>3. \A q \in PaymentsOf(b) : payment'[q] = payment[q]
    BY <2>1
  <2> QED
    BY <2>2, <2>3 DEF PoolKept, Paid
<1>6. \A r \in Refunds : Paid(a, r)' = Paid(a, r)
  BY DEF Paid
<1>7. ASSUME NEW q \in Payments
      PROVE  Left(c, q) = IF q \in PaymentsOf(a)' THEN AtLeastZero(payment'[q].amount - From(allocated', q)) ELSE 0
  <2>1. CASE q = p
    BY <2>1
  <2>2. CASE q # p
    <3>1. payment'[q] = payment[q] /\ allocated'[q] = allocated[q]
      BY <2>2
    <3>2. From(allocated', q) = From(allocated, q)
      BY <3>1 DEF From
    <3>3. q \in PaymentsOf(a)' <=> q \in PaymentsOf(a)
      BY <3>1 DEF PaymentsOf
    <3>4. Remains(c, q) = payment[q].amount - From(allocated, q)
      BY <2>2 DEF Remains, Remainder, PaymentChanges, Payers, Charges
    <3> QED
      BY <3>1, <3>2, <3>3, <3>4 DEF Left
  <2> QED
    BY <2>1, <2>2
<1>8. Debt(a)' <= Worth(a)'
  BY <1>6, <1>7, PoolDrawn
<1> DEFINE mine == {a}
<1>9. /\ \A b \in mine : <<"pool", b>> \in held[c]
      /\ \A b \in mine : Debt(b)' <= Worth(b)'
      /\ \A b \in Academies \ mine : PoolKept(b)
  BY <1>1, <1>5, <1>8
<1> HIDE DEF mine
<1> QED
  BY <1>4, <1>9, PoolsWritten

\* An edited payment: what was checked under the pool's lock holds when it is written.
LEMMA PoolsUpdatePayment ==
    ASSUME IInv, IInv', MoneyInv, MoneyInv', PoolSums, NEW c \in Calls, NEW p \in Payments, UpdatePayment(c, p)
    PROVE  PoolSums'
<1>1. /\ call[c].op = "edit-payment" /\ call[c].at = "write" /\ p = call[c].item /\ End(c)
      /\ payment' = IF call[c].into \in merged THEN payment
                    ELSE [payment EXCEPT ![p] = [owner |-> call[c].into, amount |-> call[c].n]]
      /\ UNCHANGED <<refund, allocated>> /\ MoneyCall(c)
  BY DEF UpdatePayment, MoneyInv
<1>2. CASE call[c].into \in merged
  BY <1>1, <1>2, PoolsEnd DEF PoolTables
<1>0. PICK a : a = call[c].scope
  OBVIOUS
<1>3. CASE call[c].into \notin merged
  <2>1. /\ payment'[p] = [owner |-> call[c].into, amount |-> call[c].n]
        /\ \A q \in Payments \ {p} : payment'[q] = payment[q] /\ allocated'[q] = allocated[q]
    BY <1>1, <1>3 DEF MoneyInv, MoneyRows
  <2>2. payment'[p].owner = call[c].into /\ payment'[p].amount = call[c].n
    BY <2>1
  <2>3. /\ call[c].n \in Nat /\ call[c].n > 0 /\ p \in PaymentsOf(call[c].scope)
        /\ call[c].into # call[c].scope => \A i \in Inscriptions : allocated[p][i] = 0
    BY <1>1, PriceAssumption DEF MoneyCall, Changing, PaymentChanges, PaymentsOf, Amount
  <2>4. Spent(p)' = From(allocated, p) /\ From(allocated', p) = From(allocated, p) /\ Spent(p) = From(allocated, p)
    BY <1>1 DEF Spent, From
  <2>5. From(allocated, p) \in Nat
    BY <2>4, AmountsNat DEF MoneyInv
  <2>6. Remains(c, p) = IF call[c].into = call[c].scope THEN call[c].n - From(allocated, p) ELSE 0
    BY <1>1 DEF Remains, Remainder, Payers, Charges
  <2>7. Remains(c, p) >= 0
    BY <1>1, <2>3 DEF PoolSums, Drawing, PaymentChanges
  <2>8. Spent(p)' <= payment'[p].amount
    <3>1. CASE call[c].into = call[c].scope
      BY <2>2, <2>3, <2>4, <2>5, <2>6, <2>7, <3>1
    <3>2. CASE call[c].into # call[c].scope
      <4>1. Spent(p) = 0
        BY <2>3, <3>2, SpentNat DEF MoneyInv
      <4> QED
        BY <2>2, <2>3, <2>4, <4>1
    <3> QED
      BY <3>1, <3>2
  <2>9. p \in PaymentsOf(a)' <=> call[c].into = call[c].scope
    BY <1>0, <2>2, <2>3 DEF PaymentsOf
  <2>10. Left(c, p) = IF p \in PaymentsOf(a)'
                      THEN AtLeastZero(payment'[p].amount - From(allocated', p)) ELSE 0
    <3>1. Left(c, p) = AtLeastZero(Remains(c, p))
      BY <2>3 DEF Left
    <3>2. CASE call[c].into = call[c].scope
      BY <2>2, <2>4, <2>6, <2>9, <3>1, <3>2
    <3>3. CASE call[c].into # call[c].scope
      BY <2>6, <2>9, <3>1, <3>3 DEF AtLeastZero
    <3> QED
      BY <3>2, <3>3
  <2> QED
    BY <1>0, <1>1, <2>1, <2>8, <2>10, PoolsChangePayment DEF PaymentChanges
<1> QED
  BY <1>2, <1>3

\* A deleted payment: the same.
LEMMA PoolsDeletePayment ==
    ASSUME IInv, IInv', MoneyInv, MoneyInv', PoolSums, NEW c \in Calls, NEW p \in Payments, DeletePayment(c, p)
    PROVE  PoolSums'
<1>1. /\ call[c].op = "delete-payment" /\ call[c].at = "write" /\ p = call[c].item /\ End(c)
      /\ payment' = [payment EXCEPT ![p].amount = 0]
      /\ allocated' = [allocated EXCEPT ![p] = MoneyNowhere]
      /\ refund' = refund
  BY DEF DeletePayment
<1>2. /\ payment'[p].amount = 0 /\ allocated'[p] = MoneyNowhere
      /\ \A q \in Payments \ {p} : payment'[q] = payment[q] /\ allocated'[q] = allocated[q]
  BY <1>1 DEF MoneyInv, MoneyRows, Payment
<1>3. Spent(p)' = 0
  <2>1. MoneyNowhere \in [Inscriptions -> Nat] /\ \A i \in Inscriptions : MoneyNowhere[i] = 0
    BY DEF MoneyNowhere
  <2>2. Spent(p)' = Sum(MoneyNowhere)
    BY <1>2 DEF Spent
  <2> QED
    BY <2>1, <2>2, SumNat, FiniteAssumption
<1>0. PICK a : a = call[c].scope
  OBVIOUS
<1>4. p \notin PaymentsOf(a)'
  BY <1>2 DEF PaymentsOf
<1>5. Left(c, p) = 0
  <2>1. Remains(c, p) = 0
    BY <1>1 DEF Remains, Remainder, Payers, Charges
  <2> QED
    BY <2>1 DEF Left, AtLeastZero
<1>6. Spent(p)' <= payment'[p].amount
  BY <1>2, <1>3
<1> QED
  BY <1>0, <1>1, <1>2, <1>4, <1>5, <1>6, PoolsChangePayment DEF PaymentChanges

-----------------------------------------------------------------------------
\* REFUNDS AND MERGES

\* A sum of which one term changes.
LEMMA SumSwap ==
    ASSUME NEW S, IsFiniteSet(S), NEW x \in S, NEW f \in [S -> Nat], NEW g \in [S -> Nat],
           \A y \in S \ {x} : g[y] = f[y]
    PROVE  Sum(g) + f[x] = Sum(f) + g[x] /\ Sum(f) \in Nat /\ Sum(g) \in Nat
<1> DEFINE rest == [y \in S |-> IF y = x THEN 0 ELSE f[y]]
           was == [y \in S |-> IF y = x THEN f[x] ELSE 0]
           is == [y \in S |-> IF y = x THEN g[x] ELSE 0]
<1>1. rest \in [S -> Nat] /\ was \in [S -> Nat] /\ is \in [S -> Nat]
  OBVIOUS
<1>2. \A y \in S : f[y] = rest[y] + was[y] /\ g[y] = rest[y] + is[y]
  OBVIOUS
<1>3. /\ was[x] = f[x] /\ is[x] = g[x]
      /\ \A y \in S \ {x} : was[y] = 0 /\ is[y] = 0
  OBVIOUS
<1> HIDE DEF rest, was, is
<1>4. Sum(f) = Sum(rest) + Sum(was)
  BY <1>1, <1>2, SumPlus
<1>5. Sum(g) = Sum(rest) + Sum(is)
  BY <1>1, <1>2, SumPlus
<1>6. Sum(was) = f[x]
  <2>1. Sum(was) = was[x]
    BY <1>1, <1>3, SumOne
  <2> QED
    BY <1>3, <2>1
<1>7. Sum(is) = g[x]
  <2>1. Sum(is) = is[x]
    BY <1>1, <1>3, SumOne
  <2> QED
    BY <1>3, <2>1
<1>8. Sum(rest) \in Nat /\ Sum(f) \in Nat /\ Sum(g) \in Nat /\ f[x] \in Nat /\ g[x] \in Nat
  BY <1>1, SumNat
<1> QED
  BY <1>4, <1>5, <1>6, <1>7, <1>8

\* A refund written, over what its call saw available.
LEMMA PoolsWriteRefund ==
    ASSUME IInv, IInv', MoneyInv, MoneyInv', PoolSums, NEW c \in Calls, WriteRefund(c)
    PROVE  PoolSums'
<1> DEFINE registers == call[c].op = "register-refund"
           r == IF registers THEN nextRefund ELSE call[c].item
           written == [owner |-> call[c].scope, amount |-> call[c].n, version |-> refund[r].version + 1]
<1>0. PICK a : a = call[c].scope
  OBVIOUS
<1>1. /\ call[c].op \in RefundChanges /\ call[c].at = "write" /\ r \in Refunds /\ End(c)
      /\ refund' = [refund EXCEPT ![r] = written]
      /\ UNCHANGED <<payment, allocated>>
      /\ MoneyCall(c) /\ CallInv(c) /\ RowsInv
  BY DEF WriteRefund, MoneyInv, IInv
<1>2. <<"pool", a>> \in held[c] /\ a \in Academies /\ call[c].n \in Nat
  BY <1>0, <1>1 DEF CallInv, Locked, OfOneOwner
<1>3. refund'[r].owner = a /\ refund'[r].amount = call[c].n /\ \A q \in Refunds \ {r} : refund'[q] = refund[q]
  BY <1>0, <1>1 DEF RowsInv
<1>4. refund[r].amount \in Nat /\ (registers => refund[r].amount = 0)
  <2>1. refund[r].amount \in Nat /\ nextRefund \in Nat /\ (refund[r].amount > 0 => r < nextRefund)
    BY <1>1 DEF RowsInv
  <2> QED
    BY <2>1
<1>5. ~registers => refund[r].owner = a
  BY <1>0, <1>1 DEF CallInv, ShownStays, RefundChanges
<1>6. Own(c) = IF registers THEN 0 ELSE refund[r].amount
  BY DEF Own
<1>7. Paid(a, r) = Own(c) /\ Own(c) \in Nat
  BY <1>4, <1>5, <1>6 DEF Paid
<1>8. Debt(a) + call[c].n <= Worth(a) + Own(c)
  BY <1>0, <1>1 DEF PoolSums, Refunding
<1> HIDE DEF registers, r, written
<1>9. \A b \in Academies \ {a} : PoolKept(b)
  <2>1. ASSUME NEW b \in Academies \ {a}, NEW q \in Refunds
        PROVE  Paid(b, q)' = Paid(b, q)
    <3>1. CASE q = r
      BY <1>3, <1>4, <1>5, <3>1 DEF Paid
    <3>2. CASE q # r
      BY <1>3, <3>2 DEF Paid
    <3> QED
      BY <3>1, <3>2
  <2>2. \A p \in Payments, i \in Inscriptions : allocated'[p][i] <= allocated[p][i]
    BY <1>1 DEF MoneyInv, MoneyRows
  <2> QED
    BY <1>1, <2>1, <2>2 DEF PoolKept, PaymentsOf
<1>10. Debt(a)' <= Worth(a)'
  <2> DEFINE f == [q \in Refunds |-> Paid(a, q)]
             g == [q \in Refunds |-> Paid(a, q)']
  <2>1. f \in [Refunds -> Nat] /\ g \in [Refunds -> Nat]
    BY PriceAssumption DEF MoneyInv, OtherRows, Paid, Amount
  <2>2. \A q \in Refunds \ {r} : g[q] = f[q]
    BY <1>3 DEF Paid
  <2>3. f[r] = Own(c) /\ g[r] = call[c].n
    BY <1>1, <1>3, <1>7 DEF Paid
  <2>4. Debt(a) = Sum(f) /\ Debt(a)' = Sum(g)
    BY DEF Debt, Paid
  <2> HIDE DEF f, g
  <2>5. Sum(g) + f[r] = Sum(f) + g[r] /\ Sum(f) \in Nat /\ Sum(g) \in Nat
    BY <1>1, <2>1, <2>2, SumSwap, FiniteAssumption
  <2>6. Worth(a)' = Worth(a) /\ Worth(a) \in Nat
    BY <1>1, WorthNat DEF MoneyInv, Worth, PaymentsOf, Free, Spent
  <2> QED
    BY <1>2, <1>7, <1>8, <2>3, <2>4, <2>5, <2>6
<1>11. NoPaymentOverspent'
  BY <1>1 DEF PoolSums, NoPaymentOverspent, Spent
<1> DEFINE mine == {a}
<1>12. /\ \A b \in mine : <<"pool", b>> \in held[c]
       /\ \A b \in mine : Debt(b)' <= Worth(b)'
       /\ \A b \in Academies \ mine : PoolKept(b)
  BY <1>2, <1>9, <1>10
<1> HIDE DEF mine
<1> QED
  BY <1>1, <1>11, <1>12, PoolsWritten

\* A merge adds one pool to another.
LEMMA PoolsCommitMerge ==
    ASSUME IInv, IInv', MoneyInv, MoneyInv', PoolSums, NEW c \in Calls, CommitMerge(c)
    PROVE  PoolSums'
<1>1. CASE Refuse(c)
  BY <1>1, PoolsRefused
<1>2. CASE ~Refuse(c)
  <2>0. PICK from, to : from = call[c].scope /\ to = call[c].into
    OBVIOUS
  <2> DEFINE Owned(row) == IF row.owner = call[c].scope THEN [row EXCEPT !.owner = call[c].into] ELSE row
  <2>1. /\ call[c].op = "merge" /\ call[c].at = "write" /\ End(c)
        /\ payment' = [p \in Payments |-> Owned(payment[p])]
        /\ refund' = [r \in Refunds |-> IF refund[r].owner = call[c].scope
                         THEN [Owned(refund[r]) EXCEPT !.version = @ + 1] ELSE refund[r]]
        /\ allocated' = allocated
    BY <1>2 DEF CommitMerge
  <2>2. /\ from \in Academies /\ to \in Academies /\ from # to
        /\ <<"pool", from>> \in held[c] /\ <<"pool", to>> \in held[c]
    BY <2>0, <2>1 DEF IInv, MoneyInv, MoneyCall, Merging, Shaped, CallInv, OfOneOwner, Locked
  <2>3. ASSUME NEW p \in Payments
        PROVE  /\ payment'[p].amount = payment[p].amount
               /\ payment'[p].owner = IF payment[p].owner = from THEN to ELSE payment[p].owner
               /\ payment[p].owner # from => payment'[p] = payment[p]
    <3>1. payment[p] \in Payment /\ payment'[p] = Owned(payment[p])
      BY <2>1 DEF MoneyInv, MoneyRows
    <3> QED
      BY <2>0, <3>1 DEF Payment
  <2>4. ASSUME NEW r \in Refunds
        PROVE  /\ refund'[r].amount = refund[r].amount
               /\ refund'[r].owner = IF refund[r].owner = from THEN to ELSE refund[r].owner
    <3>1. refund[r] \in [owner : Academies, amount : Nat, version : Nat]
      BY DEF IInv, RowsInv
    <3>2. refund'[r] = IF refund[r].owner = call[c].scope
                       THEN [Owned(refund[r]) EXCEPT !.version = @ + 1] ELSE refund[r]
      BY <2>1
    <3> QED
      BY <2>0, <3>1, <3>2
  <2> HIDE DEF Owned
  <2>5. \A p \in Payments : /\ Spent(p)' = Spent(p) /\ Free(p)' = Free(p) /\ Free(p) \in Nat
    BY <2>1, <2>3, FreeNat DEF Free, Spent, MoneyInv
  <2>6. NoPaymentOverspent'
    BY <2>3, <2>5 DEF PoolSums, NoPaymentOverspent
  <2>7. ASSUME NEW b \in Academies \ {from, to}
        PROVE  PoolKept(b)
    <3>1. \A p \in PaymentsOf(b) : p \in Payments /\ payment'[p] = payment[p]
      BY <2>3 DEF PaymentsOf
    <3>2. \A p \in Payments, i \in Inscriptions : allocated'[p][i] <= allocated[p][i]
      BY <2>1 DEF MoneyInv, MoneyRows
    <3>3. \A r \in Refunds : Paid(b, r)' = Paid(b, r)
      BY <2>4 DEF Paid
    <3> QED
      BY <3>1, <3>2, <3>3 DEF PoolKept
  <2> DEFINE T(a) == [r \in Refunds |-> Paid(a, r)]
             after(a) == [r \in Refunds |-> Paid(a, r)']
             W(a) == [p \in Payments |-> IF p \in PaymentsOf(a) THEN Free(p) ELSE 0]
             value(a) == [p \in Payments |-> IF p \in PaymentsOf(a)' THEN Free(p)' ELSE 0]
             tf == T(from)  tt == T(to)  af == after(from)  at == after(to)
             wf == W(from)  wt == W(to)  vt == value(to)  vf == value(from)
  <2>8. /\ tf \in [Refunds -> Nat] /\ tt \in [Refunds -> Nat] /\ af \in [Refunds -> Nat] /\ at \in [Refunds -> Nat]
    BY PriceAssumption DEF MoneyInv, OtherRows, Paid, Amount
  <2>9. /\ wf \in [Payments -> Nat] /\ wt \in [Payments -> Nat] /\ vt \in [Payments -> Nat]
        /\ vf \in [Payments -> Nat]
    BY <2>5
  <2>10. \A r \in Refunds : af[r] = 0 /\ at[r] = tf[r] + tt[r]
    <3>1. \A r \in Refunds : refund[r].amount \in Nat
      BY PriceAssumption DEF MoneyInv, OtherRows, Amount
    <3> QED
      BY <2>2, <2>4, <3>1 DEF Paid
  <2>11. \A p \in Payments : vt[p] = wf[p] + wt[p]
    BY <2>2, <2>3, <2>5 DEF PaymentsOf
  <2>12. /\ Debt(from) = Sum(tf) /\ Debt(to) = Sum(tt) /\ Debt(from)' = Sum(af) /\ Debt(to)' = Sum(at)
         /\ Worth(from) = Sum(wf) /\ Worth(to) = Sum(wt) /\ Worth(to)' = Sum(vt) /\ Worth(from)' = Sum(vf)
    BY DEF Debt, Paid, Worth
  <2> HIDE DEF tf, tt, af, at, wf, wt, vt, vf
  <2>13. Sum(af) = 0
    BY <2>8, <2>10, SumNat, FiniteAssumption
  <2>14. Sum(at) = Sum(tf) + Sum(tt)
    BY <2>8, <2>10, SumPlus, FiniteAssumption
  <2>15. Sum(vt) = Sum(wf) + Sum(wt)
    BY <2>9, <2>11, SumPlus, FiniteAssumption
  <2>16. /\ Sum(tf) \in Nat /\ Sum(tt) \in Nat /\ Sum(wf) \in Nat /\ Sum(wt) \in Nat /\ Sum(vf) \in Nat
    BY <2>8, <2>9, SumNat, FiniteAssumption
  <2>17. Debt(from) <= Worth(from) /\ Debt(to) <= Worth(to)
    BY <2>2 DEF PoolSums
  <2>18. Debt(from)' <= Worth(from)' /\ Debt(to)' <= Worth(to)'
    BY <2>12, <2>13, <2>14, <2>15, <2>16, <2>17
  <2> DEFINE mine == {from, to}
  <2>19. /\ \A b \in mine : <<"pool", b>> \in held[c]
         /\ \A b \in mine : Debt(b)' <= Worth(b)'
         /\ \A b \in Academies \ mine : PoolKept(b)
    BY <2>2, <2>7, <2>18
  <2> HIDE DEF mine
  <2> QED
    BY <2>1, <2>6, <2>19, PoolsWritten
<1> QED
  BY <1>1, <1>2

\* A payment comes in: its pool only grows.
LEMMA PoolsRegisterPayment ==
    ASSUME IInv, IInv', MoneyInv, MoneyInv', PoolSums, NEW a \in Academies, NEW n \in Amounts, RegisterPayment(a, n)
    PROVE  PoolSums'
<1> DEFINE p == nextPayment
<1>1. /\ p \in Payments /\ payment' = [payment EXCEPT ![p] = [owner |-> a, amount |-> n]]
      /\ UNCHANGED <<refund, allocated, call>> /\ MoneyRows
  BY DEF RegisterPayment, MoneyInv
<1>2. n \in Nat /\ p \in Nat /\ payment[p].amount \in Nat
  BY <1>1, PriceAssumption DEF Amount, Amounts, MoneyRows, Payment
<1>3. ~(payment[p].amount > 0) /\ \A q \in Payments \ {p} : payment'[q] = payment[q]
  BY <1>1, <1>2 DEF MoneyRows
<1>4. payment[p].amount <= payment'[p].amount
  <2>1. payment'[p].amount = n
    BY <1>1 DEF MoneyRows
  <2> QED
    BY <1>2, <1>3, <2>1
<1>5. \A q \in Payments, i \in Inscriptions : allocated'[q][i] <= allocated[q][i]
  BY <1>1 DEF MoneyRows
<1>6. \A q \in Payments : payment[q].amount <= payment'[q].amount
  <2>1. \A q \in Payments : payment[q].amount \in Nat
    BY AmountsNat DEF MoneyInv
  <2> QED
    BY <1>3, <1>4, <2>1
<1>7. NoPaymentOverspent'
  <2>1. \A q \in Payments : Spent(q)' <= payment'[q].amount
    BY <1>5, <1>6, StillUnspent DEF PoolSums
  <2> QED
    BY <2>1 DEF NoPaymentOverspent
<1>8. \A b : PoolKept(b)
  <2>1. \A b : p \notin PaymentsOf(b)
    BY <1>3 DEF PaymentsOf
  <2>2. \A b : \A q \in PaymentsOf(b) : q \in Payments /\ payment'[q] = payment[q]
    BY <1>3, <2>1 DEF PaymentsOf
  <2>3. \A b : \A r \in Refunds : Paid(b, r)' = Paid(b, r)
    BY <1>1 DEF Paid
  <2> QED
    BY <1>5, <2>2, <2>3 DEF PoolKept
<1>9. ASSUME NEW b \in Academies
      PROVE  Debt(b)' <= Worth(b)'
  <2>1. PoolKept(b) /\ Debt(b) <= Worth(b)
    BY <1>8 DEF PoolSums
  <2>2. Worth(b) <= Worth(b)' /\ Debt(b)' = Debt(b) /\ Worth(b) \in Nat /\ Worth(b)' \in Nat /\ Debt(b) \in Nat
    BY <2>1, PoolStays
  <2> QED
    BY <2>1, <2>2
<1>10. ASSUME NEW d \in Calls
       PROVE  Drawing(d)' /\ Refunding(d)'
  <2>1. PoolKept(call[d].scope) /\ Drawing(d) /\ Refunding(d) /\ call'[d] = call[d]
    BY <1>1, <1>8 DEF PoolSums
  <2> QED
    BY <1>7, <2>1, PoolBeside
<1> QED
  BY <1>7, <1>9, <1>10 DEF PoolSums

-----------------------------------------------------------------------------
\* A CALL DRAWS ON ITS POOL

\* What a payer spreads over the pool leaves the refunds their part of it.
LEMMA PoolsFundFromPool ==
    ASSUME IInv, IInv', PriceInv, MoneyInv, MoneyInv', PoolSums, NEW c \in Calls, FundFromPool(c)
    PROVE  PoolSums'
<1>1. CASE Refuse(c)
  BY <1>1, PoolsRefused
<1>2. CASE ~Refuse(c)
  <2>0. PICK a : a = call[c].scope
    OBVIOUS
  <2> DEFINE plan == Planned(c)
             moves == Spread(plan, a)
             fields == [call[c] EXCEPT !.moves = moves]
  <2>1. /\ call[c].op \in Payers /\ call[c].at = "pool" /\ WithPool(c, fields)
    BY <1>2, <2>0 DEF FundFromPool, Payers, LockPool
  <2>2. /\ DOMAIN fields = DOMAIN NoCall /\ fields.op = call[c].op /\ fields.moves = moves
        /\ fields.scope = call[c].scope
    BY DEF IInv, CallsInv, NoCall
  <2>3. plan \in [Inscriptions -> Nat]
    BY PlannedNat
  <2>4. moves \in [Payments -> [Inscriptions -> Int]]
    BY <2>3, SpreadIs DEF MoneyInv
  <2>5. a \in Academies
    BY <2>0, <2>1 DEF MoneyInv, MoneyCall, Shaped, Payers, Charges
  <2> HIDE DEF fields
  <2>6. /\ call'[c].op = call[c].op /\ call'[c].at = "write" /\ call'[c].moves = moves
        /\ call'[c].scope = a /\ (\A d \in Calls \ {c} : call'[d] = call[d]) /\ UNCHANGED rows
    BY <2>0, <2>1, <2>2, PoolFields
  <2>7. UNCHANGED PoolTables /\ UNCHANGED <<payment, allocated, refund>>
    BY <2>6 DEF rows, PoolTables
  <2>8. \A p \in Payments : Remains(c, p)' = payment[p].amount - From(Applied(moves), p)
    <3> HIDE DEF moves
    <3> QED
      BY <2>1, <2>6, <2>7 DEF Remains, Remainder, Applied
  <2> DEFINE left == [p \in Payments |-> Left(c, p)']
  <2>9. \A p \in Payments : left[p] = IF p \in PaymentsOf(a)
            THEN AtLeastZero(payment[p].amount - From(Applied(moves), p)) ELSE 0
    <3> HIDE DEF moves
    <3> QED
      BY <2>6, <2>7, <2>8 DEF Left, PaymentsOf
  <2>10. left \in [Payments -> Nat]
    <3> HIDE DEF moves
    <3>1. Applied(moves) \in Allocations
      BY <2>4, WithIs, AllocatedIs DEF Applied, MoneyInv
    <3>2. \A p \in Payments : payment[p].amount \in Nat /\ From(Applied(moves), p) \in Nat
      BY <3>1, FromNat, AmountsNat DEF MoneyInv
    <3>3. \A p \in Payments : left[p] \in Nat
      <4> HIDE DEF left
      <4> QED
        BY <2>9, <3>2 DEF AtLeastZero
    <3> QED
      BY <3>3
  <2>11. Debt(a) <= Worth(a) /\ NoPaymentOverspent /\ MoneyRows /\ OtherRows
    BY <2>5 DEF PoolSums, MoneyInv
  <2>12. Sum(left) = Sum([p \in Payments |-> Left(c, p)'])
    OBVIOUS
  <2> HIDE DEF left, plan
  <2>13. \A p \in PaymentsOf(a) : payment[p].amount - From(Applied(moves), p) >= 0
    BY <2>3, <2>9, <2>10, <2>11, SpreadLeaves
  <2>14. Debt(a) <= Sum(left)
    BY <2>3, <2>9, <2>10, <2>11, SpreadLeaves
  <2> HIDE DEF moves
  <2>15. Drawing(c)'
    <3>1. PaymentsOf(call[c].scope)' = PaymentsOf(a) /\ Debt(call[c].scope)' = Debt(a)
      BY <2>6, <2>7 DEF PaymentsOf, Debt
    <3>2. \A p \in PaymentsOf(a) : Remains(c, p)' >= 0
      BY <2>8, <2>13 DEF PaymentsOf
    <3> QED
      BY <2>12, <2>14, <3>1, <3>2 DEF Drawing
  <2>16. Refunding(c)'
    BY <2>1, <2>6 DEF Refunding, RefundChanges, Payers, Charges
  <2> QED
    BY <2>6, <2>7, <2>15, <2>16, PoolsQuiet
<1> QED
  BY <1>1, <1>2

\* A refund's amount is read against what the pool has available, under its lock.
LEMMA PoolsLockRefundPool ==
    ASSUME IInv, MoneyInv, PoolSums, NEW c \in Calls, LockRefundPool(c)
    PROVE  PoolSums'
<1>1. CASE Refuse(c)
  BY <1>1, PoolsRefused
<1>2. CASE ~Refuse(c)
  <2>0. PICK a : a = call[c].scope
    OBVIOUS
  <2>1. call[c].op \in RefundChanges /\ RefundAllowed(c) /\ WithPool(c, call[c]) /\ DOMAIN call[c] = DOMAIN NoCall
        /\ MoneyCall(c) /\ CallInv(c)
    BY <1>2 DEF LockRefundPool, IInv, CallsInv, MoneyInv
  <2>2. /\ call'[c].op = call[c].op /\ call'[c].at = "write" /\ call'[c].n = call[c].n /\ call'[c].item = call[c].item
        /\ call'[c].scope = a /\ (\A d \in Calls \ {c} : call'[d] = call[d]) /\ UNCHANGED rows
    <3>1. WithPool(c, call[c]) /\ DOMAIN call[c] = DOMAIN NoCall
      BY <2>1
    <3>2. /\ call'[c].op = call[c].op /\ call'[c].at = "write" /\ call'[c].n = call[c].n /\ call'[c].item = call[c].item
          /\ call'[c].scope = call[c].scope
          /\ (\A d \in Calls \ {c} : call'[d] = call[d]) /\ UNCHANGED rows
      BY <3>1, PoolFields
    <3> QED
      BY <2>0, <2>1, <3>2
  <2>3. UNCHANGED PoolTables /\ UNCHANGED <<payment, allocated, refund>>
    BY <2>2 DEF rows, PoolTables
  <2>4. a \in Academies /\ call[c].n \in Nat
    BY <2>0, <2>1 DEF CallInv, OfOneOwner
  <2>5. AvailableBalance(a) \in Nat /\ AvailableBalance(a) + Debt(a) <= Worth(a)
    <3>1. Debt(a) <= Worth(a) /\ MoneyRows /\ OtherRows
      BY <2>4 DEF PoolSums, MoneyInv
    <3> QED
      BY <3>1, AvailableFits
  <2>6. Debt(a) \in Nat /\ Worth(a) \in Nat
    BY DebtNat, WorthNat DEF MoneyInv
  <2>7. call[c].op = "delete-refund" => call[c].n = 0
    BY DEF PoolSums, Refunding
  <2>8. Own(c) \in Nat /\ call[c].n <= AvailableBalance(a) + Own(c)
    <3>1. CASE call[c].op = "register-refund"
      <4>1. Own(c) = 0
        BY <3>1 DEF Own
      <4>2. call[c].n <= AvailableBalance(a)
        BY <2>0, <2>1, <3>1 DEF RefundAllowed
      <4> QED
        BY <2>4, <2>5, <4>1, <4>2
    <3>2. CASE call[c].op = "edit-refund"
      <4>1. refund[call[c].item].amount \in Nat
        BY <2>1, <3>2, PriceAssumption DEF CallInv, OfOneOwner, MoneyInv, OtherRows, Amount
      <4> QED
        BY <2>0, <2>1, <3>2, <4>1 DEF RefundAllowed, Own
    <3>3. CASE call[c].op = "delete-refund"
      <4>1. refund[call[c].item].amount \in Nat
        BY <2>1, <3>3, PriceAssumption DEF CallInv, OfOneOwner, MoneyInv, OtherRows, Amount
      <4> QED
        BY <2>5, <2>7, <3>3, <4>1 DEF Own
    <3> QED
      BY <2>1, <3>1, <3>2, <3>3 DEF RefundChanges
  <2>9. Debt(a) + call[c].n <= Worth(a) + Own(c)
    BY <2>4, <2>5, <2>6, <2>8
  <2>10. Refunding(c)'
    <3>1. Debt(call[c].scope)' = Debt(a) /\ Worth(call[c].scope)' = Worth(a) /\ Own(c)' = Own(c)
      BY <2>2, <2>3 DEF Debt, Worth, Own, PaymentsOf, Free, Spent
    <3> QED
      BY <2>2, <2>7, <2>9, <3>1 DEF Refunding
  <2>11. Drawing(c)'
    BY <2>1, <2>2 DEF Drawing, RefundChanges, Payers, Charges, PaymentChanges
  <2> QED
    BY <2>2, <2>3, <2>10, <2>11, PoolsQuiet
<1> QED
  BY <1>1, <1>2

\* A payment's change is refused when the pool would no longer cover its refunds, under its lock.
LEMMA PoolsLockPaymentPool ==
    ASSUME IInv, MoneyInv, PoolSums, NEW c \in Calls, NEW p \in Payments, LockPaymentPool(c, p)
    PROVE  PoolSums'
<1>1. CASE Refuse(c)
  BY <1>1, PoolsRefused
<1>2. CASE ~Refuse(c)
  <2>0. PICK a : a = call[c].scope
    OBVIOUS
  <2> DEFINE leaves == call[c].op = "delete-payment" \/ call[c].into # call[c].scope
             n == IF call[c].op = "delete-payment" THEN 0 ELSE call[c].n
  <2>1. /\ call[c].op \in PaymentChanges /\ p = call[c].item /\ call[c].at = "pool"
        /\ payment[p].amount > 0 /\ payment[p].owner = a
        /\ call[c].op = "edit-payment" => EditAllowed(c, p)
        /\ call[c].op = "delete-payment" => ~UncoversRefunds(p, TRUE, 0)
        /\ WithPool(c, call[c]) /\ MoneyCall(c) /\ DOMAIN call[c] = DOMAIN NoCall
    BY <1>2, <2>0 DEF LockPaymentPool, PaymentChanges, IInv, CallsInv, MoneyInv
  <2>2. /\ call'[c].op = call[c].op /\ call'[c].at = "write" /\ call'[c].n = call[c].n /\ call'[c].item = p
        /\ call'[c].into = call[c].into /\ call'[c].scope = a
        /\ (\A d \in Calls \ {c} : call'[d] = call[d]) /\ UNCHANGED rows
    <3>1. WithPool(c, call[c]) /\ DOMAIN call[c] = DOMAIN NoCall
      BY <2>1
    <3>2. /\ call'[c].op = call[c].op /\ call'[c].at = "write" /\ call'[c].n = call[c].n /\ call'[c].item = call[c].item
          /\ call'[c].into = call[c].into /\ call'[c].scope = call[c].scope
          /\ (\A d \in Calls \ {c} : call'[d] = call[d]) /\ UNCHANGED rows
      BY <3>1, PoolFields
    <3> QED
      BY <2>0, <2>1, <3>2
  <2>3. UNCHANGED PoolTables /\ UNCHANGED <<payment, allocated, refund>>
    BY <2>2 DEF rows, PoolTables
  <2>4. a \in Academies /\ n \in Nat /\ p \in PaymentsOf(a)
    BY <2>0, <2>1, PriceAssumption DEF MoneyCall, Shaped, Changing, PaymentChanges, Amount, PaymentsOf
  <2>5. ~UncoversRefunds(p, leaves, n) /\ (~leaves => Spent(p) <= n)
    BY <2>1 DEF EditAllowed, PaymentChanges
  <2>6. \A q \in Payments : payment[q].amount \in Nat /\ Spent(q) \in Nat /\ Free(q) \in Nat /\ Spent(q) <= payment[q].amount
    BY AmountsNat DEF MoneyInv, PoolSums, NoPaymentOverspent
  <2>7. \A q \in Payments : Remains(c, q)' = IF q # p THEN payment[q].amount - Spent(q)
                                             ELSE IF leaves THEN 0 ELSE n - Spent(p)
    BY <2>0, <2>1, <2>2, <2>3 DEF Remains, Remainder, Spent, From, PaymentChanges, Payers, Charges
  <2>8. \A q \in Payments : Left(c, q)' = IF q \in PaymentsOf(a) THEN AtLeastZero(Remains(c, q)') ELSE 0
    BY <2>2, <2>3 DEF Left, PaymentsOf
  <2> HIDE DEF leaves, n
  <2>9. \A q \in Payments : Remains(c, q)' >= 0 /\ Remains(c, q)' \in Int
    BY <2>4, <2>5, <2>6, <2>7
  <2> DEFINE f == [q \in Payments |-> IF q \in PaymentsOf(a) THEN Free(q) ELSE 0]
             g == [q \in Payments |-> Left(c, q)']
  <2>10. f \in [Payments -> Nat]
    BY <2>6
  <2>11. g \in [Payments -> Nat]
    <3>1. \A q \in Payments : Left(c, q)' \in Nat
      BY <2>8, <2>9 DEF AtLeastZero
    <3> QED
      BY <3>1
  <2>12. \A q \in Payments \ {p} : g[q] = f[q]
    BY <2>7, <2>8 DEF Free
  <2>13. f[p] = payment[p].amount - Spent(p) /\ g[p] = IF leaves THEN 0 ELSE n - Spent(p)
    <3>1. f[p] = AtLeastZero(payment[p].amount - Spent(p))
      BY <2>4 DEF Free
    <3>2. g[p] = AtLeastZero(Remains(c, p)')
      BY <2>4, <2>8
    <3>3. payment[p].amount - Spent(p) \in Int /\ payment[p].amount - Spent(p) >= 0
      BY <2>6
    <3> QED
      BY <2>7, <2>9, <3>1, <3>2, <3>3 DEF AtLeastZero
  <2>14. Worth(a) = Sum(f)
    BY DEF Worth
  <2>15. Sum(g) = Sum([q \in Payments |-> Left(c, q)'])
    OBVIOUS
  <2> HIDE DEF f, g
  <2>16. Sum(g) + f[p] = Sum(f) + g[p] /\ Sum(f) \in Nat /\ Sum(g) \in Nat
    BY <2>10, <2>11, <2>12, SumSwap, FiniteAssumption
  <2>17. Debt(a) \in Nat /\ Refunded(a) = Debt(a) /\ PoolFloor(a) = Worth(a) - Debt(a) /\ Debt(a) <= Worth(a)
    BY <2>4, DebtNat, DebtIs, PoolFloorIs DEF MoneyInv, PoolSums
  <2>18. \/ ~(Debt(a) > 0)
         \/ ~leaves /\ ~(n < payment[p].amount)
         \/ ~(Worth(a) - Debt(a) - payment[p].amount + (IF leaves THEN Spent(p) ELSE n) < 0)
    BY <2>1, <2>5, <2>17 DEF UncoversRefunds
  <2>19. Debt(a) <= Sum(g)
    <3>1. payment[p].amount \in Nat /\ Spent(p) \in Nat /\ n \in Nat
      BY <2>4, <2>6
    <3> QED
      BY <2>13, <2>14, <2>16, <2>17, <2>18, <3>1
  <2>20. Drawing(c)'
    <3>1. PaymentsOf(call[c].scope)' = PaymentsOf(a) /\ Debt(call[c].scope)' = Debt(a)
      BY <2>2, <2>3 DEF PaymentsOf, Debt
    <3>2. \A q \in PaymentsOf(a) : Remains(c, q)' >= 0
      BY <2>9 DEF PaymentsOf
    <3> QED
      BY <2>15, <2>19, <3>1, <3>2 DEF Drawing
  <2>21. Refunding(c)'
    BY <2>1, <2>2 DEF Refunding, RefundChanges, PaymentChanges
  <2> QED
    BY <2>2, <2>3, <2>20, <2>21, PoolsQuiet
<1> QED
  BY <1>1, <1>2

-----------------------------------------------------------------------------
\* WHAT POOLS HOLD, IN EVERY STATE

\* Every step of a call keeps the invariant.
LEMMA PoolsStep ==
    ASSUME IInv, IInv', PriceInv, MoneyInv, MoneyInv', PoolSums, NEW c \in Calls, Step(c)
    PROVE  PoolSums'
<1>1. CASE DeadlockVictim(c)
  BY <1>1, PoolsRefused DEF DeadlockVictim
<1> QED
  BY <1>1, PoolsPlan, PoolsFundFromPool, PoolsMoveMoney, PoolsCommitRemoval, PoolsLockPaymentPool, PoolsUpdatePayment,
     PoolsDeletePayment, PoolsLockRefundPool, PoolsWriteRefund, PoolsCommitMerge
     DEF Step

\* And so does every step outside the calls.
LEMMA PoolsElsewhere ==
    ASSUME IInv, IInv', MoneyInv, MoneyInv', PoolSums, Elsewhere
    PROVE  PoolSums'
<1>1. CASE \/ Quiet \/ \E S \in SUBSET Inscriptions : Waive(S) \/ Unwaive(S)
           \/ \E i \in Inscriptions : TotalMoves(i)
           \/ \E u \in Units : SettleReservation(u)
  <2>1. UNCHANGED call /\ UNCHANGED PoolTables
    BY <1>1 DEF Quiet, Waive, Unwaive, TotalMoves, SettleReservation, vars, rows, PoolTables
  <2> QED
    BY <2>1, PoolsIdle
<1> QED
  BY <1>1, PoolsRegisterPayment DEF Elsewhere

\* No payment is overspent, no pool owes more than it is worth, and no call that
\* has its pool is about to change that.
THEOREM PoolSumsInductive == Spec => []PoolSums
<1>1. ASSUME Init
      PROVE  PoolSums
  <2>1. ASSUME NEW p \in Payments
        PROVE  Spent(p) = 0 /\ payment[p].amount = 0
    <3>1. MoneyNowhere \in [Inscriptions -> Nat] /\ \A i \in Inscriptions : MoneyNowhere[i] = 0
      BY DEF MoneyNowhere
    <3>2. allocated[p] = MoneyNowhere /\ payment[p].amount = 0
      BY <1>1 DEF Init, NoMoves
    <3>3. Spent(p) = Sum(MoneyNowhere)
      BY <3>2 DEF Spent
    <3> QED
      BY <3>1, <3>2, <3>3, SumNat, FiniteAssumption
  <2>2. ASSUME NEW a \in Academies
        PROVE  Debt(a) <= Worth(a)
    <3> DEFINE f == [p \in Payments |-> IF p \in PaymentsOf(a) THEN Free(p) ELSE 0]
               g == [r \in Refunds |-> IF refund[r].owner = a THEN refund[r].amount ELSE 0]
    <3>1. \A p \in Payments : p \notin PaymentsOf(a)
      BY <2>1 DEF PaymentsOf
    <3>2. \A r \in Refunds : refund[r].amount = 0
      BY <1>1 DEF Init
    <3>3. f \in [Payments -> Nat] /\ (\A p \in Payments : f[p] = 0) /\ g \in [Refunds -> Nat] /\ \A r \in Refunds : g[r] = 0
      BY <3>1, <3>2
    <3>4. Worth(a) = Sum(f) /\ Debt(a) = Sum(g)
      BY DEF Worth, Debt
    <3> HIDE DEF f, g
    <3>5. Sum(f) = 0
      BY <3>3, SumNat, FiniteAssumption
    <3>6. Sum(g) = 0
      BY <3>3, SumNat, FiniteAssumption
    <3> QED
      BY <3>4, <3>5, <3>6
  <2>3. ASSUME NEW c \in Calls
        PROVE  Drawing(c) /\ Refunding(c)
    <3>1. call[c].op = "none" /\ call[c].at = "idle"
      BY <1>1 DEF Init, NoCall
    <3> QED
      BY <3>1 DEF Drawing, Refunding
  <2>4. NoPaymentOverspent
    BY <2>1 DEF NoPaymentOverspent
  <2> QED
    BY <2>2, <2>3, <2>4 DEF PoolSums
<1>2. ASSUME IInv, IInv', PriceInv, MoneyInv, MoneyInv', PoolSums, [Next]_vars
      PROVE  PoolSums'
  <2>1. CASE UNCHANGED vars
    BY <1>2, <2>1, PoolsIdle DEF vars, rows, PoolTables
  <2> QED
    BY <1>2, <2>1, PoolsStart, PoolsStep, PoolsElsewhere DEF Next
<1> QED
  BY <1>1, <1>2, Inductive, PricesInductive, MoneyInductive, PTL DEF Spec

\* A payment never has more allocated than it is worth, however many spreads,
\* edits, refunds and merges draw on it at once.
THEOREM PaymentsNeverOverspent == Spec => []NoPaymentOverspent
<1>1. PoolSums => NoPaymentOverspent
  BY DEF PoolSums
<1> QED
  BY <1>1, PoolSumsInductive, PTL

\* An academy's available balance is never negative, for any number of payments,
\* refunds, academies and calls.
THEOREM PoolsNeverOverdrawn == Spec => []PoolNeverOverdrawn
<1>1. ASSUME MoneyInv, PoolSums
      PROVE  PoolNeverOverdrawn
  <2>1. ASSUME NEW a \in Academies
        PROVE  PoolFloor(a) >= 0
    <3>1. MoneyRows /\ OtherRows /\ NoPaymentOverspent /\ Debt(a) <= Worth(a)
      BY <1>1 DEF MoneyInv, PoolSums
    <3>2. PoolFloor(a) = Worth(a) - Debt(a)
      BY <3>1, PoolFloorIs
    <3>3. Worth(a) \in Nat
      BY <3>1, WorthNat
    <3>4. Debt(a) \in Nat
      BY <3>1, DebtNat
    <3> QED
      BY <3>1, <3>2, <3>3, <3>4
  <2> QED
    BY <2>1 DEF PoolNeverOverdrawn
<1> QED
  BY <1>1, MoneyInductive, PoolSumsInductive, PTL
=============================================================================
