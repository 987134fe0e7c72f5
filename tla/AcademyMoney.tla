---------------------------- MODULE AcademyMoney ----------------------------
(***************************************************************************)
(* The money of the academies in one event, and the rosters it sits on:    *)
(* payments make an academy's pool, allocations move it onto inscriptions, *)
(* refunds take it out, and whether removing an inscription deletes the    *)
(* row or withdraws it depends on the money and the documents it carries.  *)
(*                                                                         *)
(* A call is one transaction at READ COMMITTED.  It acquires locks one by  *)
(* one, reads what is committed at that moment, and writes in its last     *)
(* step, which commits and releases every lock: until then nothing it      *)
(* wrote is seen by another.  The locks are inscription rows, choreography *)
(* and academy rows, the advisory lock of each academy's pool and that of  *)
(* each comprobante anchor (a unit: a choreography, or an academy's part   *)
(* of a seminar).                                                          *)
(*                                                                         *)
(* A definition named D_x above D is what D would be with one slip, x.     *)
(***************************************************************************)
EXTENDS Integers, FiniteSets

CONSTANTS
    Calls,          \* transactions that may be running at one moment
    Payments,       \* payment numbers the event may hand out
    Refunds,        \* refund numbers the event may hand out
    Academies,      \* owners of a pool, in the order of their lock keys
    Inscriptions,   \* inscription rows, in the order of their ids
    Units,          \* choreographies and seminar parts
    Choreographies, \* the units that are choreographies
    UnitOf,         \* the unit of each inscription
    FirstOwner,     \* the academy of each unit at the start
    Prices,         \* rows of the price list
    DepositAt,      \* the deposit of each
    TotalAt,        \* what an inscription costs at each, its discount taken off
    Candidates,     \* the prices of each unit: its group type's, or its seminar kind's
    FirstPrice,     \* the one that applies to each inscription at the start
    MaxAmount,      \* bound: amount of a payment, a refund or a gesture
    MaxVersions,    \* bound: writes to one refund
    Operations,     \* the operations an instance exercises
    None            \* no academy, no price

ASSUME NumbersAssumption == Payments \subseteq Nat \ {0} /\ Refunds \subseteq Nat \ {0}
ASSUME FiniteAssumption == IsFiniteSet(Payments) /\ IsFiniteSet(Refunds) /\ IsFiniteSet(Inscriptions)
ASSUME OrderAssumption == /\ Academies \subseteq Nat /\ Academies # {}
                          /\ Inscriptions \subseteq Nat
ASSUME UnitAssumption == /\ Choreographies \subseteq Units
                         /\ UnitOf \in [Inscriptions -> Units]
                         /\ FirstOwner \in [Units -> Academies]
ASSUME PriceAssumption == /\ DepositAt \in [Prices -> Nat] /\ TotalAt \in [Prices -> Nat]
                          /\ Candidates \in [Units -> SUBSET Prices]
                          /\ FirstPrice \in [Inscriptions -> Prices]
                          /\ MaxAmount \in Nat /\ MaxVersions \in Nat
ASSUME NoneAssumption == None \notin Academies \cup Prices

VARIABLES
    payment,      \* rows of payment by number; amount 0 is no row
    nextPayment,  \* the event's next payment number
    refund,       \* rows of refund by number; amount 0 is no row
    nextRefund,   \* the event's next refund number
    allocated,    \* rows of payment_allocation; 0 is no row
    academyOf,    \* the academy of each unit: its choreography's, or its people's
    merged,       \* academies folded into another
    roster,       \* each inscription: on the roster, withdrawn, or deleted
    waived,       \* inscriptions marked Bonificada
    stored,       \* the price each inscription stores, fixed once it covers its deposit
    today,        \* the price that applies to each today
    document,     \* what a comprobante says of each inscription
    unit,         \* each unit: standing, withdrawn, or deleted
    held,         \* the locks each call holds
    call          \* each call's place and local variables

rows == <<payment, nextPayment, refund, nextRefund, allocated, academyOf, merged,
          roster, waived, stored, today, document, unit>>
vars == <<rows, held, call>>

-----------------------------------------------------------------------------
\* TYPES

Amount == 0 .. MaxAmount
Payment == [owner : Academies, amount : Amount]
Refund == [owner : Academies, amount : Amount, version : Nat]

Locks == ({"row"} \X Inscriptions) \cup ({"choreography", "anchor"} \X Units)
         \cup ({"pool", "academy"} \X Academies)

Gestures == {"allocate", "remove", "release-excess", "release-deposit"}
Charges == {"charge-deposit", "charge-balance"}
RefundChanges == {"register-refund", "edit-refund", "delete-refund"}
MoneyNowhere == [i \in Inscriptions |-> 0]
NoMoves == [p \in Payments |-> MoneyNowhere]
NoRates == [i \in Inscriptions |-> None]

\* at: the step the call is about to take.  unit: the unit it names.  rows: the
\* inscriptions it locks.  cut: those it will delete.  need: money to put on
\* each or take off each.  moves: the same by payment.  scope: the academy
\* whose pool it uses.  item: a payment or a refund, at a version.  n, into,
\* pick: an amount, an academy and a price it was given.  onPrice: rows below
\* their deposit it charges at that price, or else at the one they store.  rate:
\* the price a charge found each row at, before the pool's lock.
NoCall == [op |-> "none", at |-> "idle", unit |-> None, rows |-> {}, cut |-> {},
           need |-> MoneyNowhere, moves |-> NoMoves, scope |-> None, item |-> 0,
           version |-> 0, n |-> 0, into |-> None, pick |-> None, onPrice |-> {}, rate |-> NoRates]
Places == {"idle", "anchor", "choreography", "rows", "reading", "pool", "academies",
           "reserve", "settle", "write"}

TypeOK ==
    /\ payment \in [Payments -> Payment]
    /\ refund \in [Refunds -> Refund]
    /\ nextPayment \in Nat /\ nextRefund \in Nat
    /\ allocated \in [Payments -> [Inscriptions -> Nat]]
    /\ academyOf \in [Units -> Academies]
    /\ merged \subseteq Academies
    /\ roster \in [Inscriptions -> {"active", "withdrawn", "deleted"}]
    /\ waived \subseteq Inscriptions
    /\ stored \in [Inscriptions -> Prices \cup {None}] /\ today \in [Inscriptions -> Prices]
    /\ document \in [Inscriptions -> {"none", "reserved", "recorded"}]
    /\ unit \in [Units -> {"standing", "withdrawn", "deleted"}]
    /\ held \in [Calls -> SUBSET Locks]
    /\ \A c \in Calls : /\ call[c].at \in Places
                        /\ call[c].rows \subseteq Inscriptions
                        /\ call[c].scope \in Academies \cup {None}
                        /\ call[c].at = "idle" => held[c] = {}

-----------------------------------------------------------------------------
\* READS

Owner(i) == academyOf[UnitOf[i]]
RowsOf(u) == {i \in Inscriptions : UnitOf[i] = u}
Kept(u) == {i \in RowsOf(u) : roster[i] # "deleted"}
ActiveRows(u) == {i \in RowsOf(u) : roster[i] = "active"}

Smaller(x, y) == IF x < y THEN x ELSE y
Larger(x, y) == IF x < y THEN y ELSE x
AtLeastZero(x) == IF x < 0 THEN 0 ELSE x

\* The sum of a function's values, unit by unit: none of the amounts summed is
\* negative.
Sum(f) == Cardinality(UNION {{x} \X (1 .. f[x]) : x \in DOMAIN f})

Before(S, x) == {y \in S : y < x}
After(S, x) == {y \in S : y > x}

\* readInscriptionAllocatedAmount, a payment's allocations, an owner's refunds.
Held(i) == Sum([p \in Payments |-> allocated[p][i]])
Spent(p) == Sum(allocated[p])
RefundsOf(a) == {r \in Refunds : refund[r].owner = a}
Refunded(a) == Sum([r \in RefundsOf(a) |-> refund[r].amount])

\* splitAvailableBalance: refunds draw on the free money newest first.
PaymentsOf(a) == {p \in Payments : payment[p].amount > 0 /\ payment[p].owner = a}
Free(p) == AtLeastZero(payment[p].amount - Spent(p))
Available_IgnoringRefunds(p) == Free(p)
Available(p) ==
    LET newer == After(PaymentsOf(payment[p].owner), p)
    IN Free(p) - Smaller(Free(p), AtLeastZero(Refunded(payment[p].owner)
                                              - Sum([q \in newer |-> Free(q)])))
AvailableBalance(a) == Sum([p \in PaymentsOf(a) |-> Available(p)])

\* The same figure unfloored, as paymentChangeUncoversRefunds reads it.
PoolFloor(a) == Sum([p \in PaymentsOf(a) |-> payment[p].amount])
                - Sum([p \in PaymentsOf(a) |-> Spent(p)]) - Refunded(a)
UncoversRefunds(p, leaves, next) ==
    LET a == payment[p].owner
        stays == IF leaves THEN Spent(p) ELSE next
    IN /\ Refunded(a) > 0 /\ (leaves \/ next < payment[p].amount)
       /\ PoolFloor(a) - payment[p].amount + stays < 0

\* Two stretches of money laid end to end: how much of one meets the other.
Overlap(from, n, from2, n2) ==
    AtLeastZero(Smaller(from + n, from2 + n2) - (IF from < from2 THEN from2 ELSE from))

\* spreadFromPool, inscription after inscription: the payments oldest first.
Spread(need, a) ==
    [p \in Payments |-> [i \in Inscriptions |->
        IF p \in PaymentsOf(a)
        THEN Overlap(Sum([q \in Before(PaymentsOf(a), p) |-> Available(q)]), Available(p),
                     Sum([j \in Before(Inscriptions, i) |-> need[j]]), need[i])
        ELSE 0]]

\* unwindToPool: the inscription's allocations newest first.
Unwind(need) ==
    [p \in Payments |-> [i \in Inscriptions |->
        -Overlap(Sum([q \in After(Payments, p) |-> allocated[q][i]]),
                 allocated[p][i], 0, need[i])]]

\* hasCrossedDepositThreshold and deriveEffectivePrice, of a row that stores one
\* price, while another applies, with some money on it.
Covers(price, money) == price # None /\ money > 0 /\ money >= DepositAt[price]
Effective(price, now, money) == IF Covers(price, money) THEN price ELSE now
Crossed(i) == Covers(stored[i], Held(i))
PriceOf(i) == Effective(stored[i], today[i], Held(i))

\* overAllocatedAmount of deriveInscriptionFinancialFigures, and deriveRetainedAmount.
TotalOf(i) == IF i \in waived THEN 0 ELSE TotalAt[PriceOf(i)]
Excess(i) == AtLeastZero(Held(i) - TotalOf(i))
Retained(i) == Smaller(Held(i), DepositAt[PriceOf(i)])

\* What planThresholdCharge asks for: only money covers a deposit, one of zero too.
Asked(op, price, money) ==
    AtLeastZero((IF op = "charge-deposit" THEN Larger(DepositAt[price], 1) ELSE TotalAt[price]) - money)

\* findInscriptionsWithEvidence, findSeminarInscriptionsWithEvidence.
Evidence(i) == Held(i) > 0 \/ document[i] # "none"

-----------------------------------------------------------------------------
\* LOCKS

NotHeldByOthers(c, S) == \A d \in Calls \ {c} : held[d] \cap S = {}
NotHeld(S) == \A d \in Calls : held[d] \cap S = {}

\* The rows a call has still to lock, the first by id first.
RowLocks(S) == {"row"} \X S
Pending_Unlocked(c) == {}
Pending(c) == {i \in call[c].rows : <<"row", i>> \notin held[c]}
First(S) == {i \in S : \A j \in S : i <= j}

\* lockAcademyPools takes several pools in the order of their keys.
PoolsOf(c) == IF call[c].op = "merge" THEN {call[c].scope, call[c].into} ELSE {call[c].scope}
NextPool_Unlocked(c) == {}
NextPool_RemovedFirst(c) == {"pool"} \X (IF <<"pool", call[c].scope>> \in held[c]
                                        THEN PoolsOf(c) \ {call[c].scope} ELSE {call[c].scope})
NextPool(c) == {"pool"} \X First({a \in PoolsOf(c) : <<"pool", a>> \notin held[c]})

\* What a write waits for on top of what its transaction holds: the keys of
\* what it points at, the rows it changes or cascades to.
WriteNeeds(c) ==
    CASE call[c].op = "emit" ->
           ({"choreography"} \X ({call[c].unit} \cap Choreographies)) \cup {<<"academy", call[c].scope>>}
      [] call[c].op = "edit-payment" -> {"academy"} \X ({call[c].into} \ {call[c].scope})
      [] call[c].op = "remove-choreography" -> RowLocks(call[c].cut)
      [] call[c].op = "merge" ->
           {"choreography"} \X {u \in Choreographies : academyOf[u] = call[c].scope}
      [] OTHER -> {}

\* What the next step of a call waits for.
Wants(c) ==
    CASE call[c].at = "anchor" -> {<<"anchor", call[c].unit>>}
      [] call[c].at = "choreography" -> {<<"choreography", call[c].unit>>}
      [] call[c].at = "rows" -> RowLocks(First(Pending(c)))
      [] call[c].at = "pool" -> NextPool(c)
      [] call[c].at = "academies" -> {"academy"} \X PoolsOf(c)
      [] call[c].at \in {"write", "reserve"} -> WriteNeeds(c)
      [] OTHER -> {}

WaitsFor(c, d) == c # d /\ Wants(c) \cap held[d] # {}

\* What Postgres looks for: calls that wait for each other in the end.  The calls
\* that c waits for, directly or not, are in every set that has the next ones.
ClosedFrom(c, S) == \A x \in S \cup {c}, y \in Calls : WaitsFor(x, y) => y \in S
Reaches(c, d) == \A S \in SUBSET Calls : ClosedFrom(c, S) => d \in S
OnOneCycle(c, d) == Reaches(c, d) /\ Reaches(d, c)
InCycle(c) == (\E d \in Calls : WaitsFor(c, d)) /\ OnOneCycle(c, c)

\* A call begins; takes locks and goes on; ends, by commit or by rollback.
Begin(c, fields) == /\ call[c].at = "idle" /\ fields.op \in Operations
                    /\ call' = [call EXCEPT ![c] = fields]
                    /\ UNCHANGED <<rows, held>>
Acquire(c, S) == NotHeldByOthers(c, S) /\ held' = [held EXCEPT ![c] = @ \cup S]
Become(c, fields) == call' = [call EXCEPT ![c] = fields]
Go(c, place) == Become(c, [call[c] EXCEPT !.at = place])
End_KeepsPool(c) ==
    /\ call' = [call EXCEPT ![c] = NoCall]
    /\ held' = [held EXCEPT ![c] = @ \cap ({"pool"} \X Academies)]
End(c) == call' = [call EXCEPT ![c] = NoCall] /\ held' = [held EXCEPT ![c] = {}]
Refuse(c) == End(c) /\ UNCHANGED rows

Init == /\ payment = [p \in Payments |-> [owner |-> CHOOSE a \in Academies : TRUE, amount |-> 0]]
        /\ refund = [r \in Refunds |-> [owner |-> CHOOSE a \in Academies : TRUE, amount |-> 0, version |-> 0]]
        /\ nextPayment = 1 /\ nextRefund = 1
        /\ allocated = NoMoves
        /\ academyOf = FirstOwner
        /\ merged = {}
        /\ roster = [i \in Inscriptions |-> "active"]
        /\ waived = {}
        /\ stored = NoRates /\ today = FirstPrice
        /\ document = [i \in Inscriptions |-> "none"]
        /\ unit = [u \in Units |-> "standing"]
        /\ held = [c \in Calls |-> {}]
        /\ call = [c \in Calls |-> NoCall]

-----------------------------------------------------------------------------
\* LOCKS TAKEN

\* select ... for update over the rows a call names, in id order.
LockRow(c) ==
    /\ call[c].at = "rows" /\ Pending(c) # {}
    /\ Acquire(c, RowLocks(First(Pending(c))))
    /\ UNCHANGED <<rows, call>>
RowsLocked(c) == call[c].at = "rows" /\ Pending(c) = {}

\* lockComprobanteAnchor, which a removal takes before any row.
LockAnchor_NotTaken(c) ==
    /\ call[c].at = "anchor"
    /\ Go(c, IF call[c].op = "sync-roster" THEN "choreography" ELSE "reading")
    /\ UNCHANGED <<rows, held>>
LockAnchor(c) ==
    /\ call[c].at = "anchor"
    /\ Acquire(c, {<<"anchor", call[c].unit>>})
    /\ Go(c, IF call[c].op = "sync-roster" THEN "choreography" ELSE "reading")
    /\ UNCHANGED rows

\* lockAcademyPools, when one pool is all: what the caller reads next it reads
\* with the lock.  fields is the call that then writes.
LockPool(c) == call[c].at = "pool" /\ Acquire(c, NextPool(c))
WithPool(c, fields) == /\ Become(c, [fields EXCEPT !.at = "write"])
                       /\ UNCHANGED rows

-----------------------------------------------------------------------------
\* ONE INSCRIPTION'S MONEY

\* resolveInscriptionMoneyScope: read before the transaction, with no lock.
StartGesture(c, op, i, n, pick) ==
    /\ roster[i] # "deleted"
    /\ n > 0 <=> op \in {"allocate", "remove"}
    /\ pick # None => op = "allocate" /\ pick \in Candidates[UnitOf[i]]
    /\ Begin(c, [NoCall EXCEPT !.op = op, !.at = "rows", !.unit = UnitOf[i], !.rows = {i},
                              !.scope = Owner(i), !.n = n, !.pick = pick])

\* applySelectedPrice: a row below the deposit of the price it stores takes the one
\* picked, whatever it holds; from there on another is refused.  One that has
\* neither price nor money needs a pick.
PickRefused(c, i) == IF Crossed(i) THEN call[c].pick \notin {None, stored[i]}
                     ELSE {call[c].pick, stored[i]} = {None} /\ Held(i) = 0
Taken(c, i) == IF Crossed(i) \/ call[c].pick = None THEN stored[i] ELSE call[c].pick

\* loadContext and assertNoActiveOverAllocation, under the row's lock and before
\* the pool's: amount is what the gesture is about to move, 0 when it refuses.
\* An allocation reads the Total with the pick stored and its money not yet there.
Allocates(c, i) == /\ i \notin waived /\ ~PickRefused(c, i)
                   /\ Held(i) + call[c].n <= TotalAt[Effective(Taken(c, i), today[i], Held(i))]
GestureAmount_OfAWithdrawn(c, i) ==
    IF call[c].op = "release-excess" THEN Excess(i)
    ELSE IF call[c].op = "allocate" /\ ~Allocates(c, i) THEN 0 ELSE call[c].n
GestureAmount(c, i) ==
    IF roster[i] = "withdrawn" THEN 0
    ELSE CASE call[c].op = "allocate" -> IF Allocates(c, i) THEN call[c].n ELSE 0
           [] call[c].op = "remove" -> call[c].n
           [] call[c].op = "release-excess" -> Excess(i)

ReadGesture(c, i) ==
    LET found == roster[i] # "deleted" /\ Owner(i) = call[c].scope
        amount == GestureAmount(c, i)
    IN /\ RowsLocked(c) /\ call[c].op \in Gestures \ {"release-deposit"} /\ i \in call[c].rows
       /\ IF found /\ amount > 0
          THEN /\ Become(c, [call[c] EXCEPT !.at = "pool", !.need[i] = amount,
                             !.onPrice = IF Crossed(i) THEN {} ELSE {i}])
               /\ UNCHANGED <<rows, held>>
          ELSE Refuse(c)

\* releaseRetainedInscriptionDeposit: its amount waits for the pool's lock.
ReadDepositRelease(c, i) ==
    /\ RowsLocked(c) /\ call[c].op = "release-deposit" /\ i \in call[c].rows
    /\ IF roster[i] = "withdrawn" /\ Owner(i) = call[c].scope
       THEN Go(c, "pool") /\ UNCHANGED <<rows, held>>
       ELSE Refuse(c)

\* chargeThreshold over a choreography: the rows active when it asks for them.
StartCharge(c, op, u, pick) ==
    /\ u \in Choreographies /\ ActiveRows(u) # {} /\ pick \in Candidates[u] \cup {None}
    /\ Begin(c, [NoCall EXCEPT !.op = op, !.at = "rows", !.unit = u, !.rows = ActiveRows(u),
                              !.scope = academyOf[u], !.pick = pick])

\* Of those still active once locked, a waived one owes nothing.  Found: the price
\* readInscriptionThresholds finds a row at, with what applySelectedPrices stored.
\* OnPrice: rows below their deposit, charged at the pick or at what they store.
\* Covering: those of them that today's price would charge, so that
\* coverDepositsOfChargedRows must first take them past the deposit of their own.
Charged(c) == {i \in call[c].rows : roster[i] = "active"} \ waived
Found(c, i) == Effective(Taken(c, i), today[i], Held(i))
OnPrice(c) == {i \in Charged(c) : ~Crossed(i) /\ Taken(c, i) # None}
Covering(c) == {i \in OnPrice(c) : Found(c, i) # Taken(c, i)}
Cover(c) == [i \in Inscriptions |->
                IF i \in Covering(c) THEN Asked("charge-deposit", Taken(c, i), Held(i)) ELSE 0]

\* With none to cover, the first that owes is planned before the pool's lock, the
\* others after: spreadFromPool takes it inside the loop of fundOwedThreshold.
Owing(c) == {i \in Charged(c) : Asked(call[c].op, Found(c, i), Held(i)) > 0}
Opening(c) == [i \in Inscriptions |->
                  IF i \in First(Owing(c)) THEN Asked(call[c].op, Found(c, i), Held(i)) ELSE 0]

\* assertNoActiveOverAllocation, and refusePick of a row at its price, up to there.
Overcharged(c, i) ==
    IF Covering(c) # {} THEN Held(i) + Cover(c)[i] > TotalAt[today[i]] /\ i \in Covering(c)
    ELSE /\ i \in OnPrice(c) \cup Owing(c) /\ \A j \in Owing(c) : i <= j
         /\ Held(i) + Opening(c)[i] > TotalAt[Found(c, i)]
ChargeRefused(c) == \/ academyOf[call[c].unit] # call[c].scope
                    \/ \E i \in Charged(c) : Overcharged(c, i)

\* The price a call leaves a row at.
StoredBy(c, i) == IF call[c].pick # None /\ i \in call[c].onPrice THEN call[c].pick ELSE stored[i]

ReadCharge(c) ==
    LET priced == [call[c] EXCEPT !.at = "pool", !.rows = Charged(c), !.onPrice = OnPrice(c)]
    IN /\ RowsLocked(c) /\ call[c].op \in Charges
       /\ IF ChargeRefused(c) THEN Refuse(c)
          ELSE IF Covering(c) # {} THEN Become(c, [priced EXCEPT !.need = Cover(c)]) /\ UNCHANGED <<rows, held>>
          ELSE IF Owing(c) # {}
          THEN /\ Become(c, [priced EXCEPT !.need = Opening(c), !.rate = [i \in Inscriptions |-> Found(c, i)]])
               /\ UNCHANGED <<rows, held>>
          ELSE /\ stored' = [i \in Inscriptions |-> IF i \in OnPrice(c) THEN Taken(c, i) ELSE stored[i]]
               /\ End(c)
               /\ UNCHANGED <<payment, nextPayment, refund, nextRefund, allocated, academyOf, merged, roster,
                              waived, today, document, unit>>

\* Under the pool's lock: what fundOwedThreshold reads again, and at which price.
Begun(c, i) == \E j \in call[c].rows : j < i /\ call[c].need[j] > 0
Later(c) == {i \in call[c].rows : call[c].op \in Charges /\ (call[c].rate[i] = None \/ Begun(c, i))}
Money(c, i) == Held(i) + call[c].need[i]
Rate(c, i) == IF call[c].rate[i] = None THEN Effective(StoredBy(c, i), today[i], Money(c, i)) ELSE call[c].rate[i]
Rest(c, i) == IF i \in Later(c) THEN Asked(call[c].op, Rate(c, i), Money(c, i)) ELSE 0
Fits(c, i) ==
    /\ call[c].need[i] > 0 /\ Begun(c, i) => Money(c, i) <= TotalAt[Effective(StoredBy(c, i), today[i], Held(i))]
    /\ Rest(c, i) > 0 => Money(c, i) + Rest(c, i) <= TotalAt[Effective(StoredBy(c, i), today[i], Money(c, i))]
    /\ i \in call[c].onPrice => Money(c, i) <= TotalAt[Rate(c, i)]

\* A row's cover and the rest are drawn together; the code covers every row first,
\* which changes only which payment pays for which row.
Planned(c) == [i \in Inscriptions |-> call[c].need[i] + Rest(c, i)]
Funded(c) == Sum(Planned(c))

\* spreadFromPool, and a charge's loop of them: all or nothing.
FundFromPool(c) ==
    /\ call[c].op \in Charges \cup {"allocate"} /\ call[c].at = "pool"
    /\ IF AvailableBalance(call[c].scope) >= Funded(c) /\ \A i \in Later(c) : Fits(c, i)
       THEN LockPool(c) /\ WithPool(c, [call[c] EXCEPT !.moves = Spread(Planned(c), call[c].scope)])
       ELSE NotHeldByOthers(c, NextPool(c)) /\ Refuse(c)

\* unwindToPool, of an amount decided before the lock or of the whole deposit.
UnwindFromRow(c, i) ==
    LET need == IF call[c].op = "release-deposit" THEN [MoneyNowhere EXCEPT ![i] = Held(i)]
                                                  ELSE call[c].need
    IN /\ call[c].op \in Gestures \ {"allocate"} /\ i \in call[c].rows /\ call[c].at = "pool"
       /\ IF need[i] \in 1 .. Held(i)
          THEN LockPool(c) /\ WithPool(c, [call[c] EXCEPT !.moves = Unwind(need)])
          ELSE NotHeldByOthers(c, NextPool(c)) /\ Refuse(c)

\* applyAllocationDelta and the commit, the price stored with it.  A row cascaded
\* away meanwhile stays so.
Moved(c, cut) ==
    [p \in Payments |-> [i \in Inscriptions |->
        IF i \in cut THEN 0 ELSE AtLeastZero(allocated[p][i] + call[c].moves[p][i])]]

MoveMoney(c) ==
    /\ call[c].op \in Gestures \cup Charges /\ call[c].at = "write"
    /\ allocated' = Moved(c, {})
    /\ stored' = [i \in Inscriptions |-> StoredBy(c, i)]
    /\ End(c)
    /\ UNCHANGED <<payment, nextPayment, refund, nextRefund, academyOf, merged, roster,
                   waived, today, document, unit>>

\* waiveInscriptions and unwaiveInscriptions, of one row or of all the active
\* ones; each ends once it holds their locks.
Waivable(S) == \E u \in Choreographies : /\ S \in SUBSET ActiveRows(u) \ {{}}
                                          /\ (S = ActiveRows(u) \/ Cardinality(S) = 1)
Waive_Unlocked(S) ==
    /\ "waive" \in Operations /\ Waivable(S)
    /\ \A i \in S : Held(i) = 0
    /\ waived' = waived \cup S
    /\ UNCHANGED <<payment, nextPayment, refund, nextRefund, allocated, academyOf, merged,
                   roster, stored, today, document, unit, held, call>>
Waive(S) ==
    /\ "waive" \in Operations /\ Waivable(S) /\ NotHeld(RowLocks(S))
    /\ \A i \in S : Held(i) = 0
    /\ waived' = waived \cup S
    /\ UNCHANGED <<payment, nextPayment, refund, nextRefund, allocated, academyOf, merged,
                   roster, stored, today, document, unit, held, call>>
Unwaive(S) ==
    /\ "waive" \in Operations /\ Waivable(S) /\ NotHeld(RowLocks(S))
    /\ waived' = waived \ S
    /\ UNCHANGED <<payment, nextPayment, refund, nextRefund, allocated, academyOf, merged,
                   roster, stored, today, document, unit, held, call>>

\* The day passes, or a price, a discount or a group type is edited: another price
\* applies, or the stored one leaves another Total at the same deposit.
TotalMoves(i) ==
    /\ "reprice" \in Operations
    /\ \/ /\ \E p \in Candidates[UnitOf[i]] \ {today[i]} : today' = [today EXCEPT ![i] = p]
          /\ UNCHANGED stored
       \/ /\ stored[i] # None
          /\ \E p \in Candidates[UnitOf[i]] \ {stored[i]} : /\ DepositAt[p] = DepositAt[stored[i]]
                                             /\ stored' = [stored EXCEPT ![i] = p]
          /\ UNCHANGED today
    /\ UNCHANGED <<payment, nextPayment, refund, nextRefund, allocated, academyOf, merged,
                   roster, waived, document, unit, held, call>>

-----------------------------------------------------------------------------
\* ROSTERS

\* saveChoreographyDraft: the dancers off the roster are those of a form.
StartRosterSync(c, u, R) ==
    /\ u \in Choreographies /\ R \in SUBSET ActiveRows(u) \ {{}}
    /\ Begin(c, [NoCall EXCEPT !.op = "sync-roster", !.at = "anchor", !.unit = u, !.rows = R])

StartChoreographyRemoval(c, u) ==
    /\ u \in Choreographies /\ unit[u] # "deleted"
    /\ Begin(c, [NoCall EXCEPT !.op = "remove-choreography", !.at = "choreography", !.unit = u])

\* The choreography for update, which a withdrawn or deleted one refuses, and
\* the rows of the roster it will take: those of the form, or all.
LockChoreography(c) ==
    LET u == call[c].unit
        taken == IF call[c].op = "sync-roster" THEN call[c].rows \cap ActiveRows(u) ELSE ActiveRows(u)
    IN /\ call[c].at = "choreography"
       /\ IF unit[u] = "standing"
          THEN /\ Acquire(c, {<<"choreography", u>>})
               /\ Become(c, [call[c] EXCEPT !.at = "rows", !.rows = taken, !.scope = academyOf[u]])
               /\ UNCHANGED rows
          ELSE NotHeldByOthers(c, {<<"choreography", u>>}) /\ Refuse(c)

\* removeInscriptionsFromRoster: evidence under the rows' locks.
DecideRosterRemoval(c) ==
    LET cut == {i \in call[c].rows : ~Evidence(i)}
    IN /\ RowsLocked(c) /\ call[c].op = "sync-roster"
       /\ Become(c, [call[c] EXCEPT !.at = IF cut = call[c].rows THEN "write" ELSE "pool", !.cut = cut])
       /\ UNCHANGED <<rows, held>>

\* removeChoreography and hasEvidenceToPreserve: of all its rows, withdrawn ones too.
DecideChoreographyRemoval(c) ==
    LET cut == IF \E i \in Kept(call[c].unit) : Evidence(i) THEN {} ELSE Kept(call[c].unit)
    IN /\ RowsLocked(c) /\ call[c].op = "remove-choreography"
       /\ Become(c, [call[c] EXCEPT !.at = IF cut # {} \/ call[c].rows = {} THEN "write" ELSE "pool",
                                    !.cut = cut])
       /\ UNCHANGED <<rows, held>>

\* removeSeminarInscription: active when looked at, before the transaction.
StartSeminarRemoval(c, i) ==
    /\ UnitOf[i] \notin Choreographies /\ roster[i] = "active"
    /\ Begin(c, [NoCall EXCEPT !.op = "remove-seminar-row", !.at = "anchor", !.unit = UnitOf[i],
                              !.rows = {i}, !.scope = Owner(i)])

\* removeSeminarInscriptionFromRoster: evidence under the anchor's lock, then a
\* delete or an update that waits for the row.
DecideSeminarRemoval(c) ==
    /\ call[c].at = "reading"
    /\ Become(c, [call[c] EXCEPT !.at = "rows", !.cut = {i \in call[c].rows : ~Evidence(i)}])
    /\ UNCHANGED <<rows, held>>
WriteSeminarRow(c) ==
    /\ RowsLocked(c) /\ call[c].op = "remove-seminar-row"
    /\ Go(c, IF call[c].cut = {} THEN "pool" ELSE "write")
    /\ UNCHANGED <<rows, held>>

\* releaseAboveRetainedDeposit of each row withdrawn, read under the pool's lock.
ReleaseAboveDeposit(c) ==
    LET need == [i \in Inscriptions |-> IF i \in call[c].rows \ call[c].cut
                                        THEN Held(i) - Retained(i) ELSE 0]
    IN /\ call[c].op \in {"sync-roster", "remove-choreography", "remove-seminar-row"}
       /\ LockPool(c) /\ WithPool(c, [call[c] EXCEPT !.moves = Unwind(need)])

\* The removal's commit: rows deleted take their allocations with them, the
\* others are stamped, money returns to the pool.  A choreography goes with its
\* rows, or is stamped with them.
CommitRemoval(c) ==
    LET u == call[c].unit
        goes == call[c].cut = Kept(u)
    IN /\ call[c].op \in {"sync-roster", "remove-choreography", "remove-seminar-row"}
       /\ call[c].at = "write" /\ NotHeldByOthers(c, WriteNeeds(c))
       /\ roster' = [i \in Inscriptions |->
                       IF i \in call[c].cut THEN "deleted"
                       ELSE IF i \in call[c].rows /\ roster[i] # "deleted" THEN "withdrawn"
                       ELSE roster[i]]
       /\ allocated' = Moved(c, call[c].cut)
       /\ unit' = IF call[c].op = "remove-choreography"
                   THEN [unit EXCEPT ![u] = IF goes THEN "deleted" ELSE "withdrawn"] ELSE unit
       /\ End(c)
       /\ UNCHANGED <<payment, nextPayment, refund, nextRefund, academyOf, merged, waived, stored, today,
                      document>>

-----------------------------------------------------------------------------
\* COMPROBANTES
\* As ComprobanteEmission leaves them in the tables: an emission holds its
\* anchor from its plan to its end.

Reserving(u) == \E i \in RowsOf(u) : document[i] = "reserved"

StartEmission(c, u, S) ==
    /\ call[c].at = "idle" /\ "emit" \in Operations
    /\ S \in SUBSET {i \in Kept(u) : document[i] = "none"} \ {{}}
    /\ ~Reserving(u)
    /\ Acquire(c, {<<"anchor", u>>})
    /\ Become(c, [NoCall EXCEPT !.op = "emit", !.at = "reserve", !.unit = u, !.rows = S,
                               !.scope = academyOf[u]])
    /\ UNCHANGED rows

\* reserveCorrelative: its foreign keys are the choreography and the academy.
\* The inscriptions its lines name are only in its payload.
ReserveLines(c) ==
    /\ call[c].at = "reserve" /\ NotHeldByOthers(c, WriteNeeds(c))
    /\ IF unit[call[c].unit] # "deleted" /\ call[c].scope \notin merged
       THEN /\ document' = [i \in Inscriptions |-> IF i \in call[c].rows THEN "reserved" ELSE document[i]]
            /\ Go(c, "settle")
            /\ UNCHANGED <<payment, nextPayment, refund, nextRefund, allocated, academyOf, merged, roster,
                           waived, stored, today, unit, held>>
       ELSE Refuse(c)

Settled(u, outcome) ==
    document' = [i \in Inscriptions |->
        IF i \in RowsOf(u) /\ document[i] = "reserved" THEN outcome ELSE document[i]]

\* recordReservedComprobante, releaseReservation, or an attempt left live.
SettleEmission(c) ==
    /\ call[c].at = "settle"
    /\ \E outcome \in {"recorded", "none", "reserved"} : Settled(call[c].unit, outcome)
    /\ End(c)
    /\ UNCHANGED <<payment, nextPayment, refund, nextRefund, allocated, academyOf, merged, roster,
                   waived, stored, today, unit>>

\* A re-check or an abandonment of an attempt left live.
SettleReservation(u) ==
    /\ Reserving(u) /\ NotHeld({<<"anchor", u>>})
    /\ \E outcome \in {"recorded", "none"} : Settled(u, outcome)
    /\ UNCHANGED <<payment, nextPayment, refund, nextRefund, allocated, academyOf, merged, roster,
                   waived, stored, today, unit, held, call>>

-----------------------------------------------------------------------------
\* PAYMENTS

\* registerPayment: the event's number, no pool lock.
RegisterPayment(a, n) ==
    /\ "register-payment" \in Operations /\ nextPayment \in Payments
    /\ a \notin merged /\ NotHeld({<<"academy", a>>})
    /\ payment' = [payment EXCEPT ![nextPayment] = [owner |-> a, amount |-> n]]
    /\ nextPayment' = nextPayment + 1
    /\ UNCHANGED <<refund, nextRefund, allocated, academyOf, merged, roster, waived, stored, today,
                   document, unit, held, call>>

\* lockPaymentPool reads the owner, locks its pool, and reads the payment again.
StartPaymentChange(c, op, p, n, a) ==
    /\ payment[p].amount > 0
    /\ op = "delete-payment" => n = 0 /\ a = payment[p].owner
    /\ Begin(c, [NoCall EXCEPT !.op = op, !.at = "pool", !.item = p, !.scope = payment[p].owner,
                              !.n = n, !.into = a])

\* getPaymentEditAccountingFieldErrors.
EditAllowed_FreeToShrink(c, p) == call[c].into \notin merged
EditAllowed(c, p) ==
    LET leaves == call[c].into # call[c].scope
    IN /\ call[c].into \notin merged
       /\ leaves => Spent(p) = 0
       /\ call[c].n >= Spent(p)
       /\ ~UncoversRefunds(p, leaves, call[c].n)

LockPaymentPool(c, p) ==
    LET stands == payment[p].amount > 0 /\ payment[p].owner = call[c].scope
        allowed == IF call[c].op = "edit-payment" THEN EditAllowed(c, p)
                                                  ELSE ~UncoversRefunds(p, TRUE, 0)
    IN /\ call[c].op \in {"edit-payment", "delete-payment"} /\ p = call[c].item /\ call[c].at = "pool"
       /\ IF stands /\ allowed THEN LockPool(c) /\ WithPool(c, call[c])
                                ELSE NotHeldByOthers(c, NextPool(c)) /\ Refuse(c)

\* The edit waits for the academy it moves to, and fails if that went.
UpdatePayment(c, p) ==
    /\ call[c].op = "edit-payment" /\ call[c].at = "write" /\ p = call[c].item
    /\ NotHeldByOthers(c, WriteNeeds(c))
    /\ payment' = IF call[c].into \in merged THEN payment
                  ELSE [payment EXCEPT ![p] = [owner |-> call[c].into, amount |-> call[c].n]]
    /\ End(c)
    /\ UNCHANGED <<nextPayment, refund, nextRefund, allocated, academyOf, merged, roster, waived,
                   stored, today, document, unit>>

\* Its allocations go with it.
DeletePayment(c, p) ==
    /\ call[c].op = "delete-payment" /\ call[c].at = "write" /\ p = call[c].item
    /\ payment' = [payment EXCEPT ![p].amount = 0]
    /\ allocated' = [allocated EXCEPT ![p] = MoneyNowhere]
    /\ End(c)
    /\ UNCHANGED <<nextPayment, refund, nextRefund, academyOf, merged, roster, waived, stored, today,
                   document, unit>>

-----------------------------------------------------------------------------
\* REFUNDS

StartRefund(c, a, n) ==
    /\ a \notin merged /\ n > 0
    /\ Begin(c, [NoCall EXCEPT !.op = "register-refund", !.at = "pool", !.scope = a, !.n = n])

\* From a page that shows the refund at a version.
StartRefundChange(c, op, r, n) ==
    /\ refund[r].amount > 0 /\ refund[r].version < MaxVersions
    /\ n > 0 <=> op = "edit-refund"
    /\ Begin(c, [NoCall EXCEPT !.op = op, !.at = "pool", !.item = r, !.scope = refund[r].owner,
                              !.version = refund[r].version, !.n = n])

\* registerRefund's cap, lockRefund, updateRefund's cap.
RefundAllowed_AnyVersion(c) ==
    LET own == IF call[c].op = "edit-refund" THEN refund[call[c].item].amount ELSE 0
    IN \/ call[c].op = "delete-refund"
       \/ /\ call[c].n <= AvailableBalance(call[c].scope) + own
          /\ call[c].op = "register-refund" => nextRefund \in Refunds
RefundAllowed(c) ==
    LET r == call[c].item
        asRead == refund[r].amount > 0 /\ refund[r].owner = call[c].scope
                  /\ refund[r].version = call[c].version
    IN CASE call[c].op = "register-refund" ->
                nextRefund \in Refunds /\ call[c].n <= AvailableBalance(call[c].scope)
         [] call[c].op = "edit-refund" ->
                asRead /\ call[c].n <= AvailableBalance(call[c].scope) + refund[r].amount
         [] call[c].op = "delete-refund" -> asRead

LockRefundPool(c) ==
    /\ call[c].op \in RefundChanges /\ call[c].at = "pool"
    /\ IF RefundAllowed(c) THEN LockPool(c) /\ WithPool(c, call[c])
                           ELSE NotHeldByOthers(c, NextPool(c)) /\ Refuse(c)

WriteRefund(c) ==
    LET r == IF call[c].op = "register-refund" THEN nextRefund ELSE call[c].item
        written == [owner |-> call[c].scope, amount |-> call[c].n, version |-> refund[r].version + 1]
    IN /\ call[c].op \in RefundChanges /\ call[c].at = "write" /\ r \in Refunds
       /\ refund' = [refund EXCEPT ![r] = written]
       /\ nextRefund' = IF call[c].op = "register-refund" THEN r + 1 ELSE nextRefund
       /\ End(c)
       /\ UNCHANGED <<payment, nextPayment, allocated, academyOf, merged, roster, waived, stored, today,
                      document, unit>>

-----------------------------------------------------------------------------
\* TWO ACADEMIES INTO ONE

StartMerge(c, removed, survivor) ==
    /\ removed # survivor /\ {removed, survivor} \cap merged = {}
    /\ Begin(c, [NoCall EXCEPT !.op = "merge", !.at = "pool", !.scope = removed, !.into = survivor])

\* Both pools, one after the other.
LockMergePool(c) ==
    /\ call[c].op = "merge" /\ LockPool(c)
    /\ Go(c, IF PoolsOf(c) = {a \in PoolsOf(c) : <<"pool", a>> \in held'[c]} THEN "academies" ELSE "pool")
    /\ UNCHANGED rows

\* Both academies for update, and the refusals read with them.
LockAcademies(c) ==
    /\ call[c].at = "academies"
    /\ IF \/ {call[c].scope, call[c].into} \cap merged # {}
          \/ \E i \in Inscriptions : Owner(i) = call[c].scope /\ document[i] = "recorded"
       THEN NotHeldByOthers(c, {"academy"} \X PoolsOf(c)) /\ Refuse(c)
       ELSE Acquire(c, {"academy"} \X PoolsOf(c)) /\ Go(c, "write") /\ UNCHANGED rows

\* Everything the removed academy owned changes owner, which waits for its
\* choreographies' rows.  A live reservation, or a comprobante recorded since,
\* still names the academy: deleting it fails and nothing moves.
CommitMerge(c) ==
    LET from == call[c].scope
        to == call[c].into
        fails == \E i \in Inscriptions : Owner(i) = from /\ document[i] # "none"
        Owned(row) == IF row.owner = from THEN [row EXCEPT !.owner = to] ELSE row
    IN /\ call[c].op = "merge" /\ call[c].at = "write" /\ NotHeldByOthers(c, WriteNeeds(c))
       /\ IF fails THEN Refuse(c)
          ELSE /\ academyOf' = [u \in Units |-> IF academyOf[u] = from THEN to ELSE academyOf[u]]
               /\ payment' = [p \in Payments |-> Owned(payment[p])]
               /\ refund' = [r \in Refunds |-> IF refund[r].owner = from
                                THEN [Owned(refund[r]) EXCEPT !.version = @ + 1] ELSE refund[r]]
               /\ merged' = merged \cup {from}
               /\ End(c)
               /\ UNCHANGED <<nextPayment, nextRefund, allocated, roster, waived, stored, today, document, unit>>

-----------------------------------------------------------------------------
\* Postgres aborts one call of a cycle of waits.
DeadlockVictim(c) == InCycle(c) /\ Refuse(c)

\* Nobody asks for anything.
Quiet == (\A c \in Calls : call[c].at = "idle") /\ UNCHANGED vars

Amounts == 1 .. MaxAmount

Start(c) ==
    /\ call[c].at = "idle"
    /\ \/ \E op \in Gestures \cap Operations, i \in Inscriptions, n \in Amount, pick \in Prices \cup {None} :
             StartGesture(c, op, i, n, pick)
       \/ \E op \in Charges \cap Operations, u \in Units, pick \in Prices \cup {None} : StartCharge(c, op, u, pick)
       \/ \E u \in Units, R \in SUBSET Inscriptions : StartRosterSync(c, u, R)
       \/ \E u \in Units : StartChoreographyRemoval(c, u)
       \/ \E i \in Inscriptions : StartSeminarRemoval(c, i)
       \/ \E u \in Units, S \in SUBSET Inscriptions : StartEmission(c, u, S)
       \/ \E p \in Payments, a \in Academies :
             \/ StartPaymentChange(c, "delete-payment", p, 0, a)
             \/ \E n \in Amounts : StartPaymentChange(c, "edit-payment", p, n, a)
       \/ \E a \in Academies, n \in Amounts : StartRefund(c, a, n)
       \/ \E op \in RefundChanges \ {"register-refund"}, r \in Refunds, n \in Amount : StartRefundChange(c, op, r, n)
       \/ \E a, b \in Academies : StartMerge(c, a, b)

Step(c) ==
    \/ \E i \in Inscriptions : ReadGesture(c, i) \/ ReadDepositRelease(c, i) \/ UnwindFromRow(c, i)
    \/ ReadCharge(c) \/ FundFromPool(c) \/ MoveMoney(c)
    \/ LockRow(c) \/ LockAnchor(c) \/ LockChoreography(c)
    \/ DecideRosterRemoval(c) \/ DecideChoreographyRemoval(c) \/ DecideSeminarRemoval(c)
    \/ WriteSeminarRow(c) \/ ReleaseAboveDeposit(c) \/ CommitRemoval(c)
    \/ ReserveLines(c) \/ SettleEmission(c)
    \/ \E p \in Payments : LockPaymentPool(c, p) \/ UpdatePayment(c, p) \/ DeletePayment(c, p)
    \/ LockRefundPool(c) \/ WriteRefund(c)
    \/ LockMergePool(c) \/ LockAcademies(c) \/ CommitMerge(c)
    \/ DeadlockVictim(c)

Elsewhere ==
    \/ Quiet
    \/ \E a \in Academies, n \in Amounts : RegisterPayment(a, n)
    \/ \E S \in SUBSET Inscriptions : Waive(S) \/ Unwaive(S)
    \/ \E i \in Inscriptions : TotalMoves(i)
    \/ \E u \in Units : SettleReservation(u)

Next == Elsewhere \/ \E c \in Calls : Start(c) \/ Step(c)

\* A running call goes on: a database session does not stop by itself, and
\* Postgres grants a lock to its waiters in turn, so that one a call keeps
\* waiting for is granted in the end.
Fairness == \A c \in Calls : SF_vars(Step(c))

Spec == Init /\ [][Next]_vars
FairSpec == Spec /\ Fairness

-----------------------------------------------------------------------------
\* PROPERTIES

\* Saldo disponible is never negative: no two calls allocate, refund or take away
\* the same free money (allocation-pool.server.ts, The invariant).
PoolNeverOverdrawn == \A a \in Academies : PoolFloor(a) >= 0

\* A payment never has more allocated than it is worth, whatever spreads, edits
\* and refunds draw on it at once (spreadFromPool, updatePayment).
NoPaymentOverspent == \A p \in Payments : Spent(p) <= payment[p].amount

\* Money pays for the inscriptions of the academy it came from, also across a
\* merge and a payment that changes academy.
OwnMoneyOnly ==
    \A p \in Payments, i \in Inscriptions : allocated[p][i] > 0 => payment[p].owner = Owner(i)

\* While no price moves, what is put on an inscription stays within the Total it is
\* read at (assertNoActiveOverAllocation), two gestures at once included, and on one
\* a waiver marks nothing is put (waiveInscriptions).  The Total may then be another:
\* money that covers the deposit of a cheaper price stored with it fixes that price.
OverTotalOnlyByCrossing ==
    \A i \in Inscriptions : Held(i) > TotalOf(i) =>
        /\ i \notin waived /\ Crossed(i)
        /\ Held(i) <= TotalAt[today[i]]

\* A withdrawn inscription holds a deposit at most, the one of the price it stores or
\* of the one that applied: whatever an allocation puts on it as it goes is released
\* with the rest (releaseAboveRetainedDeposit).
WithdrawnRetainsDeposit ==
    \A i \in Inscriptions : roster[i] = "withdrawn" =>
        \E p \in {stored[i], today[i]} \ {None} : Held(i) <= DepositAt[p]

\* The inscription a comprobante or a live reservation names is never deleted:
\* recording the attempt needs it (findReservedInscriptionIds).
DocumentedKeepsRow == \A i \in Inscriptions : document[i] # "none" => roster[i] # "deleted"

\* No removal deletes a choreography's row that carries evidence at the moment it
\* goes, money allocated while the removal runs included
\* (removeInscriptionsFromRoster, removeChoreography); a seminar's may, because
\* removeSeminarInscriptionFromRoster does not lock the row it reads.
EvidenceNeverDestroyed ==
    [][\A i \in Inscriptions :
        UnitOf[i] \in Choreographies /\ Evidence(i) => roster'[i] # "deleted"]_vars

\* A call about to write a refund writes over the one its page showed, whatever
\* other edits and merges did since (lockRefund).
RefundWrittenIsTheOneShown ==
    \A c \in Calls : call[c].at = "write" /\ call[c].op \in RefundChanges \ {"register-refund"} =>
        /\ refund[call[c].item].amount > 0
        /\ refund[call[c].item].owner = call[c].scope
        /\ refund[call[c].item].version = call[c].version

\* Every cycle of waits has a merge that waits for a withdrawal or a removal of a
\* choreography it moves (The pool lock), or the deletion of a choreography,
\* which cascades to its withdrawn rows, waiting for a charge of it.
MergeWaits(x, y) ==
    /\ call[x].op = "merge" /\ call[y].op \in {"sync-roster", "remove-choreography"}
    /\ academyOf[call[y].unit] = call[x].scope
DeletionWaits(x, y) ==
    /\ call[x].op = "remove-choreography" /\ call[y].op \in Charges
    /\ call[x].unit = call[y].unit
OnlyKnownCycles ==
    \A c \in Calls : InCycle(c) => \E x, y \in Calls :
        /\ OnOneCycle(c, x) /\ OnOneCycle(c, y) /\ WaitsFor(x, y)
        /\ MergeWaits(x, y) \/ DeletionWaits(x, y)

\* Every call ends, whatever the others hold.
EveryCallEnds == \A c \in Calls : call[c].at # "idle" ~> call[c].at = "idle"

=============================================================================
