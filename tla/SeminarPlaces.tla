----------------------------- MODULE SeminarPlaces -----------------------------
(***************************************************************************)
(* Who holds the places of one seminar: registrations that reserve one for *)
(* a while, money that covers a deposit and takes one for good, whole      *)
(* charges, withdrawals and payments deleted, which free one, and the      *)
(* administration moving the quota, the deposit rate and the date.         *)
(*                                                                         *)
(* Registrations, money and edits lock the seminar's row, decide, and      *)
(* write; removals and deletions of payments do not lock it.  A call       *)
(* judges at the instant it arrived, now, which may be long before it got  *)
(* the lock.  What money there is, and what a removal does to it, is       *)
(* AcademyMoney's subject.                                                 *)
(*                                                                         *)
(* A definition named D_x above D is what D would be with one slip, x.     *)
(***************************************************************************)
EXTENDS Integers, FiniteSets

CONSTANTS
    Calls,      \* requests that may be running at one moment
    People,     \* dancers, professors and individuals
    Individuals, \* those of them that registered themselves
    Links,      \* <<roster row, individual>> of one document
    Rosters,    \* the people of each academy; an individual is one of its own
    Rows,       \* bound: inscriptions, 1 .. n
    Prices,     \* rows of the price list: <<amount, forParticipants>>
    Rates,      \* deposit rates, in percent
    Quotas,     \* quotas the seminar may be given
    Starts,     \* instants it may be given to start at
    Hold,       \* SEMINAR_RESERVATION_HOURS
    MaxTime,    \* bound: instants
    MaxAmount,  \* bound: the money of one gesture
    None        \* no person, no price

ASSUME NoneAssumption == None \notin People \cup Prices
ASSUME LinksAssumption ==
    /\ Individuals \subseteq People
    /\ Links \subseteq (People \ Individuals) \X Individuals
ASSUME PricesAssumption == Prices \subseteq (Nat \X BOOLEAN)
ASSUME NumbersAssumption ==
    /\ Rates \subseteq 1 .. 99
    /\ Quotas \subseteq Nat
    /\ Starts \subseteq Nat \ {0}
    /\ Hold \in Nat \ {0}
    /\ MaxTime \in Nat /\ MaxAmount \in Nat
ASSUME RostersAssumption == Rosters \subseteq SUBSET People
ASSUME RowsAssumption == Rows \subseteq Nat /\ IsFiniteSet(Rows)

VARIABLES
    open,         \* whether the seminar is still there
    quota, rate, start,
    row,          \* rows of seminar_inscription
    participates, \* roster rows in a choreography, which picks their price
    linked,       \* whether administration confirmed the Links
    clock,
    history,      \* what edits did: "overbooked" it; "overfilled" it, by the rate
    call          \* each call's place and local variables

seminar == <<open, quota, rate, start, history>>
world == <<participates, linked, clock>>
vars == <<seminar, row, world, call>>

-----------------------------------------------------------------------------
\* TYPES

\* until: reservedUntil, 0 when NULL.
NoRow == [person |-> None, price |-> None, allocated |-> 0, until |-> 0, withdrawn |-> FALSE]
Withdrawn == [NoRow EXCEPT !.withdrawn = TRUE]
Inscriptions == [person : People, price : Prices \cup {None}, allocated : Nat,
                 until : Nat, withdrawn : {FALSE}]

\* knew: whether a registration read the link confirmed.  lines: the price and
\* the money a payment puts on each row.  plan: the seminar an edit writes.
NoCall == [at |-> "idle", person |-> None, until |-> 0, knew |-> FALSE,
           lines |-> <<>>, plan |-> <<>>]
Holding == {"registering", "paying", "editing", "deleting"}

TypeOK ==
    /\ open \in BOOLEAN
    /\ quota \in Quotas /\ rate \in Rates /\ start \in Starts
    /\ row \in [Rows -> Inscriptions \cup {NoRow, Withdrawn}]
    /\ participates \subseteq People \ Individuals
    /\ linked \in BOOLEAN
    /\ clock \in 0 .. MaxTime
    /\ history \subseteq {"overbooked", "overfilled"}
    /\ \A c \in Calls :
        /\ call[c].at \in {"idle"} \cup Holding
        /\ call[c].at = "registering" => call[c].person \in People
        /\ call[c].at = "paying" =>
            /\ DOMAIN call[c].lines \subseteq {r \in Rows : row[r] # NoRow}
            /\ \A r \in DOMAIN call[c].lines : call[c].lines[r].price \in Prices

Init ==
    /\ open = TRUE
    /\ quota \in Quotas /\ rate \in Rates /\ start \in Starts
    /\ row = [r \in Rows |-> NoRow]
    /\ participates = {}
    /\ linked = FALSE
    /\ clock = 0
    /\ history = {}
    /\ call = [c \in Calls |-> NoCall]

-----------------------------------------------------------------------------
\* THE PLACE

\* Math.round of a share of the price.
Deposit(price, percent) == (price[1] * percent + 50) \div 100

\* Only money crosses a deposit: one that rounds to zero still takes a peso.
Crossed(money, price, percent) ==
    price # None /\ money > 0 /\ money >= Deposit(price, percent)

Plans == [quota : Quotas, rate : Rates, start : Starts]

Active(r) == row[r] # NoRow /\ ~row[r].withdrawn
IsCovered(r) == Active(r) /\ Crossed(row[r].allocated, row[r].price, rate)

Started(now) == now >= start
IsReserved(r, now) ==
    Active(r) /\ ~IsCovered(r) /\ ~Started(now) /\ now < row[r].until

Covered == {r \in Rows : IsCovered(r)}
Reserved(now) == {r \in Rows : IsReserved(r, now)}

Held == Cardinality(Covered \cup Reserved(clock))

\* The places free for these rows, their own left out; never below zero where
\* it is compared.
PlacesLeftFor_CoveredOnly(crossing, now) == quota - Cardinality(Covered \ crossing)
PlacesLeftFor(crossing, now) ==
    quota - Cardinality((Covered \cup Reserved(now)) \ crossing)

\* now: the instant the call arrived.
Fit(crossing) ==
    crossing = {} \/ \E now \in 0 .. clock :
                         Cardinality(crossing) <= PlacesLeftFor(crossing, now)

Earliest(a, b) == IF a < b THEN a ELSE b

GrantedUntil(now) ==
    IF PlacesLeftFor({}, now) > 0 THEN Earliest(now + Hold, start) ELSE 0

-----------------------------------------------------------------------------
\* CALLS AND LOCKS

\* The lock registrations, money and edits take on the seminar's row.
SeminarFree_NotLocked == open
SeminarFree == open /\ \A c \in Calls : call[c].at \notin Holding

\* A payment locks the inscriptions it reaches, which their removal waits for.
RowFree(r) == \A c \in Calls : r \notin DOMAIN call[c].lines

Go(c, to) == call' = [call EXCEPT ![c] = to]
End(c) == Go(c, NoCall)

\* A rollback or a crash; a refusal changes nothing and is no step.
Abandon(c) ==
    /\ call[c].at # "idle"
    /\ End(c)
    /\ UNCHANGED <<seminar, row, world>>

-----------------------------------------------------------------------------
\* REGISTRATION

Alike(a, b) == <<a, b>> \in Links \/ <<b, a>> \in Links
IsRegistered(p) == \E r \in Rows : Active(r) /\ row[r].person = p

LinkedRefusal(p) == linked /\ \E other \in People : Alike(p, other) /\ IsRegistered(other)

ReadRegistration(c, now, p) ==
    /\ call[c].at = "idle"
    /\ SeminarFree
    /\ ~Started(now)
    /\ ~LinkedRefusal(p)
    /\ Go(c, [call[c] EXCEPT !.at = "registering", !.person = p, !.knew = linked,
                             !.until = GrantedUntil(now)])
    /\ UNCHANGED <<seminar, row, world>>

\* A person on the roster is refused by the partial unique index.
Insert(c) ==
    /\ call[c].at = "registering"
    /\ ~IsRegistered(call[c].person)
    /\ \E r \in Rows :
        /\ row[r] = NoRow
        /\ \A q \in Rows : q < r => row[q] # NoRow
        /\ row' = [row EXCEPT ![r] =
                    [NoRow EXCEPT !.person = call[c].person, !.until = call[c].until]]
    /\ End(c)
    /\ UNCHANGED <<seminar, world>>

-----------------------------------------------------------------------------
\* MONEY

\* An individual takes part as the rows a confirmed link reaches do.
Participating(p) ==
    p \in participates \/ (linked /\ \E other \in participates : <<other, p>> \in Links)

\* The rows of the list a person's participant cell offers.
Candidates(r) == {price \in Prices : price[2] = Participating(row[r].person)}

\* The price an allocation lands against.  Below the deposit a pick is stored;
\* without one a stored price stays, unless it is of the other cell.
PricedFor(r, pick) ==
    IF IsCovered(r) THEN {row[r].price} \cap {pick, row[r].price}
    ELSE IF pick # None THEN {pick} \cap Candidates(r)
    ELSE IF row[r].price = None THEN {}
    ELSE IF row[r].price \in Candidates(r) THEN {row[r].price}
    ELSE Candidates(r)

Owed(r, price, today) ==
    (IF Crossed(row[r].allocated, price, rate) THEN price[1] ELSE today[1]) - row[r].allocated

ReadAllocation(c, r, pick, money) ==
    /\ call[c].at = "idle"
    /\ SeminarFree /\ RowFree(r)
    /\ Active(r)
    /\ IsCovered(r) => pick \in {None, row[r].price}
    /\ \E price \in PricedFor(r, pick), today \in Candidates(r) :
        /\ money <= Owed(r, price, today)
        /\ IsCovered(r) \/ ~Crossed(row[r].allocated + money, price, rate)
              \/ Fit({r})
        /\ Go(c, [call[c] EXCEPT !.at = "paying",
                                 !.lines = [q \in {r} |-> [price |-> price, adds |-> money]]])
    /\ UNCHANGED <<seminar, row, world>>

\* What a charge would store and put on a row, of the price it holds unless that
\* is of the other cell.
AtLeastZero(n) == IF n < 0 THEN 0 ELSE n
Charged(r, today) ==
    IF IsCovered(r) \/ (row[r].price # None /\ row[r].price[2] = today[2])
    THEN row[r].price ELSE today
ToDeposit(r, price) ==
    LET deposit == Deposit(price, rate)
    IN  AtLeastZero((IF deposit = 0 THEN 1 ELSE deposit) - row[r].allocated)
Charge(r, price, stage) ==
    IF stage = "deposit" THEN ToDeposit(r, price) ELSE AtLeastZero(price[1] - row[r].allocated)
Crosses(r, price, stage) ==
    ~IsCovered(r) /\ Crossed(row[r].allocated + Charge(r, price, stage), price, rate)

\* The row the deadlines leave in effect in each cell.
InEffect == {today \in [BOOLEAN -> Prices] : \A cell \in BOOLEAN : today[cell][2] = cell}

ReadCharge(c, roster, stage) ==
    /\ call[c].at = "idle"
    /\ SeminarFree
    /\ \E today \in InEffect :
        LET active == {r \in Rows : Active(r) /\ row[r].person \in roster}
            price == [r \in active |-> Charged(r, today[Participating(row[r].person)])]
            crossing == {r \in active : Crosses(r, price[r], stage)}
            reached == {r \in active : Charge(r, price[r], stage) > 0} \cup crossing
        IN  /\ reached # {}
            /\ \A r \in active : RowFree(r)
            /\ Fit(crossing)
            /\ \A r \in reached : row[r].allocated <= price[r][1]
            /\ Go(c, [call[c] EXCEPT !.at = "paying",
                        !.lines = [r \in reached |->
                            [price |-> price[r], adds |-> Charge(r, price[r], stage)]]])
    /\ UNCHANGED <<seminar, row, world>>

Pay(c) ==
    /\ call[c].at = "paying"
    /\ row' = [r \in Rows |->
                IF r \in DOMAIN call[c].lines
                THEN [row[r] EXCEPT !.price = call[c].lines[r].price,
                                    !.allocated = @ + call[c].lines[r].adds]
                ELSE row[r]]
    /\ End(c)
    /\ UNCHANGED <<seminar, world>>

TakeMoney(r, money) ==
    /\ SeminarFree /\ RowFree(r)
    /\ Active(r) /\ money <= row[r].allocated
    /\ row' = [row EXCEPT ![r].allocated = @ - money]
    /\ UNCHANGED <<seminar, world, call>>

\* A payment is deleted, under the pool's lock alone, with what it had on rows.
DeletePayment ==
    /\ \E rest \in [Rows -> 0 .. MaxAmount] :
        /\ \A r \in Rows : rest[r] <= row[r].allocated
        /\ \E r \in Rows : rest[r] < row[r].allocated
        /\ row' = [r \in Rows |-> [row[r] EXCEPT !.allocated = rest[r]]]
    /\ UNCHANGED <<seminar, world, call>>

-----------------------------------------------------------------------------
\* REMOVAL

\* With money or a comprobante to its name a row stays, withdrawn; what it then
\* keeps is in no count of places, and is left out.
Remove(r) ==
    /\ Active(r) /\ RowFree(r)
    /\ \/ row[r].allocated = 0 /\ row' = [row EXCEPT ![r] = NoRow]
       \/ row' = [row EXCEPT ![r] = Withdrawn]
    /\ UNCHANGED <<seminar, world, call>>

-----------------------------------------------------------------------------
\* THE SEMINAR

\* The rate is structural once a deposit is covered; the quota's floor is what
\* is covered, at the rate of before.
EditAllowed_QuotaOnly(plan) == plan.quota >= Cardinality(Covered)
EditAllowed(plan) ==
    /\ plan.rate = rate \/ Covered = {}
    /\ plan.quota >= Cardinality(Covered)

ReadEdit(c, plan) ==
    /\ call[c].at = "idle"
    /\ SeminarFree
    /\ EditAllowed(plan)
    /\ Go(c, [call[c] EXCEPT !.at = "editing", !.plan = plan])
    /\ UNCHANGED <<seminar, row, world>>

WriteEdit(c) ==
    /\ call[c].at = "editing"
    /\ quota' = call[c].plan.quota
    /\ rate' = call[c].plan.rate
    /\ start' = call[c].plan.start
    /\ End(c)
    /\ UNCHANGED <<open, row, world>>
    /\ history' = history \cup (IF Held' > quota' THEN {"overbooked"} ELSE {})
                          \cup (IF Cardinality(Covered)' > quota' /\ rate' # rate THEN {"overfilled"} ELSE {})

ReadDelete(c) ==
    /\ call[c].at = "idle"
    /\ SeminarFree
    /\ \A r \in Rows : row[r] = NoRow
    /\ Go(c, [call[c] EXCEPT !.at = "deleting"])
    /\ UNCHANGED <<seminar, row, world>>

\* The foreign key of the inscriptions cascades.
WriteDelete(c) ==
    /\ call[c].at = "deleting"
    /\ open' = FALSE
    /\ row' = [r \in Rows |-> NoRow]
    /\ End(c)
    /\ UNCHANGED <<quota, rate, start, history, world>>

-----------------------------------------------------------------------------
\* THE WORLD

Tick ==
    /\ clock < MaxTime
    /\ clock' = clock + 1
    /\ UNCHANGED <<seminar, row, participates, linked, call>>

\* A person joins a choreography or leaves their last one.
Dance(p) ==
    /\ participates' = IF p \in participates THEN participates \ {p} ELSE participates \cup {p}
    /\ UNCHANGED <<seminar, row, linked, clock, call>>

\* confirmIndividualLink, revokeIndividualLink.
Link ==
    /\ linked' = ~linked
    /\ UNCHANGED <<seminar, row, participates, clock, call>>

-----------------------------------------------------------------------------

Next ==
    \/ \E c \in Calls :
        \/ Abandon(c) \/ Insert(c) \/ Pay(c) \/ WriteEdit(c) \/ ReadDelete(c) \/ WriteDelete(c)
        \/ \E now \in 0 .. clock, p \in People : ReadRegistration(c, now, p)
        \/ \E r \in Rows, pick \in Prices \cup {None}, money \in 1 .. MaxAmount :
            ReadAllocation(c, r, pick, money)
        \/ \E roster \in Rosters, stage \in {"deposit", "balance"} : ReadCharge(c, roster, stage)
        \/ \E plan \in Plans : ReadEdit(c, plan)
    \/ \E r \in Rows : Remove(r) \/ \E money \in 1 .. MaxAmount : TakeMoney(r, money)
    \/ DeletePayment
    \/ Tick \/ Link
    \/ \E p \in People \ Individuals : Dance(p)

Spec == Init /\ [][Next]_vars

-----------------------------------------------------------------------------
\* PROPERTIES

\* Registrations, money, removals and time never leave more places held than the
\* seminar has: only its own edit does, which may lower the quota under live
\* reservations or bring lapsed ones back (grantSeminarReservation,
\* checkSeminarCrossings).
OnlyAnEditOverbooks == Held > quota => "overbooked" \in history

\* The covered deposits come to exceed the quota in no other way than by an edit
\* of the deposit rate (checkSeminarCrossings, checkSeminarQuota).
OnlyTheRateOverfills == Cardinality(Covered) > quota => "overfilled" \in history

\* A covered inscription on the roster loses its place only with its money: no
\* edit, price or person's change takes it (the structural guard of updateSeminar
\* and the price that is fixed at the deposit).
PlaceKeptWithItsMoney ==
    [][\A r \in Covered : Active(r)' /\ row'[r].allocated >= row[r].allocated => IsCovered(r)']_vars

\* Once a registration has read the link as confirmed, it does not make the
\* person registered twice, once by an academy and once alone
\* (findLinkedPersonRefusal).
LinkedPersonOnce ==
    [][\A c \in Calls : call[c].at = "registering" /\ call[c].knew /\ row' # row /\ call'[c] = NoCall
         => ~\E other \in People : Alike(call[c].person, other) /\ IsRegistered(other)]_vars
=============================================================================
