# En Escena: specification and proofs

En Escena runs dance competitions: academies register choreographies and people
in an event, pay for them, take the stage in a program, are scored by judges and
may reach a grand final the public votes. It is a React Router application over
PostgreSQL; every request is served by Node code that reads and writes the
database in transactions, and one part talks to ARCA, the Argentine tax
authority, to emit fiscal documents. Several processes serve requests, so two
requests meet only in the database: through row locks, unique indexes, advisory
locks, and whatever they read before and write after each other.

This directory models that logic in TLA+, checks it with TLC and proves parts of
it with TLAPS. Paths below are relative to `src/app/lib/`.

## Inventory

| Component | State | Operations | Hard behaviour | What makes it correct |
|---|---|---|---|---|
| Comprobante emission (`comprobantes/`) | `comprobante`, `comprobante_reservation`, the anchor's advisory lock; ARCA's documents | emit, re-check, abandon a reserved attempt | answers lost or late, crash between ARCA and the database, two anchors of one series, another system in it | every authorized document is accounted for, exactly one invoice per anchor, credit within what was billed, nothing blocked for ever |
| Emission plan (`comprobantes/emission-plan.ts`, `anchor-billing.ts`) | none (pure) | the one document an anchor owes, its billing summary | signs, ceilings, rows without a price | emitting the plan leaves nothing to emit |
| Payments and allocations (`finances/`) | payments, refunds, allocations, waivers, locked prices | collect, allocate from a pool, refund, waive, void | pools of several payments, locks in a fixed order, concurrent cobros | no peso is allocated twice, no refund uncovered |
| Seminars (`seminars/`) | seminars, inscriptions, `reservedUntil` | register, pay, withdraw, expire | places counted under a lock, reservations that lapse by the clock | never more places than the seminar has; a paid place is never lost |
| Choreographies (`choreographies/`, `portal/`) | choreographies, their inscriptions, withdrawals | register, edit roster, withdraw, remove, birthdate correction | evidence read before a write, cascades | what has evidence is withdrawn, never deleted |
| Schedules (`schedules/`) | schedules, capacities | edit capacity, accept registrations | capacity edit against a registration | no schedule above its capacity |
| Presentations (`presentations/`) | presentations, order, program visibility, judge assignments | order the program, assign judges | ordering rules with many constraints | the order is a permutation; an evaluated presentation keeps its judges |
| Judging (`judging/`) | scores, criteria, feedback takes, disqualification | score, edit, settle, disqualify | a score against a disqualification, withdrawal or criteria edit; a take uploaded in a transaction that fails | no score on a presentation that cannot have one; no score against an edited rubric |
| Grand final (`grand-final/`) | finalists, rounds, batches, votes, codes, the result | pick, open, vote, close, tie-break, publish | votes against a close, two rounds at once, publishing with a tie open | one vote a code and round, none after it closes, the result published is the counted one |
| Events, bases, prices (`events/`, `categories/`, `modalities/`, `prices/`) | the event's configuration | create, update, delete | edits once something depends on them | a configuration in use keeps its meaning |
| Academies, roster, people (`academies/`, `roster/`, `dancers/`, `professors/`, `individuals/`) | academies, people, links | register, merge two of them | a merge against a write on the one that goes | rows change owner, none is lost or counted twice |
| Storage (`storage/`) | objects on disk beside rows | put, replace, delete | the object and its row are not one transaction | a row never names an object that is gone |
| Accounts (`auth/`) | users, sessions | sign in, recover, suspend | delegated to the Better Auth library | out of the model |
| Administration, features, shared, certificates | none of their own | forms, views, mail, PDF | none of the domain | out of the model |

How they interact: the roster, the prices and the money decide what an *anchor*
(a choreography, or an academy's part of a seminar) owes; an emission turns that
into a document of ARCA's; a withdrawal or a removal asks whether there is
*evidence* (money, a document, a score, a live reservation) before it deletes.
Judging reads the program; the grand final reads judging's results.

`PROJECT.json` lists the hazards of the code at the line where each bites, and
the properties that would catch it.

## Plan

Done, in the order in which a mistake costs most: `ComprobanteEmission` with
`AttemptLedger` (an outside party, failures and crashes, and documents nobody can undo);
`AcademyMoney` (pools, allocations, refunds, charges and waivers together with the removals,
withdrawals, emissions and merges that meet them in the same rows); `SeminarPlaces` and
`ScheduleCapacity`; `Judging`; `GrandFinal` and `FinalistBanners`; `ProgramOrdering`.

Left: `EmissionPlan` (`planAnchorEmission` and `deriveAnchorBilling` as operators, against the
reference that emitting the plan leaves nothing to emit), and the merge of two people.

## Modules

`ComprobanteEmission` models `comprobantes/emit-comprobante.server.ts`,
`reservation.server.ts`, `reserved-attempt.server.ts`, `anchor-lock.server.ts` and
`arca/emission.server.ts`, `arca/contingency.server.ts`.

* *State.* `comprobantes` and `reservations` are the tables; `lockHolder` is the
  session-level advisory lock of each anchor; `owed` is the anchor's derived total.
  `issued`, `last` and `inFlight` are ARCA: the documents it authorized, the
  last number of each series, and the requests it has not settled. `pc` and
  `job` are a call's place and its local variables.
* *Actions.* One per stretch of code between two awaits that another call can
  interleave with, named after the function: `TakeAnchorLock`/`AnchorBusy`
  (`withComprobanteAnchorLock`), `PlanConfirmedEmission`, `ClearSeriesAndDate`,
  `LookUpLastNumber`, `ReserveCorrelative`, `Submit`, then `ReceiveAnswer`,
  `LoseAnswer` or `TimeOut` (`attemptArca`), `ConsultNumber` (`recoverAuthorization`),
  and the three ends: `RecordReservedComprobante`, `ReleaseReservation`,
  `MarkReservationNumberTaken`. A re-check or an abandonment enters with
  `OpenReservedAttempt` and `RereadReservation` (`onLiveReservation`). `Crash` takes a
  call at any step: its lock goes with its session, its rows stay.
* *ARCA* is external: it authorizes only the number after the series' last, with
  a date not before the series' last, or rejects; another system may emit in
  the same series.

`AttemptLedger` is what an emission promises seen from outside: an attempt is planned,
live, recorded or closed; it is recorded only if ARCA holds its document, closed
only if ARCA does not and never will. `ImplementsLedger` reads the stage off the tables.

`AcademyMoney` models `finances/` (`allocation-pool`, `available-balance`, `inscription-money*`,
`choreography-cobro-*`, `withdrawal-retention`, `inscription-waiver`, `refunds`), the payment's
register, edit and delete of `features/admin`, the removals of
`choreographies/` and `seminars/`, and `academies/academy-merge.server.ts`.

* *State.* `payment`, `refund`, `allocated`, `waived`, `roster`, `unit`, `academyOf`, `merged` and
  `document` are what the tables say; a *unit* is a choreography, or an academy's part of a seminar.
  `stored` is the price an inscription stores and `today` the one that applies to it: its Total is that of the first once
  the money on it covers the first's deposit, of the second until then (`PriceOf`). `held` is the locks of each running transaction:
  rows, choreographies, academies, the advisory lock of each pool and each anchor.
  `call` is its place and local variables.
* *A call* is one transaction. It takes its locks one at a time in the order of the code and
  reads what is committed at that moment; its writes are one step, the commit, because
  nobody else sees them before. So `StartGesture` (`resolveInscriptionMoneyScope`, before the transaction),
  `LockRow`, `ReadGesture`, `FundFromPool` or `UnwindFromRow` (the pool's lock and the spread read
  under it) and `MoveMoney` are one gesture, and what a step keeps in `call` may be
  stale in the next. A write also waits for what Postgres makes it wait for
  (`WriteNeeds`: foreign keys, rows it changes, rows it cascades to).
* *Actions.* Gestures on one inscription (allocate, remove, release the excess, release a withdrawn
  row's deposit), charges of a whole choreography, waivers, payments, refunds with their version,
  roster saves, removals of a choreography and of a seminar inscription, merges of two academies, and an
  emission as `ComprobanteEmission` leaves it in the tables. `DeadlockVictim` is
  Postgres breaking a cycle of waits; `Quiet` is nobody asking, so that what
  TLC calls a deadlock is a call that can never go on.

`SeminarPlaces` models `seminars/` (`repository`, `inscriptions`, `seminar-places`,
`seminar-reservations`) and `finances/inscription-money-seminar.server.ts`.

* *State.* `open`, `quota`, `rate` and `start` are the seminar; `row` its inscriptions, each with its
  person, the price fixed at its deposit, the money on it and `reservedUntil`; `participates` and
  `linked` what picks a price and what says two people are one; `clock` the time.
  `history` remembers what edits did, for the properties alone.
* *Actions.* A call that locks the seminar's row is two steps, the decision under the lock and the
  commit: `ReadRegistration`/`Insert`, `ReadAllocation` or `ReadCharge` and then `Pay`,
  `ReadEdit`/`WriteEdit`, `ReadDelete`/`WriteDelete`. Those that take no such lock (`Remove`, `TakeMoney`,
  `DeletePayment`) and the world (`Tick`, `Dance`, `Link`) go in between. A call judges at the instant it
  arrived, any one up to now.

`ScheduleCapacity` models who occupies the schedules: `choreographies/` (registration's
confirmation, `schedule-capacity-lock`, the draft save, the birth date correction) and
`schedules/` (`repository`, `capacities`, `schedule-structure`).

* *State.* `total`, `accepts` and `entry` are a schedule, the categories it accepts and its entry of capacity;
  `row` says of each choreography what it is, where it is and whether it is in the entry or uses the total.
  `call` keeps what was read, what will be written and the locks held.
* *Actions.* `ReadRegistration`, `LockRegistration`; `ReadDraft`, `LockDraft`, `PlaceDraft`;
  `ReadCorrection`, then `ResolveCorrection` and `LockCorrection` a choreography at a time;
  `WritePlaced` and `WriteCorrection` commit. `ReadEdit`/`Edit` change a schedule, `ReadSize`/`WriteSize` its entry,
  whose check is made before any lock; `RemoveChoreography` frees a place.

`Judging` models a show day: `judging/` (`save-score`, `judge-write`, `score-settlement`, `criteria`) with
`presentations/judge-assignments.server.ts`, the draft's and the removal's evaluation guard, and
the two orderings' writes.

* *State.* `stage`, `disqualified`, `number`, `submodality` and `criteria` are the presentations; `assigned` and
  `score` the panel; `stored` the recorded takes in storage. A value is the sheet it was given on.
* *Actions.* A judge's save is `PrepareSave` (the take uploaded, the row read under the presentation's lock),
  `WriteScore`, `CommitSave` and `DeleteTake`. Beside it: `EditScore`, `SetDisqualified`, `AssignJudge`, the removal
  of judges (`ChoosePairs`, `LockPairs`, `DeletePairs`), `RemoveChoreography`, `CheckDraft`/`WriteDraft`,
  `CheckCriteria`/`ReplaceCriteria`, `ReadOrder`/`WriteOrder`.

`GrandFinal` models `grand-final/` (`voting-round`, `vote`, `vote-codes`, `result`, `ranking` and the
audit links). A transaction under the event's row lock is one step. Those that others meet halfway have a step each:
a vote inserted and not committed (`CastVote`, `CommitVote`, and `Explain`, which reads why after an insert of nothing), a close
that waits for such votes (`StartClose`, `Close`), a link dated before it waits for the event
(`StartLink`, `CountLinks`, `InsertLink`).

`FinalistBanners` models `grand-final/finalist-pick` and `banners`, and the opening that copies
them: a save uploads an object (`UploadBanner`), locks its row and, when its form posts the judges, the event (`LockBanner`),
writes (`WriteBanner`) and deletes what it replaced (`DeleteReplaced`); an opening locks the event, shares the rows, reads them and writes (`OpenLocks`,
`OpenShares`, `OpenReads`, `OpenWrites`). The state is the rows, the objects in storage and each call's variables.

`ProgramOrdering` models `presentations/ordering.ts` and the spacing of `warnings.ts` as operators over the rows
(`Automatic`, `Moved`, `Frozen`, `Blocked`, `Clash`), and as actions what changes their input between two
orderings: `Register`, `Correct`, `Remove`, `Evaluate`, `Reinstate`.

The `MC` modules name the values of each instance, give their functions and the symmetry. The
`Proofs` modules hold the theorems. Operators named `D_x`, just above a definition `D`, are `D` with one slip in
it (a dropped guard, a lock not taken, a swapped answer): each property is shown to tell at least
one of them from `D`.

### Abstractions and assumptions

Emission:

* A failed transport call (`contingency.server.ts:48`) means the request is over: ARCA
  settled it or never had it. Only our own timeout leaves it in flight. The code
  relies on the same reading.
* An approved answer carries its CAE.
* Another system's documents never carry one of our amounts (`ForeignAmounts` is
  disjoint from `Amounts`): ADR-0014 section 7 takes the comparison of amount and date
  for identity. Without it a foreign document can be recorded as ours.
* `OperatorVerified`: who abandons an unverified attempt says they checked ARCA's
  portal. The model lets them say so only when ARCA is done with it; the code
  still asks ARCA for its last number and is modelled doing so.
* The lock is tied to its call; a session dropped under a running call is not
  modelled (listed as a hazard).
* The sales point is one, so a kind of document is a series; lines, tax data and the
  printed page are left out; `planAnchorEmission` is reduced to the document
  (its gates are `EmissionPlan`'s).

Money:

* A price is a row of a list with a deposit and a Total each (`DepositAt`, `TotalAt`), any two naturals, so that a deposit may be zero or
  above a discounted Total; an allocation and a charge pick one of their unit's `Candidates`, or none, and store it with their money. What moves a
  Total under a row (the day, a price or discount edited) is `TotalMoves`. Distinct prices have distinct amounts, which is what a charge compares
  (`choreography-cobro-presets.server.ts:256`). Left out: how a discount between siblings is derived, a row no price applies to, the refusal of a
  stored price of another group type or schedule, the locks of price rows and of a seminar's list (taken between the inscriptions and
  the pool, and closing no cycle), and the seminar's charge, whose guard is about places.
* A charge reads each row it did not lock the pool for yet as the code does, but draws what covers a row's deposit and the rest of it together:
  the code covers the deposits of all rows first. Only which payment pays for which row changes.
* Units are fixed: a merge that joins two parts of one seminar into one is not modelled, nor a
  dancer added again after a withdrawal.
* A waiver takes the locks of its rows at once; a refund's row lock is folded into its pool's,
  which every writer of it holds. The event's row lock that removals also take is left out: it only adds waiting.
* Postgres is READ COMMITTED, and aborts some call of a cycle of waits.

Seminar places: a refusal is no step; changes of kind, the lock of the price list, the fiscal refusal of a deletion, a
charge of several seminars at once and the pool's side of a payment are left out (`AcademyMoney` has the pool and the
removal's race). Whether a row was covered is read before the pool's lock
(`inscription-money-seminar.server.ts:255`), and the model reads it there.

Schedules: one group type, hence one entry a schedule at most; a kind is a category, the modality being accepted or not in
the same way by all; an entry deleted and made again is the same entry; a correction that changes the age or the level of
a choreography and not its category is left out, since it takes no schedule's lock where the category is accepted
(`dancer-birthdate-schedule-move.server.ts:91-93`) and writes the category it read (`dancer-birthdate-correction.server.ts:264`), which can undo only what
a save changed meanwhile, the case `OnlyAStaleCorrectionMisplaces` exempts; a withdrawn choreography is no row, since it
holds no place and is final; the price and date freeze, the registration switch, the creation and deletion of a schedule
and the allocation of numbers are left out; a correction takes its choreographies in any order; a refusal
and a deadlock victim are `Abandon`.

Judging: presentations share one schedule, values are sheets, and which number an ordering gives is left open
(`ProgramOrdering` computes it). Grand final: an auditor's totals and codes never printed are left out; in
`FinalistBanners` the two slots of an academy, which behave alike, are one. Ordering: an ordering is one step, because it
holds the event; `Judging` has what an evaluation may do beside it.

## Runs

| Run | Checks | Instance |
|---|---|---|
| `emission_race` | `TypeOK`, `AuthorizedIsAccountedFor`, `LandableRequestIsReserved`, `RecordedIsWhatArcaHolds`, `NumberTakenIsFinal`, `ImplementsLedger` | two anchors, two calls, two dates, two attempts, a foreign document, a crash |
| `emission_notes` | `OneInvoicePerAnchor`, `CreditCeiling`, `EveryAttemptSettles` | one anchor, three attempts, a foreign document, under `OperatedSpec` |
| `emission_wedged` | `EveryAttemptSettles` (violated) | two anchors of one series, a crash |
| `money_pool` | `TypeOK`, `PoolNeverOverdrawn`, `NoPaymentOverspent`, `OverTotalOnlyByCrossing`, `RefundWrittenIsTheOneShown` | one academy, one choreography of two inscriptions and two prices, two payments, a refund |
| `money_roster` | `DocumentedKeepsRow`, `WithdrawnRetainsDeposit`, `EvidenceNeverDestroyed` | a choreography and a seminar part, an inscription each, two prices, one payment, Totals that move |
| `money_merge` | `OwnMoneyOnly`, `OnlyKnownCycles`, `EveryCallEnds` | two academies, a choreography of two inscriptions, one payment, under `FairSpec` |
| `grand_final` | `RefusalIsTrue`, `PublishedIsDecided`, `LinksWithinLimit`, `VotesAreFinal` | two finalists, a code, two voters, one link at a time |
| `finalist_banners` | `OnlyASaveWithoutJudgesTakesABanner` | two academies, two calls, three uploads, with judges or without |
| `judging` | `TypeOK`, `TakeIsStored`, `RemovedWasNeverJudged`, `DisqualifiedKeepsItsValues` | two presentations, one judge, two submodalities, a take, a sheet |
| `seminar_places` | `OnlyAnEditOverbooks`, `OnlyTheRateOverfills`, `PlaceKeptWithItsMoney`, `LinkedPersonOnce` | a dancer and the individual they also are, two inscriptions, two prices, two rates |
| `schedule_capacity` | `TotalHoldsItsOccupants`, `NobodyEntersAFullEntry`, `OnlyAStaleCorrectionMisplaces` | two choreographies, two schedules, two categories, two plans |
| `program_ordering` | `OrderingIsSettled`, `ClashesAreForced`, `MovesLandWhereDropped`, `AnnouncedNumbersStay` | three choreographies, two schedules on two days, four kinds |

*Bounds.* Two calls at a time, as many one after another as the tables allow: every race here
needs one call with a stale read and one that commits under it. Counters are bounded in the guards
(`MaxAttempts`, `MaxForeign`, `MaxCrashes`, `MaxVersions`, `MaxKeys`, `MaxTakes`, `MaxSheets`, `MaxTime`).

* Emission: two attempts give a number taken between a lookup and a reservation; three, with one anchor, an invoice,
  a note and a second note. One foreign document puts a number in our way; one crash reaches every step.
* Money: two payments are what makes the order of a spread and of an unwinding matter; amounts up to 2 tell a part
  from the whole of a deposit of 1; two prices of one deposit let an allocation store a cheaper one than the one it is judged at; two inscriptions make lock order and a roster removed in part possible; two writes
  of a refund make a stale page. `money_merge` keeps one payment and amounts of 1: whose money it is does not depend
  on how much; two inscriptions of one choreography are what both cycles of waits need. `Operations` limits each
  instance to the calls its properties are about: `money_pool` does without the removals, whose rows are
  `money_roster`'s, and `money_roster` without charges and refunds. Taking an amount off an inscription (`"remove"`) is in no
  instance: it is the excess's release with another amount, and the theorems have it.
* Seminar: one instant after the first is enough for a reservation to lapse and for a call to have arrived before
  it did; the seminar's own start is never reached (`Starts = {2}`). Two quotas and two rates let an edit overbook and overfill.
* Schedules: two plans, of different totals and accepted categories; `Capacities = {0}`, so that
  an entry comes from a plan and alone can only be deleted.
* Judging: one take and one sheet are enough for one save to replace what another read. Two presentations are
  a pair to reorder, and one to leave in place.
* Grand final: `CodePoints = 2` makes a code weigh two voters, so that two finalists tie on points with different votes.
* Ordering: three choreographies and `Gap = 1` (the code's `dancerSpacingGap` is 4) are a pair that
  clashes and the one that goes between; the kinds have two blocks and two casts that overlap.

Deadlock is checked except in `judging` and `program_ordering`, which stop when everything has been done. The others can
always see the clock, a total or nobody move.

*Fairness.* `CallFairness` (emission) is weak fairness of each call: every ARCA call is raced
by a timeout and every statement answers. `OperatorFairness` is an operator who comes
back to an attempt left live: strong fairness, because other calls take the
anchor in between; `OperatedSpec` has both. In `AcademyMoney`, `Fairness` is strong fairness of each call's own steps: a
session goes on by itself, and Postgres queues the waiters of a lock, so one that is released again and again is granted in the end.
ARCA settles what it received. Nothing is assumed of a confirmation, a crash or another system.

### What the violated run shows

`emission_wedged`: the last number is looked up before it is reserved, and nothing holds
the series in between, so an anchor can reserve a number another anchor has
taken to ARCA and already retired; `contingency.server.ts:115` says nobody in this application
can have submitted anything at it. When the other document has its amount and date, the attempt is read
as authorized; recording it breaks the unique index on the number, every re-check
repeats it, and the abandonment runs the same re-check. `docs/domain/finances.md:1304` promises
that one of the two always frees the series. With one anchor
(`emission_notes`) it does. No document is lost or recorded twice.

`money_merge` has two cycles of waits: a merge against a withdrawal, which the code knows of, and the deletion of a choreography
against a charge of it (*Divergences*). Postgres breaks them, `EveryCallEnds` says that both calls then end,
and `OnlyKnownCycles` that there is no other; it fails without either of its two disjuncts.

### Divergences

Seen while modelling, without a run of their own: the models do what the code does, and the properties are stated
so that they hold of it.

* *Money.* Removing a seminar inscription decides under the anchor's lock and not the row's
  (`seminars/inscription-withdrawal.server.ts:104`): an allocation that has the row commits after the
  decision, and the delete that waited for it takes the money with it. Whether the inscription is active is
  read before the transaction only (`seminars/inscriptions.server.ts:328`): a second removal, behind one that withdrew the
  row and behind the release of its deposit, deletes it. The excess over the Total is measured before the pool's lock
  (`finances/inscription-money.server.ts:443`): a payment deleted in between takes allocations it counted,
  and the release leaves the inscription below its Total. An allocation stores the price picked with it before it is judged
  (`finances/inscription-money.server.ts:258-264`, `305-311`), but what judges it reads the price of today while the row is below its deposit
  (`finances/allocation-pool.server.ts:417-467`): the money then fixes the picked price, and where that one is cheaper the inscription holds more than its Total,
  which `docs/domain/finances.md:609-611` says is refused with no override. `OverTotalOnlyByCrossing` says that nothing else does it, and that what
  is held is still within today's Total. `finances/allocation-pool.server.ts:64` knows of one cycle of waits; there is a second. A
  charge locks the rows that were active when it asked (`finances/choreography-cobro-presets.server.ts:147`), one withdrawn and emptied
  meanwhile included; a removal of the choreography holds its active rows, for one of which the charge then waits, and its delete
  (`choreographies/choreography-removal.server.ts:136`) waits for the withdrawn one. Postgres aborts one of them and no money moves.
* *Seminar places.* A higher deposit rate uncovers deposits and a lower one covers them
  (`seminars/repository.server.ts:319-343`), so that they can exceed the quota, which `docs/domain/seminars.md:335` says they never do.
* *Schedules.* An entry's size is judged before any lock (`schedules/capacities.server.ts:285`) and can end below who is
  in it; nothing keeps the sum of the entries within the total (`docs/domain/events.md:12`); a correction that read a
  choreography before a save moved it writes the category it resolved then, on the schedule it finds now
  (`docs/domain/choreographies.md:30`).
* *Judging.* "Evaluated" is read beside the presentation's lock, so that a draft, an ordering or a new sheet can land
  on a presentation just scored, contrary to `docs/domain/judging.md:14`, `:63`, `:65` and `:75`; criteria are replaced beside a
  save (`judging/criteria.server.ts:205`). Removing judges waits for a save and then breaks the foreign key for
  the whole selection (`presentations/judge-assignments.server.ts:190-199`). An edit can leave a row with neither value nor
  take, which `save-score.server.ts:214-222` says there is none of. `docs/domain/judging.md:54` and `results.server.ts:41-67` disagree
  on what closes a result.
* *Grand final.* A link created while a close waits for its votes outlives the round it watched
  (`grand-final/audit-totals.server.ts:31-34`). A banner save whose form posts no judges, as
  `features/admin/grand-final/academy/shared.ts:28-32` accepts, locks no event (`finalist-pick.server.ts:221-222`): when the academy's row was
  not there for an opening to share, the save may replace what the opening has read, and the round copies a deleted object, where
  `banners.server.ts:91-93` says never one a voting round still shows. `OnlyASaveWithoutJudgesTakesABanner` says that nothing else can.
* *Ordering.* A row that comes late to a started schedule may get a number below the announced ones of that
  schedule, contrary to `presentations/ordering.ts:149-156` and to the warning of `warnings.ts` that it goes after
  what has been evaluated. Empty numbers inside a frozen run count as rest for the ordering and not for the spacing
  warning, which `ordering.ts:355-357` says it reads alike.

## Proofs

Every theorem is for any values of the constants that satisfy the assumptions named in the module
(keys and numbers are natural, the null value is none of the others, the sets the code counts over are finite).
None of the properties is inductive alone. Each proof module states an invariant that is, which TLC checked on the small
instances first, proves one lemma per action for it, and derives the properties.

`ComprobanteEmissionProofs`: `TypeCorrect`, `NothingAuthorizedIsLost` (`AuthorizedIsAccountedFor`),
`LandableIsReserved` (`LandableRequestIsReserved`), `RecordedIsHeld` (`RecordedIsWhatArcaHolds`), `NumberTakenStays`
(`NumberTakenIsFinal`), `AnchorHasOneAttempt` (`OneAttemptPerAnchor`). `IInv` has these parts.
`LockInv`: a call past the lock holds its anchor's, so two calls of one anchor are
never both there. `NumberingInv` and `FreshInv`: attempts are numbered apart and one
that has not submitted has left nothing anywhere. `ReservationsInv` and `HoldingInv`: one
live reservation per series, and a call past reserving still owns its own.
`OpenedInv`: a re-check or an abandonment remembers what the reservation says.
`RequestsInv` and `ArcaInv`: a request and a document of ours are
what its reservation (or comprobante) says, numbers up to the last are taken.
`SettlingInv`: a call about to release has an attempt ARCA cannot authorize
any more, which is where the query's lateness and the abandonment's last number
matter. `VerifiedInv`: what the operator verified stays true.

In the same module, about the ledger and the documents: `LedgerImplemented` (`ImplementsLedger`), `InvoicedOnce` (`OneInvoicePerAnchor`),
`CreditsCovered` (`CreditCeiling`). The refinement maps each attempt to the stage its tables and its call give it, and needs
`IInv` to know that recording, releasing and marking close exactly one attempt and that ARCA's answer to it stands.
For the documents, `DocumentsInv` says that what an anchor has been billed is covered, and that what is reserved, or planned under the anchor's
lock, still fits what is recorded: nobody else can add a document of that anchor meanwhile. Sums of amounts are stated as
the cardinality of a set of units, so that adding a document is a union of disjoint finite sets and no induction is needed.

`AcademyMoneyProofs`: `DocumentedRowsStay` (`DocumentedKeepsRow`), `RefundsAreThoseShown` (`RefundWrittenIsTheOneShown`),
`TypeCorrect`, `MoneyStaysHome` (`OwnMoneyOnly`), `EvidenceStays` (`EvidenceNeverDestroyed`), `CyclesAreKnown` (`OnlyKnownCycles`).
`IInv` says of each call where its operation can be (`Placed`), what
it is about (`OfOneUnit`, `OfOneOwner`) and which locks it has by then (`Locked`); `ExclusiveInv`, that a lock has one holder.
The rest is what those locks buy. `CutClean`: what a removal has decided to delete stays without documents and
its choreography stands, because an emission of the unit needs the anchor, or the choreography's key that the
removal holds. `NamedStay`: what an emission is about to name stays, or the choreography goes with it
and the reservation's foreign key refuses. `ShownStays`: the refund a call checked under its pool's lock
is written by nobody else, since each writer holds the pool of the refund's owner. `Framed` says a
step moves one call and takes no lock from another, so most steps owe only their own call's invariant
(`QuietStep`); the five that write owe the others' too.
`MoneyInv` adds the money. `Moving`: what a call is about to put on an inscription comes from the payments of the academy whose
pool it holds, which neither a merge nor an edit of a payment can change without that pool. `Removing`: what a removal will delete holds no
money and no waiver, and its row is locked by it or off the roster. `Changing` and `Merging` say what a roster save and a merge hold
when they write. `FiniteAssumption` is what makes a sum over payments a number; that a sum of naturals is one, and that a spread of money
over payments or rows is within each of them, are lemmas (`SumNat`, `SpreadIs`, `UnwindIs`).
`OrderInv` is the order of the locks: what a call that holds one is, and how far it is (`Choreographed`, `Rowed`, `Pooled`). `OrderInductive` proves it
of every call, and `WaitsUp` that every wait for a call that itself waits goes up that order, but those of a merge for a removal of
what it takes and of a deletion for a charge. A cycle has to come down somewhere: the calls that one of its calls reaches, and that are off the cycle or
above it, would be closed under waiting, and hold the call itself (`CycleIsKnown`). A cycle is stated with the least set closed under
waiting, and not with a path, so that no induction on its length is needed.

In the same module, about the sums: `DepositsRetained` (`WithdrawnRetainsDeposit`), `TotalsHold` (`OverTotalOnlyByCrossing`), `PaymentsNeverOverspent`
(`NoPaymentOverspent`), `PoolsNeverOverdrawn` (`PoolNeverOverdrawn`): the arithmetic of the money, over any sets of payments, refunds and
inscriptions. Two facts make it provable without induction. A sum of naturals is the number of its *coins*, the pairs of an element and a
number up to its value, so that monotony, additivity and the single term that changes are facts about finite sets (`CoinsAre`,
`SumMono`, `SumPlus`, `SumSwap`). And a spread or an unwinding is where stretches laid end to end meet others: no two of the one meet
(`BeforeLaysOut`, `AfterLaysOut`), so that what one stretch meets of all the others is at most its length
(`StretchesFit`), and all of it when they reach as far (`StretchesCover`). Hence a spread puts on a row what it needs at most and draws on a payment what it has
available at most (`SpreadOnRow`, `SpreadFromPayment`), an unwinding takes off a row all it was asked (`UnwoundRow`), and
what is available and what the refunds take fit together in what the payments have free (`AvailableFits`).
None of the properties is inductive, because a call decides under its locks and writes later. `RowSums` adds to the first two what each call past its locks is
about to leave: `Releasing`, that a removal about to write leaves a deposit of the row's own at most on what it withdraws; `Funding`, that what a
charge or an allocation planned, and then what it is about to put on its rows, fits in the Total of the price they will store or of today's.
`PricesInductive` (`PriceInv`) says that the prices a call keeps are of the list. `PoolSums` adds to the other two `Drawing`,
that a call about to draw on a pool overspends no payment and leaves what the refunds take, and `Refunding`, that a refund about to be written
fits in what the pool has left. Both rest on `IInv` and `MoneyInv`: whoever is past a lock is alone on what it read.
`TotalsHold` has one hypothesis, that no price moves (`"reprice"` is not among the operations), because an edit may lower a Total
under what is already on it, as in the code. `DepositsRetained` has a weaker one, `Fixed`: that no price moves, or that all have one deposit, because
another day's price with a smaller deposit asks less of a row withdrawn before, which nothing takes down to it.

`SeminarPlacesProofs`: `TypeCorrect`, `EditsAloneOverbook` (`OnlyAnEditOverbooks`), `RatesAloneOverfill` (`OnlyTheRateOverfills`), `PlacesStay`
(`PlaceKeptWithItsMoney`), `NobodyIsRegisteredTwice` (`LinkedPersonOnce`). Its invariant: one call at a time is past the seminar's lock, and what it
decided there can only come to need less before it writes, because those that do not wait for the lock (removals, payments deleted, time)
only free places.

`ScheduleCapacityProofs`: `TypeCorrect`, `TotalsHold` (`TotalHoldsItsOccupants`), `NobodyEntersFull` (`NobodyEntersAFullEntry`), `OnlyStaleCorrections`
(`OnlyAStaleCorrectionMisplaces`). `RoomInv`: those on a schedule together with those granted a place there never exceed its
total, nor its entry when some of them go into it; `AcceptInv`: what is granted is accepted, on schedules the call holds. `FreshInv`, `DraftInv` and `CorrectionInv` say
how old what each kind of call read may be, and so whose write cannot find its row changed.

`JudgingProofs`: `TypeCorrect`, `TakesAreStored` (`TakeIsStored`), `RemovedNeverJudged` (`RemovedWasNeverJudged`), `ValuesOutliveDisqualification`
(`DisqualifiedKeepsItsValues`). `SavesInv`: one save at a time is past a presentation's lock, each take belongs to one row
or one call, and a take about to be deleted is no row's.

`GrandFinalProofs`: `TypeCorrect`, `PublicIsDecided` (`PublishedIsDecided`), `LinksAreLimited` (`LinksWithinLimit`), `RefusalsAreTrue` (`RefusalIsTrue`), `VotesStay`
(`VotesAreFinal`). Points never move in a closed round, because the close waits for the votes in flight; a link with room counted has the event.

`FinalistBannersProofs`: `TypeCorrect`, `BannersStored` (`OnlyASaveWithoutJudgesTakesABanner`). `UseInv`: each object has one row, a save's object is stored and named by nobody
else, what an opening will copy or a round copied is stored or lost to a save without judges, and what a save will delete is in no row, nor,
unless lost, in a round or copy. A save with the judges holds the event from its lock to its commit, so no opening is then copying what it replaces.

`ProgramOrderingProofs`: `TypeCorrect` (no two presentations share a number), `NumbersStayBounded`, `AnnouncedStay` (`AnnouncedNumbersStay`),
`MovesLandCorrect` (`MovesLandWhereDropped`), `OrderStands`, `OrderingSettledCorrect` (`OrderingIsSettled`), `ClashesForcedCorrect`
(`ClashesAreForced`). `TypeOK` is not inductive: an ordering finds a free position
for every row only while what is blocked leaves room. `Inv` adds `NumbersBounded`, that no number is above the rows that have one
and the deletions there were; so a gap between announced numbers costs a deleted row (`BlockedIsBounded`), and there is room for all
(`RoomForAll`). `Placed` is a recursion: `PlacedStepByStep` unfolds it, and `PlacedInTurns` shows that it is a sequence of turns,
in each of which the next row goes to the next free position. The properties of an ordering are then about turns (`AutomaticIs`). For what it
leaves behind the turns are forgotten: `OrderedBy` says of the rows alone that no free position is skipped and
each row that may move is the one an ordering would put there, with those that stand before it. An ordering
leaves that (`OrderOrders`), late rows it numbers into a started schedule, which freeze there and then, included; and rows that stand so are
given the same numbers (`OrderedSettles`) and clash only where every choice would (`OrderedClashes`). `OInv` adds to `Inv` that the rows
stand so until something else happens. Where these proofs go by induction they take the least counterexample, with the well-foundedness of
< on the naturals that the library proves (`LeastNatural`); its induction theorems, which take an operator, are out of the provers' reach.

*Only model-checked.* Liveness (`EveryAttemptSettles`, `EveryCallEnds`): TLAPS has no `ENABLED`, hence no fairness. Every
other property of a passing run is a theorem.

## Not modelled

Accounts are the authentication library's. Loaders, forms, views, mail, PDF and certificates
keep no state of the domain; most of the repository is these, its tests and its migrations, which is why the models, however much of the domain
they cover, map a small share of its lines. Events, bases and prices are created, edited and deleted one row at a time behind foreign
keys. The merge of two people, the emission plan's signs and gates and the roster's document rule are in the plan
above or in a component's note, and each hazard without a property says what it waits for.
