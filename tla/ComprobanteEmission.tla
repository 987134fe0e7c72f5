------------------------ MODULE ComprobanteEmission ------------------------
(***************************************************************************)
(* How a comprobante (a fiscal document) is emitted against ARCA, the tax  *)
(* authority's web service: the anchor's advisory lock, the plan made      *)
(* under it, the reservation of the series' next number committed before   *)
(* ARCA is asked, the authorization that may be rejected, lost or late,    *)
(* the query that recovers it, and the re-check and the abandonment of an  *)
(* attempt left live.                                                      *)
(*                                                                         *)
(* A call is one request the application is serving: an emission, a        *)
(* re-check or an abandonment.  Every await of the code that another call  *)
(* can interleave with is a step boundary here.                            *)
(*                                                                         *)
(* A definition named D_x above D is what D would be with one slip, x: the *)
(* properties tell the two apart.                                          *)
(***************************************************************************)
EXTENDS Integers, FiniteSets

CONSTANTS
    Anchors,         \* billed units: a choreography, or an academy's part of a seminar
    Calls,           \* requests the application may be serving at one moment
    Amounts,         \* amounts a document may carry
    Dates,           \* business days an emission may be dated today: [today - 10, today]
    ForeignAmounts,  \* amounts of documents another system puts in the series
    Free,            \* the lock of an anchor nobody holds
    MaxAttempts,     \* bound: emissions ever confirmed
    MaxForeign,      \* bound: documents ever put in the series by another system
    MaxCrashes       \* bound: calls ever cut short

\* A document another system emitted never carries an amount of ours: the
\* comparison of amount and date is all that tells them apart (ADR-0014).
ASSUME AmountsAssumption ==
    /\ Amounts \subseteq Nat \ {0}
    /\ ForeignAmounts \subseteq Nat \ Amounts
ASSUME DatesAssumption == Dates \subseteq Nat
ASSUME FreeAssumption == Free \notin Calls
ASSUME BoundsAssumption == MaxAttempts \in Nat /\ MaxForeign \in Nat /\ MaxCrashes \in Nat

VARIABLES
    \* The database.
    owed,          \* what each anchor owes now, its derived total
    comprobantes,  \* rows of comprobante: documents recorded with their CAE
    reservations,  \* rows of comprobante_reservation: attempts still live
    lockHolder,    \* the call whose session holds the anchor's advisory lock
    \* ARCA.
    issued,        \* documents ARCA authorized
    last,          \* FECompUltimoAutorizado of each series
    inFlight,      \* FECAESolicitar requests ARCA has not settled yet
    \* The application's calls in progress.
    pc,            \* the await each call is at
    job,           \* the call's local variables
    \* Counters behind the bounds.
    attempts,
    crashes

vars == <<owed, comprobantes, reservations, lockHolder, issued, last, inFlight,
          pc, job, attempts, crashes>>

-----------------------------------------------------------------------------
\* TYPES

\* A kind of document is a series: the sales point is one.
Kinds == {"factura_c", "nota_debito_c", "nota_credito_c"}

\* The attempt a document ARCA holds came from; no attempt of this application
\* has number 0.
Foreign == 0

Document == [att: Nat, kind: Kinds, nro: Nat, imp: Amounts \cup ForeignAmounts, fch: Dates]
Comprobante == [att: Nat, anchor: Anchors, kind: Kinds, nro: Nat, imp: Amounts, fch: Dates]
Reservation == [id: Nat, anchor: Anchors, kind: Kinds, nro: Nat, imp: Amounts, fch: Dates,
                state: {"unverified", "number-taken"}]
\* late: the authorization was cut off by our own timeout, so it may still be
\* in flight (ArcaCallFailure.timedOut).
Job == [act: {"emit", "recheck", "abandon"}, id: Nat, anchor: Anchors, kind: Kinds,
        nro: Nat, imp: Amounts, fch: Dates, late: BOOLEAN]
NoJob == [act |-> "none"]

\* Awaits reached without the anchor's lock, and under it.
Unlocked == {"idle", "locking"}
Locked == {"planning", "clearing", "looking", "reserving", "submitting", "waiting",
           "rereading", "abandoning", "consulting", "recording", "releasing",
           "marking", "unlocking"}

TypeOK ==
    /\ owed \in [Anchors -> Nat]
    /\ comprobantes \subseteq Comprobante
    /\ reservations \subseteq Reservation
    /\ lockHolder \in [Anchors -> Calls \cup {Free}]
    /\ issued \subseteq Document
    /\ last \in [Kinds -> Nat]
    /\ inFlight \subseteq Document
    /\ pc \in [Calls -> Unlocked \cup Locked]
    /\ job \in [Calls -> Job \cup {NoJob}]
    /\ \A c \in Calls : job[c] = NoJob <=> pc[c] = "idle"
    /\ attempts \in Nat
    /\ crashes \in Nat

-----------------------------------------------------------------------------
\* READS

\* The amounts of some documents added up, by counting their units one by one.
Units(docs) == UNION {{d} \X (1 .. d.imp) : d \in docs}
Total(docs) == Cardinality(Units(docs))
CreditsOf(docs) == {d \in docs : d.kind = "nota_credito_c"}

\* FC + ND - NC over a set of documents.
Net_NoCredits(docs) == Total(docs \ CreditsOf(docs))
Net(docs) == Total(docs \ CreditsOf(docs)) - Total(CreditsOf(docs))

DocumentsOf(a) == {c \in comprobantes : c.anchor = a}
Invoiced(a) == \E c \in DocumentsOf(a) : c.kind = "factura_c"
Delta(a) == owed[a] - Net(DocumentsOf(a))

\* planAnchorEmission: the one document the anchor owes, or none.  A unit with
\* an unpriced row or below its deposit owes none; EmissionPlan has those
\* gates, here they are an operator who cannot confirm.
Planned(a, kind, imp) ==
    CASE kind = "factura_c"      -> ~Invoiced(a) /\ imp = owed[a]
      [] kind = "nota_debito_c"  -> Invoiced(a) /\ imp = Delta(a)
      [] kind = "nota_credito_c" -> /\ Invoiced(a)
                                    /\ imp = -Delta(a)
                                    /\ Net(DocumentsOf(a)) - imp >= 0

\* findBlockingReservation: the series' own, or one of the anchor's anywhere.
Blocking(a, kind) == {r \in reservations : r.kind = kind \/ r.anchor = a}

\* checkCbteFch: no earlier than the last date this application recorded in
\* the series.  The ten days back and today are the ends of Dates.
DateAccepted(kind, fch) == \A c \in comprobantes : c.kind = kind => c.fch <= fch

\* FECompConsultar: what ARCA holds at a number, if anything.
HeldAt(kind, nro) == {d \in issued : d.kind = kind /\ d.nro = nro}
Matches_Anything(d, j) == TRUE
Matches_InCents(d, j) == 100 * d.imp = j.imp /\ d.fch = j.fch
Matches(d, j) == d.imp = j.imp /\ d.fch = j.fch

\* The row an attempt reserves, and the document it asks ARCA for.
RequestOf(j) == [att |-> j.id, kind |-> j.kind, nro |-> j.nro, imp |-> j.imp,
                 fch |-> j.fch]
ReservationOf_NoState(j) == [id |-> j.id, anchor |-> j.anchor, kind |-> j.kind,
                              nro |-> j.nro, imp |-> j.imp, fch |-> j.fch]
ReservationOf(j) == [id |-> j.id, anchor |-> j.anchor, kind |-> j.kind, nro |-> j.nro,
                     imp |-> j.imp, fch |-> j.fch, state |-> "unverified"]

\* Where a call goes when ARCA has nothing at its number: the number is free
\* only when the authorization did not time out.
WhenNotHeld_NotEmitted(j) == "releasing"
WhenNotHeld(j) == IF j.late THEN "unlocking" ELSE "releasing"

\* Where a call on a live reservation goes first: abandoning one whose number
\* was taken lets it go at once.
FirstStepOn_AlwaysAsks(j, r) == IF j.act = "recheck" THEN "consulting" ELSE "abandoning"
FirstStepOn(j, r) ==
    CASE j.act = "recheck" -> "consulting"
      [] j.act = "abandon" /\ r.state = "number-taken" -> "releasing"
      [] OTHER -> "abandoning"

\* Where the abandonment of an unverified attempt goes: it is let go only while
\* ARCA has not reached its number.
WhenAbandoned_OperatorsWord(j) == "releasing"
WhenAbandoned(j) == IF last[j.kind] < j.nro THEN "releasing" ELSE "consulting"

-----------------------------------------------------------------------------
\* ACTIONS

Init ==
    /\ owed \in [Anchors -> Amounts]
    /\ comprobantes = {}
    /\ reservations = {}
    /\ lockHolder = [a \in Anchors |-> Free]
    /\ issued = {}
    /\ last = [k \in Kinds |-> 0]
    /\ inFlight = {}
    /\ pc = [c \in Calls |-> "idle"]
    /\ job = [c \in Calls |-> NoJob]
    /\ attempts = 0
    /\ crashes = 0

At(c, step) == pc[c] = step
GoTo(c, step) == pc' = [pc EXCEPT ![c] = step]

\* The roster, the prices or the money change what the anchor owes.  Nothing
\* of it waits for the anchor's lock except a roster removal, which is a
\* transaction of its own and sees the reservation as evidence (RosterEvidence).
ObligationMoves(a) ==
    /\ \E amount \in Amounts \cup {0} :
          amount # owed[a] /\ owed' = [owed EXCEPT ![a] = amount]
    /\ UNCHANGED <<comprobantes, reservations, lockHolder, issued, last, inFlight,
                   pc, job, attempts, crashes>>

\* The operator confirms the document the preview showed, at a date of theirs.
ConfirmEmission(c, a) ==
    /\ At(c, "idle")
    /\ attempts < MaxAttempts
    /\ \E kind \in Kinds, imp \in Amounts, fch \in Dates :
          /\ Planned(a, kind, imp)
          /\ job' = [job EXCEPT ![c] = [act |-> "emit", id |-> attempts + 1,
                        anchor |-> a, kind |-> kind, nro |-> 0, imp |-> imp,
                        fch |-> fch, late |-> FALSE]]
    /\ attempts' = attempts + 1
    /\ GoTo(c, "locking")
    /\ UNCHANGED <<owed, comprobantes, reservations, lockHolder, issued, last,
                   inFlight, crashes>>

\* No call that can still reach ARCA works on the attempt, and ARCA is done
\* with it: what the operator who abandons an unverified attempt declares
\* having checked in ARCA's portal.
OperatorVerified(r) ==
    /\ \A c \in Calls : job[c] # NoJob /\ job[c].act = "emit" => job[c].id # r.id
    /\ \A q \in inFlight : q.att # r.id

\* onLiveReservation, first read: the reservation at the number the form names,
\* and the anchor whose lock its call will need.
OpenReservedAttempt(c, act, r) ==
    /\ At(c, "idle")
    /\ act = "abandon" /\ r.state = "unverified" => OperatorVerified(r)
    /\ job' = [job EXCEPT ![c] = [act |-> act, id |-> r.id, anchor |-> r.anchor,
                  kind |-> r.kind, nro |-> r.nro, imp |-> r.imp, fch |-> r.fch,
                  late |-> TRUE]]
    /\ GoTo(c, "locking")
    /\ UNCHANGED <<owed, comprobantes, reservations, lockHolder, issued, last,
                   inFlight, attempts, crashes>>

\* withComprobanteAnchorLock: pg_try_advisory_lock, on a session of its own.
TakeAnchorLock(c) ==
    /\ At(c, "locking")
    /\ lockHolder[job[c].anchor] = Free
    /\ lockHolder' = [lockHolder EXCEPT ![job[c].anchor] = c]
    /\ GoTo(c, IF job[c].act = "emit" THEN "planning" ELSE "rereading")
    /\ UNCHANGED <<owed, comprobantes, reservations, issued, last, inFlight, job,
                   attempts, crashes>>

\* It answers busy rather than wait.
AnchorBusy(c) ==
    /\ At(c, "locking")
    /\ lockHolder[job[c].anchor] # Free
    /\ GoTo(c, "idle")
    /\ job' = [job EXCEPT ![c] = NoJob]
    /\ UNCHANGED <<owed, comprobantes, reservations, lockHolder, issued, last,
                   inFlight, attempts, crashes>>

\* planConfirmedEmission: what the anchor owes under its lock must still be the
\* document the operator confirmed.
PlanConfirmedEmission_Preview(c) ==
    /\ At(c, "planning")
    /\ GoTo(c, "clearing")
    /\ UNCHANGED <<owed, comprobantes, reservations, lockHolder, issued, last,
                   inFlight, job, attempts, crashes>>
PlanConfirmedEmission(c) ==
    /\ At(c, "planning")
    /\ GoTo(c, IF Planned(job[c].anchor, job[c].kind, job[c].imp)
               THEN "clearing" ELSE "unlocking")
    /\ UNCHANGED <<owed, comprobantes, reservations, lockHolder, issued, last,
                   inFlight, job, attempts, crashes>>

\* clearSeriesAndDate: no live reservation in the way, and a date the series
\* can still take.
ClearSeriesAndDate(c) ==
    LET j == job[c] IN
    /\ At(c, "clearing")
    /\ GoTo(c, IF Blocking(j.anchor, j.kind) = {} /\ DateAccepted(j.kind, j.fch)
               THEN "looking" ELSE "unlocking")
    /\ UNCHANGED <<owed, comprobantes, reservations, lockHolder, issued, last,
                   inFlight, job, attempts, crashes>>

\* FECompUltimoAutorizado before an emission.  A failed call is not-emitted, an
\* answer with errors is rejected, and either ends the emission (LookupFails).
LookUpLastNumber(c) ==
    /\ At(c, "looking")
    /\ job' = [job EXCEPT ![c].nro = last[job[c].kind] + 1]
    /\ GoTo(c, "reserving")
    /\ UNCHANGED <<owed, comprobantes, reservations, lockHolder, issued, last,
                   inFlight, attempts, crashes>>

LookupFails(c) ==
    /\ At(c, "looking")
    /\ GoTo(c, "unlocking")
    /\ UNCHANGED <<owed, comprobantes, reservations, lockHolder, issued, last,
                   inFlight, job, attempts, crashes>>

\* reserveCorrelative: a statement of its own, whose unique index on the series
\* answers nothing when the series already holds a reservation.
ReserveCorrelative(c) ==
    LET j == job[c] IN
    /\ At(c, "reserving")
    /\ IF \E r \in reservations : r.kind = j.kind
       THEN GoTo(c, "unlocking") /\ UNCHANGED reservations
       ELSE /\ reservations' = reservations \cup {ReservationOf(j)}
            /\ GoTo(c, "submitting")
    /\ UNCHANGED <<owed, comprobantes, lockHolder, issued, last, inFlight, job,
                   attempts, crashes>>

\* FECAESolicitar leaves for ARCA.
Submit(c) ==
    /\ At(c, "submitting")
    /\ inFlight' = inFlight \cup {RequestOf(job[c])}
    /\ GoTo(c, "waiting")
    /\ UNCHANGED <<owed, comprobantes, reservations, lockHolder, issued, last, job,
                   attempts, crashes>>

\* ARCA's answer arrives.  Approved: it holds the attempt's document.  Not
\* approved: it settled the request without one, and the reservation goes.
ReceiveAnswer(c) ==
    /\ At(c, "waiting")
    /\ \A q \in inFlight : q.att # job[c].id
    /\ GoTo(c, IF \E d \in issued : d.att = job[c].id THEN "recording" ELSE "releasing")
    /\ UNCHANGED <<owed, comprobantes, reservations, lockHolder, issued, last,
                   inFlight, job, attempts, crashes>>

\* The call fails in transport: the request is over on ARCA's side, settled or
\* never arrived, and its answer is lost.
LoseAnswer(c) ==
    /\ At(c, "waiting")
    /\ inFlight' = {q \in inFlight : q.att # job[c].id}
    /\ GoTo(c, "consulting")
    /\ UNCHANGED <<owed, comprobantes, reservations, lockHolder, issued, last, job,
                   attempts, crashes>>

\* Our timeout elapses.  It cancels nothing: the request may still be in flight.
TimeOut(c) ==
    /\ At(c, "waiting")
    /\ job' = [job EXCEPT ![c].late = TRUE]
    /\ GoTo(c, "consulting")
    /\ UNCHANGED <<owed, comprobantes, reservations, lockHolder, issued, last,
                   inFlight, attempts, crashes>>

\* recoverAuthorization: FECompConsultar at the number.  A re-check is always
\* read as if its authorization had timed out.
ConsultNumber(c) ==
    LET j == job[c]
        held == HeldAt(j.kind, j.nro)
    IN
    /\ At(c, "consulting")
    /\ \/ /\ held = {}
          /\ GoTo(c, WhenNotHeld(j))
       \/ \E d \in held : GoTo(c, IF Matches(d, j) THEN "recording" ELSE "marking")
    /\ UNCHANGED <<owed, comprobantes, reservations, lockHolder, issued, last,
                   inFlight, job, attempts, crashes>>

\* The same query when it fails, or answers a document without its CAE: nothing
\* can be asserted and the reservation stays.
ConsultFails(c) ==
    /\ At(c, "consulting")
    /\ GoTo(c, "unlocking")
    /\ UNCHANGED <<owed, comprobantes, reservations, lockHolder, issued, last,
                   inFlight, job, attempts, crashes>>

\* recordReservedComprobante: one transaction that records the snapshot and
\* retires the reservation.  The unique index on the document's number rolls it
\* back, and the error leaves the reservation as it was.
RecordReservedComprobante(c) ==
    LET j == job[c] IN
    /\ At(c, "recording")
    /\ IF \E row \in comprobantes : row.kind = j.kind /\ row.nro = j.nro
       THEN UNCHANGED <<comprobantes, reservations>>
       ELSE /\ comprobantes' = comprobantes \cup
                 {[att |-> j.id, anchor |-> j.anchor, kind |-> j.kind, nro |-> j.nro,
                   imp |-> j.imp, fch |-> j.fch]}
            /\ reservations' = {r \in reservations : r.id # j.id}
    /\ GoTo(c, "unlocking")
    /\ UNCHANGED <<owed, lockHolder, issued, last, inFlight, job, attempts, crashes>>

ReleaseReservation(c) ==
    /\ At(c, "releasing")
    /\ reservations' = {r \in reservations : r.id # job[c].id}
    /\ GoTo(c, "unlocking")
    /\ UNCHANGED <<owed, comprobantes, lockHolder, issued, last, inFlight, job,
                   attempts, crashes>>

MarkReservationNumberTaken(c) ==
    /\ At(c, "marking")
    /\ reservations' = {IF r.id = job[c].id THEN [r EXCEPT !.state = "number-taken"] ELSE r
                          : r \in reservations}
    /\ GoTo(c, "unlocking")
    /\ UNCHANGED <<owed, comprobantes, lockHolder, issued, last, inFlight, job,
                   attempts, crashes>>

\* onLiveReservation, second read, under the lock: only the same row is acted
\* on.
RereadReservation(c) ==
    LET j == job[c]
        found == {r \in reservations : r.id = j.id /\ r.kind = j.kind /\ r.nro = j.nro}
    IN
    /\ At(c, "rereading")
    /\ \/ found = {} /\ GoTo(c, "unlocking")
       \/ \E r \in found : GoTo(c, FirstStepOn(j, r))
    /\ UNCHANGED <<owed, comprobantes, reservations, lockHolder, issued, last,
                   inFlight, job, attempts, crashes>>

\* abandonReservedAttempt on an unverified one.
AbandonUnverified(c) ==
    /\ At(c, "abandoning")
    /\ GoTo(c, WhenAbandoned(job[c]))
    /\ UNCHANGED <<owed, comprobantes, reservations, lockHolder, issued, last,
                   inFlight, job, attempts, crashes>>

\* The last-number lookup of the abandonment fails, or answers errors.
AbandonLookupFails(c) ==
    /\ At(c, "abandoning")
    /\ GoTo(c, "unlocking")
    /\ UNCHANGED <<owed, comprobantes, reservations, lockHolder, issued, last,
                   inFlight, job, attempts, crashes>>

Unlock(c) ==
    /\ At(c, "unlocking")
    /\ lockHolder' = [lockHolder EXCEPT ![job[c].anchor] = Free]
    /\ GoTo(c, "idle")
    /\ job' = [job EXCEPT ![c] = NoJob]
    /\ UNCHANGED <<owed, comprobantes, reservations, issued, last, inFlight,
                   attempts, crashes>>

\* The process dies, or a write of the call throws: its session's lock goes
\* with it and so does all it knew.  What it committed or sent stays.
Crash(c) ==
    /\ ~At(c, "idle")
    /\ crashes < MaxCrashes
    /\ crashes' = crashes + 1
    /\ lockHolder' = [a \in Anchors |-> IF lockHolder[a] = c THEN Free ELSE lockHolder[a]]
    /\ GoTo(c, "idle")
    /\ job' = [job EXCEPT ![c] = NoJob]
    /\ UNCHANGED <<owed, comprobantes, reservations, issued, last, inFlight, attempts>>

-----------------------------------------------------------------------------
\* ARCA, external to the repository: it authorizes only the number after the
\* series' last, dated no earlier than the series' last document (10016).

InSequence(q) ==
    /\ q.nro = last[q.kind] + 1
    /\ \A d \in issued : d.kind = q.kind => d.fch <= q.fch

ArcaAuthorizes(q) ==
    /\ InSequence(q)
    /\ issued' = issued \cup {q}
    /\ last' = [last EXCEPT ![q.kind] = q.nro]
    /\ inFlight' = inFlight \ {q}
    /\ UNCHANGED <<owed, comprobantes, reservations, lockHolder, pc, job, attempts,
                   crashes>>

\* Out of sequence or for any other reason; a rejection consumes no number.
ArcaRejects(q) ==
    /\ inFlight' = inFlight \ {q}
    /\ UNCHANGED <<owed, comprobantes, reservations, lockHolder, issued, last, pc,
                   job, attempts, crashes>>

\* Another system with the same sales point emits in the series.
ForeignEmission(kind) ==
    /\ Cardinality({d \in issued : d.att = Foreign}) < MaxForeign
    /\ \E imp \in ForeignAmounts, fch \in Dates :
          LET d == [att |-> Foreign, kind |-> kind, nro |-> last[kind] + 1,
                    imp |-> imp, fch |-> fch]
          IN InSequence(d) /\ issued' = issued \cup {d}
    /\ last' = [last EXCEPT ![kind] = @ + 1]
    /\ UNCHANGED <<owed, comprobantes, reservations, lockHolder, inFlight, pc, job,
                   attempts, crashes>>

-----------------------------------------------------------------------------
\* SPECIFICATION

\* What the application does in a call once somebody started it.
CallStep(c) ==
    \/ TakeAnchorLock(c) \/ AnchorBusy(c)
    \/ PlanConfirmedEmission(c) \/ ClearSeriesAndDate(c)
    \/ LookUpLastNumber(c) \/ LookupFails(c) \/ ReserveCorrelative(c) \/ Submit(c)
    \/ ReceiveAnswer(c) \/ LoseAnswer(c) \/ TimeOut(c)
    \/ ConsultNumber(c) \/ ConsultFails(c)
    \/ RecordReservedComprobante(c) \/ ReleaseReservation(c)
    \/ MarkReservationNumberTaken(c)
    \/ RereadReservation(c) \/ AbandonUnverified(c) \/ AbandonLookupFails(c)
    \/ Unlock(c)

Next ==
    \/ \E a \in Anchors : ObligationMoves(a)
    \/ \E c \in Calls, a \in Anchors : ConfirmEmission(c, a)
    \/ \E c \in Calls, act \in {"recheck", "abandon"}, r \in reservations :
          OpenReservedAttempt(c, act, r)
    \/ \E c \in Calls : CallStep(c) \/ Crash(c)
    \/ \E q \in inFlight : ArcaAuthorizes(q) \/ ArcaRejects(q)
    \/ \E kind \in Kinds : ForeignEmission(kind)

Spec == Init /\ [][Next]_vars

\* A call goes on until it ends: every ARCA call is raced by a timeout of ours
\* (15 s a lookup, 30 s an authorization) and every database statement answers.
CallFairness == \A c \in Calls : WF_vars(CallStep(c))

\* What the operator who abandons does, on one anchor.
Abandonment(a, Step(_)) == \E c \in Calls :
    job[c] # NoJob /\ job[c].act = "abandon" /\ job[c].anchor = a /\ Step(c)

\* Nobody re-checks an anchor at every single moment: the operator finds it
\* unlocked again and again, wins its lock once in a while, and ARCA answers
\* one of the queries.  ARCA settles what it received.
OperatorFairness ==
    /\ \A a \in Anchors :
          /\ SF_vars(\E c \in Calls, r \in reservations :
                        /\ r.anchor = a /\ lockHolder[a] = Free
                        /\ OpenReservedAttempt(c, "abandon", r))
          /\ SF_vars(Abandonment(a, TakeAnchorLock))
          /\ SF_vars(Abandonment(a, AbandonUnverified))
          /\ SF_vars(Abandonment(a, ConsultNumber))
    /\ WF_vars(\E q \in inFlight : ArcaAuthorizes(q) \/ ArcaRejects(q))

CallSpec == Spec /\ CallFairness
OperatedSpec == Spec /\ CallFairness /\ OperatorFairness

-----------------------------------------------------------------------------
\* PROPERTIES

\* Every document ARCA authorized for this application is recorded, or a live
\* reservation still stands for it: none is lost by a lost answer, a timeout,
\* a crash, a re-check or an abandonment (emitWithContingency,
\* abandonReservedAttempt).
AuthorizedIsAccountedFor ==
    \A d \in issued :
        \/ d.att = Foreign
        \/ \E row \in comprobantes : row.att = d.att
        \/ \E r \in reservations : r.id = d.att

\* A request ARCA could still authorize keeps its reservation, so nothing else
\* is planned on its anchor or numbered in its series meanwhile.
LandableRequestIsReserved ==
    \A q \in inFlight :
        q.nro > last[q.kind] => \E r \in reservations : r.id = q.att

\* What is recorded as a comprobante is what ARCA holds at that number for the
\* very attempt it was recorded from, amount and date included.
RecordedIsWhatArcaHolds ==
    \A row \in comprobantes :
        [att |-> row.att, kind |-> row.kind, nro |-> row.nro, imp |-> row.imp,
         fch |-> row.fch] \in issued

\* No constraint of the table says it, only the anchor's lock and the check
\* under it: an anchor never has two attempts live, in any series.
OneAttemptPerAnchor ==
    \A r1, r2 \in reservations : r1.anchor = r2.anchor => r1 = r2

\* The documents ARCA authorized for an anchor, recorded or still to record.
AuthorizedFor(a) ==
    DocumentsOf(a)
      \cup {r \in reservations : r.anchor = a /\ \E d \in issued : d.att = r.id}

\* An anchor is invoiced once, however many operators emit it and whatever was
\* lost on the way.
OneInvoicePerAnchor ==
    \A a \in Anchors :
        Cardinality({d \in AuthorizedFor(a) : d.kind = "factura_c"}) <= 1

\* The credit notes ARCA authorized never exceed the invoice and its debit
\* notes; ARCA does not enforce it (#686), exceedsCeiling under the lock does.
CreditCeiling ==
    \A a \in Anchors :
        LET docs == AuthorizedFor(a)
        IN Total(CreditsOf(docs)) <= Total(docs \ CreditsOf(docs))

\* A number-taken reservation can be let go at once (ADR-0014 section 7): its
\* own document is not at ARCA and cannot appear there any more.
NumberTakenIsFinal ==
    \A r \in reservations :
        r.state = "number-taken" =>
            /\ r.nro <= last[r.kind]
            /\ \A d \in issued : d.att # r.id

\* How far an attempt is, read off the database and the calls: planned until a
\* call that has not reserved it yet gives it up.
Emitting(x) == \E c \in Calls :
    /\ job[c] # NoJob /\ job[c].act = "emit" /\ job[c].id = x
    /\ pc[c] \in {"locking", "planning", "clearing", "looking", "reserving"}
StageOf(x) ==
    IF \E row \in comprobantes : row.att = x THEN "recorded"
    ELSE IF \E r \in reservations : r.id = x THEN "live"
    ELSE IF x > attempts \/ Emitting(x) THEN "planned" ELSE "closed"

\* The emission keeps what the ledger of attempts promises: each one is recorded
\* or closed for good, once, according to whether ARCA holds its document.
Ledger == INSTANCE AttemptLedger WITH
    Attempts <- 1..MaxAttempts,
    stage <- [x \in 1..MaxAttempts |-> StageOf(x)],
    authorized <- {d.att : d \in issued} \ {Foreign}
ImplementsLedger == Ledger!Spec

\* The alert on a reservation left live offers two ways out (finances.md), so
\* one an operator keeps coming back to is settled and its series freed.
EveryAttemptSettles ==
    \A id \in 1..MaxAttempts :
        (\E r \in reservations : r.id = id) ~> (\A r \in reservations : r.id # id)
=============================================================================
