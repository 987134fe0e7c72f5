--------------------- MODULE ComprobanteEmissionProofs ---------------------
(***************************************************************************)
(* Proofs about ComprobanteEmission: its type invariant, and that no       *)
(* document ARCA authorized is ever lost, whatever the number of anchors,  *)
(* calls, attempts, foreign documents and crashes.                         *)
(* Then what its inductive invariant gives beyond single attempts.  The    *)
(* emission implements the ledger of attempts: each one is recorded or     *)
(* closed for good, once, according to whether ARCA holds its document.    *)
(* And what is planned under an anchor's lock still fits the anchor's      *)
(* documents when it is recorded: one invoice, and credits under what it   *)
(* bills.                                                                  *)
(***************************************************************************)
EXTENDS ComprobanteEmission, FiniteSetTheorems, TLAPS

-----------------------------------------------------------------------------
\* THE INDUCTIVE INVARIANT

\* Steps of a call whose attempt has a reservation of its own, and of an
\* emission that has not made it yet.
Reserved == {"submitting", "waiting", "abandoning", "consulting", "recording",
             "releasing", "marking"}
Unreserved == {"locking", "planning", "clearing", "looking", "reserving"}

Emits(c) == pc[c] # "idle" /\ job[c].act = "emit"

\* Whoever works on an anchor holds its lock.
LockInv == \A c \in Calls : pc[c] \in Locked => lockHolder[job[c].anchor] = c

\* Attempts are numbered 1..attempts.
Numbered(x) == 1 <= x /\ x <= attempts
NumberingInv ==
    /\ \A c \in Calls : pc[c] # "idle" => Numbered(job[c].id)
    /\ \A r \in reservations : Numbered(r.id)
    /\ \A q \in inFlight : Numbered(q.att)
    /\ \A d \in issued : d.att # Foreign => Numbered(d.att)
    /\ \A row \in comprobantes : Numbered(row.att)

\* One emission works on an attempt, and until it reserves, nothing of the
\* attempt is anywhere.
FreshInv ==
    /\ \A c1, c2 \in Calls :
          Emits(c1) /\ Emits(c2) /\ job[c1].id = job[c2].id => c1 = c2
    /\ \A c \in Calls : Emits(c) /\ pc[c] \in Unreserved =>
          /\ \A r \in reservations : r.id # job[c].id
          /\ \A row \in comprobantes : row.att # job[c].id
          /\ \A c2 \in Calls : pc[c2] # "idle" /\ c2 # c => job[c2].id # job[c].id
    /\ \A c \in Calls : Emits(c) /\ pc[c] \in Unreserved \cup {"submitting"} =>
          /\ \A q \in inFlight : q.att # job[c].id
          /\ \A d \in issued : d.att # job[c].id

\* A series has one reservation, an anchor has one, and an attempt has one.
ReservationsInv ==
    /\ \A r1, r2 \in reservations :
          r1.kind = r2.kind \/ r1.anchor = r2.anchor \/ r1.id = r2.id => r1 = r2
    /\ \A c \in Calls : pc[c] \in {"looking", "reserving"} =>
          \A r \in reservations : r.anchor # job[c].anchor

\* The same attempt, as its reservation, its call and its request describe it.
Agrees(x, y) == x.kind = y.kind /\ x.nro = y.nro /\ x.imp = y.imp /\ x.fch = y.fch
HoldingInv ==
    \A c \in Calls : pc[c] \in Reserved =>
        \E r \in reservations :
            r.id = job[c].id /\ r.anchor = job[c].anchor /\ Agrees(r, job[c])
OpenedInv ==
    \A c \in Calls : pc[c] # "idle" /\ job[c].act # "emit" =>
        \A r \in reservations :
            r.id = job[c].id => r.anchor = job[c].anchor /\ Agrees(r, job[c])
RequestsInv ==
    \A r \in reservations :
        /\ \A q \in inFlight : q.att = r.id => Agrees(q, r)
        /\ \A d \in issued : d.att = r.id => Agrees(d, r)

\* ARCA's numbers: one document each, none past the series' last, and none for
\* a request still to be settled.
ArcaInv ==
    /\ \A d \in issued : d.nro <= last[d.kind]
    /\ \A d1, d2 \in issued :
          (d1.kind = d2.kind /\ d1.nro = d2.nro) \/ (d1.att = d2.att /\ d1.att # Foreign)
             => d1 = d2
    /\ \A d \in issued, q \in inFlight : d.att # q.att
    /\ \A q1, q2 \in inFlight : q1.att = q2.att => q1 = q2
    /\ \A d \in issued : d.att = Foreign => d.imp \in ForeignAmounts

\* Nothing of the attempt is at ARCA nor can get there.
Dead(x) ==
    /\ \A d \in issued : d.att # x
    /\ \A q \in inFlight : q.att = x => q.nro <= last[q.kind]

\* What a call knows when it settles its reservation.
SettlingInv ==
    \A c \in Calls :
        LET j == job[c] IN
        /\ pc[c] = "releasing" => Dead(j.id)
        /\ pc[c] = "marking" => j.nro <= last[j.kind] /\ \A d \in issued : d.att # j.id
        /\ pc[c] = "recording" => \E d \in issued : Agrees(d, j) /\ d.att # Foreign
        /\ pc[c] = "consulting" /\ ~j.late => \A q \in inFlight : q.att # j.id
        /\ pc[c] # "idle" /\ j.act # "emit" => j.late
        /\ pc[c] \in {"planning", "clearing", "looking", "reserving", "submitting",
                      "waiting"} => j.act = "emit"
        /\ pc[c] \in {"rereading", "abandoning"} => j.act # "emit"
        /\ pc[c] = "abandoning" => j.act = "abandon" /\ \A q \in inFlight : q.att # j.id

\* The word of whoever abandons an unverified attempt stays true.
VerifiedInv ==
    \A c \in Calls : pc[c] # "idle" /\ job[c].act = "abandon" =>
        \A r \in reservations :
            r.id = job[c].id /\ r.state = "unverified" => OperatorVerified(r)

IInv ==
    /\ TypeOK
    /\ LockInv
    /\ NumberingInv
    /\ FreshInv
    /\ ReservationsInv
    /\ HoldingInv
    /\ OpenedInv
    /\ RequestsInv
    /\ ArcaInv
    /\ SettlingInv
    /\ VerifiedInv
    /\ AuthorizedIsAccountedFor
    /\ LandableRequestIsReserved
    /\ RecordedIsWhatArcaHolds
    /\ NumberTakenIsFinal

-----------------------------------------------------------------------------
\* TYPE CORRECTNESS

\* One step of a call keeps the types.
LEMMA CallStepType ==
    ASSUME TypeOK, NEW c \in Calls, CallStep(c)
    PROVE  TypeOK'
<1> USE AmountsAssumption, FreeAssumption DEF TypeOK, Locked, Unlocked, At, GoTo
<1>1. CASE TakeAnchorLock(c)
  BY <1>1 DEF TakeAnchorLock, NoJob
<1>2. CASE AnchorBusy(c)
  BY <1>2 DEF AnchorBusy, NoJob
<1>3. CASE PlanConfirmedEmission(c)
  BY <1>3 DEF PlanConfirmedEmission, NoJob
<1>4. CASE ClearSeriesAndDate(c)
  BY <1>4 DEF ClearSeriesAndDate, NoJob
<1>5. CASE LookUpLastNumber(c)
  BY <1>5 DEF LookUpLastNumber, Job, NoJob
<1>6. CASE LookupFails(c)
  BY <1>6 DEF LookupFails
<1>7. CASE ReserveCorrelative(c)
  BY <1>7 DEF ReserveCorrelative, ReservationOf, Reservation, Job, NoJob
<1>8. CASE Submit(c)
  BY <1>8 DEF Submit, RequestOf, Document, Job, NoJob
<1>9. CASE ReceiveAnswer(c)
  BY <1>9 DEF ReceiveAnswer
<1>10. CASE LoseAnswer(c)
  BY <1>10 DEF LoseAnswer
<1>11. CASE TimeOut(c)
  <2> DEFINE late == [job[c] EXCEPT !.late = TRUE]
  <2>1. /\ pc[c] = "waiting" /\ pc' = [pc EXCEPT ![c] = "consulting"]
        /\ job' = [job EXCEPT ![c] = late]
        /\ UNCHANGED <<owed, comprobantes, reservations, lockHolder, issued, last, inFlight,
                       attempts, crashes>>
    BY <1>11 DEF TimeOut
  <2>2. job[c] \in Job
    BY <2>1
  <2>3. late \in Job /\ late # NoJob
    BY <2>2 DEF Job, NoJob
  <2> HIDE DEF late
  <2>4. /\ pc' \in [Calls -> Unlocked \cup Locked]
        /\ job' \in [Calls -> Job \cup {NoJob}]
        /\ \A d \in Calls : job'[d] = NoJob <=> pc'[d] = "idle"
    BY <2>1, <2>3
  <2>5. QED BY <2>1, <2>4
<1>12. CASE ConsultNumber(c)
  BY <1>12 DEF ConsultNumber, WhenNotHeld
<1>13. CASE ConsultFails(c)
  BY <1>13 DEF ConsultFails
<1>14. CASE RecordReservedComprobante(c)
  BY <1>14 DEF RecordReservedComprobante, Comprobante, Job, NoJob
<1>15. CASE ReleaseReservation(c)
  BY <1>15 DEF ReleaseReservation
<1>16. CASE MarkReservationNumberTaken(c)
  BY <1>16 DEF MarkReservationNumberTaken, Reservation
<1>17. CASE RereadReservation(c)
  BY <1>17 DEF RereadReservation, FirstStepOn
<1>18. CASE AbandonUnverified(c)
  BY <1>18 DEF AbandonUnverified, WhenAbandoned
<1>19. CASE AbandonLookupFails(c)
  BY <1>19 DEF AbandonLookupFails
<1>20. CASE Unlock(c)
  BY <1>20 DEF Unlock, NoJob
<1> QED
  BY <1>1, <1>2, <1>3, <1>4, <1>5, <1>6, <1>7, <1>8, <1>9, <1>10, <1>11, <1>12, <1>13,
     <1>14, <1>15, <1>16, <1>17, <1>18, <1>19, <1>20 DEF CallStep

\* Every step keeps the types.
LEMMA NextType ==
    ASSUME TypeOK, [Next]_vars
    PROVE  TypeOK'
<1> USE AmountsAssumption, FreeAssumption DEF TypeOK, Locked, Unlocked, At, GoTo
<1>1. ASSUME NEW a \in Anchors, ObligationMoves(a)
      PROVE  TypeOK'
  BY <1>1 DEF ObligationMoves
<1>2. ASSUME NEW c \in Calls, NEW a \in Anchors, ConfirmEmission(c, a)
      PROVE  TypeOK'
  BY <1>2 DEF ConfirmEmission, Job, NoJob
<1>3. ASSUME NEW c \in Calls, NEW act \in {"recheck", "abandon"},
             NEW r \in reservations, OpenReservedAttempt(c, act, r)
      PROVE  TypeOK'
  BY <1>3 DEF OpenReservedAttempt, Reservation, Job, NoJob
<1>4. ASSUME NEW c \in Calls, CallStep(c)
      PROVE  TypeOK'
  BY <1>4, CallStepType
<1>5. ASSUME NEW c \in Calls, Crash(c)
      PROVE  TypeOK'
  BY <1>5 DEF Crash
<1>6. ASSUME NEW q \in inFlight, ArcaAuthorizes(q)
      PROVE  TypeOK'
  BY <1>6 DEF ArcaAuthorizes, Document
<1>7. ASSUME NEW q \in inFlight, ArcaRejects(q)
      PROVE  TypeOK'
  BY <1>7 DEF ArcaRejects
<1>8. ASSUME NEW kind \in Kinds, ForeignEmission(kind)
      PROVE  TypeOK'
  BY <1>8 DEF ForeignEmission, Document, Foreign
<1>9. CASE UNCHANGED vars
  BY <1>9 DEF vars
<1> HIDE DEF TypeOK
<1> QED
  BY <1>1, <1>2, <1>3, <1>4, <1>5, <1>6, <1>7, <1>8, <1>9 DEF Next

\* The initial state has its types.
LEMMA InitType ==
    ASSUME Init
    PROVE  TypeOK
<1>1. owed \in [Anchors -> Nat]
  BY AmountsAssumption DEF AmountsAssumption, Init
<1>2. /\ pc \in [Calls -> Unlocked \cup Locked]
      /\ job \in [Calls -> Job \cup {NoJob}]
      /\ \A c \in Calls : job[c] = NoJob <=> pc[c] = "idle"
  BY DEF Init, Unlocked
<1> QED
  BY <1>1, <1>2 DEF Init, TypeOK

\* The variables keep their types: the tables, ARCA's documents and the calls'
\* local state.
THEOREM TypeCorrect == Spec => []TypeOK
<1>1. Init => TypeOK
  BY InitType
<1>2. TypeOK /\ [Next]_vars => TypeOK'
  BY NextType
<1> QED
  BY <1>1, <1>2, PTL DEF Spec

-----------------------------------------------------------------------------
\* THE INVARIANT IS INDUCTIVE


\* Only its holder moves under an anchor's lock.
LEMMA LockStep ==
    ASSUME IInv, [Next]_vars
    PROVE  LockInv'
<1> USE DEF IInv, TypeOK, LockInv, Job, NoJob, At, GoTo, Locked, Unlocked
<1>1. ASSUME NEW c \in Calls, CallStep(c)
      PROVE  LockInv'
  <2>1. CASE TakeAnchorLock(c)
    BY <2>1, FreeAssumption DEF TakeAnchorLock
  <2>2. CASE AnchorBusy(c)
    BY <2>2, FreeAssumption DEF AnchorBusy
  <2>3. CASE PlanConfirmedEmission(c)
    BY <2>3 DEF PlanConfirmedEmission
  <2>4. CASE ClearSeriesAndDate(c)
    BY <2>4 DEF ClearSeriesAndDate
  <2>5. CASE LookUpLastNumber(c)
    BY <2>5 DEF LookUpLastNumber
  <2>6. CASE LookupFails(c)
    BY <2>6 DEF LookupFails
  <2>7. CASE ReserveCorrelative(c)
    BY <2>7 DEF ReserveCorrelative
  <2>8. CASE Submit(c)
    BY <2>8 DEF Submit
  <2>9. CASE ReceiveAnswer(c)
    BY <2>9 DEF ReceiveAnswer
  <2>10. CASE LoseAnswer(c)
    BY <2>10 DEF LoseAnswer
  <2>11. CASE TimeOut(c)
    BY <2>11 DEF TimeOut
  <2>12. CASE ConsultNumber(c)
    BY <2>12 DEF ConsultNumber, WhenNotHeld
  <2>13. CASE ConsultFails(c)
    BY <2>13 DEF ConsultFails
  <2>14. CASE RecordReservedComprobante(c)
    BY <2>14 DEF RecordReservedComprobante
  <2>15. CASE ReleaseReservation(c)
    BY <2>15 DEF ReleaseReservation
  <2>16. CASE MarkReservationNumberTaken(c)
    BY <2>16 DEF MarkReservationNumberTaken
  <2>17. CASE RereadReservation(c)
    BY <2>17 DEF RereadReservation, FirstStepOn
  <2>18. CASE AbandonUnverified(c)
    BY <2>18 DEF AbandonUnverified, WhenAbandoned
  <2>19. CASE AbandonLookupFails(c)
    BY <2>19 DEF AbandonLookupFails
  <2>20. CASE Unlock(c)
    BY <2>20, FreeAssumption DEF Unlock
  <2> QED
    BY <1>1, <2>1, <2>2, <2>3, <2>4, <2>5, <2>6, <2>7, <2>8, <2>9, <2>10, <2>11, <2>12,
       <2>13, <2>14, <2>15, <2>16, <2>17, <2>18, <2>19, <2>20
       DEF CallStep
<1>2. ASSUME NEW c \in Calls, NEW a \in Anchors, ConfirmEmission(c, a)
      PROVE  LockInv'
  BY <1>2 DEF ConfirmEmission
<1>3. ASSUME NEW c \in Calls, NEW act \in {"recheck", "abandon"},
             NEW r \in reservations, OpenReservedAttempt(c, act, r)
      PROVE  LockInv'
  BY <1>3 DEF OpenReservedAttempt
<1>4. ASSUME NEW c \in Calls, Crash(c)
      PROVE  LockInv'
  BY <1>4 DEF Crash
<1>5. ASSUME NEW q \in inFlight, ArcaAuthorizes(q)
      PROVE  LockInv'
  BY <1>5 DEF ArcaAuthorizes, InSequence
<1>6. ASSUME NEW q \in inFlight, ArcaRejects(q)
      PROVE  LockInv'
  BY <1>6 DEF ArcaRejects
<1>7. ASSUME NEW kind \in Kinds, ForeignEmission(kind)
      PROVE  LockInv'
  BY <1>7 DEF ForeignEmission, InSequence
<1>8. CASE (\E a \in Anchors : ObligationMoves(a)) \/ UNCHANGED vars
  BY <1>8 DEF ObligationMoves, vars
<1> HIDE DEF IInv, LockInv
<1> QED
  BY <1>1, <1>2, <1>3, <1>4, <1>5, <1>6, <1>7, <1>8 DEF Next

\* An attempt's number is drawn before anything carries it.
LEMMA NumberingStep ==
    ASSUME IInv, [Next]_vars
    PROVE  NumberingInv'
<1> USE DEF IInv, TypeOK, NumberingInv, Numbered, ReservationOf, RequestOf,
   Reservation, Document, Comprobante, Foreign, Job, NoJob, At, GoTo, Locked, Unlocked
<1>1. ASSUME NEW c \in Calls, CallStep(c)
      PROVE  NumberingInv'
  <2>1. CASE TakeAnchorLock(c)
    BY <2>1 DEF TakeAnchorLock
  <2>2. CASE AnchorBusy(c)
    BY <2>2 DEF AnchorBusy
  <2>3. CASE PlanConfirmedEmission(c)
    BY <2>3 DEF PlanConfirmedEmission
  <2>4. CASE ClearSeriesAndDate(c)
    BY <2>4 DEF ClearSeriesAndDate
  <2>5. CASE LookUpLastNumber(c)
    BY <2>5 DEF LookUpLastNumber
  <2>6. CASE LookupFails(c)
    BY <2>6 DEF LookupFails
  <2>7. CASE ReserveCorrelative(c)
    BY <2>7 DEF ReserveCorrelative
  <2>8. CASE Submit(c)
    BY <2>8 DEF Submit
  <2>9. CASE ReceiveAnswer(c)
    BY <2>9 DEF ReceiveAnswer
  <2>10. CASE LoseAnswer(c)
    BY <2>10 DEF LoseAnswer
  <2>11. CASE TimeOut(c)
    BY <2>11 DEF TimeOut
  <2>12. CASE ConsultNumber(c)
    BY <2>12 DEF ConsultNumber, WhenNotHeld
  <2>13. CASE ConsultFails(c)
    BY <2>13 DEF ConsultFails
  <2>14. CASE RecordReservedComprobante(c)
    BY <2>14 DEF RecordReservedComprobante
  <2>15. CASE ReleaseReservation(c)
    BY <2>15 DEF ReleaseReservation
  <2>16. CASE MarkReservationNumberTaken(c)
    BY <2>16 DEF MarkReservationNumberTaken
  <2>17. CASE RereadReservation(c)
    BY <2>17 DEF RereadReservation, FirstStepOn
  <2>18. CASE AbandonUnverified(c)
    BY <2>18 DEF AbandonUnverified, WhenAbandoned
  <2>19. CASE AbandonLookupFails(c)
    BY <2>19 DEF AbandonLookupFails
  <2>20. CASE Unlock(c)
    BY <2>20 DEF Unlock
  <2> QED
    BY <1>1, <2>1, <2>2, <2>3, <2>4, <2>5, <2>6, <2>7, <2>8, <2>9, <2>10, <2>11, <2>12,
       <2>13, <2>14, <2>15, <2>16, <2>17, <2>18, <2>19, <2>20
       DEF CallStep
<1>2. ASSUME NEW c \in Calls, NEW a \in Anchors, ConfirmEmission(c, a)
      PROVE  NumberingInv'
  BY <1>2 DEF ConfirmEmission
<1>3. ASSUME NEW c \in Calls, NEW act \in {"recheck", "abandon"},
             NEW r \in reservations, OpenReservedAttempt(c, act, r)
      PROVE  NumberingInv'
  BY <1>3 DEF OpenReservedAttempt
<1>4. ASSUME NEW c \in Calls, Crash(c)
      PROVE  NumberingInv'
  BY <1>4 DEF Crash
<1>5. ASSUME NEW q \in inFlight, ArcaAuthorizes(q)
      PROVE  NumberingInv'
  BY <1>5 DEF ArcaAuthorizes, InSequence
<1>6. ASSUME NEW q \in inFlight, ArcaRejects(q)
      PROVE  NumberingInv'
  BY <1>6 DEF ArcaRejects
<1>7. ASSUME NEW kind \in Kinds, ForeignEmission(kind)
      PROVE  NumberingInv'
  BY <1>7 DEF ForeignEmission, InSequence
<1>8. CASE (\E a \in Anchors : ObligationMoves(a)) \/ UNCHANGED vars
  BY <1>8 DEF ObligationMoves, vars
<1> HIDE DEF IInv, NumberingInv
<1> QED
  BY <1>1, <1>2, <1>3, <1>4, <1>5, <1>6, <1>7, <1>8 DEF Next

\* A step that only moves a call past its request keeps what is fresh.
LEMMA FreshKept ==
    ASSUME TypeOK, FreshInv, NEW c \in Calls, NEW step,
           step \notin Unreserved \cup {"idle", "submitting"},
           pc[c] # "idle", pc' = [pc EXCEPT ![c] = step],
           UNCHANGED <<comprobantes, reservations, issued, inFlight, job>>
    PROVE  FreshInv'
<1>1. \A c2 \in Calls : pc'[c2] = IF c2 = c THEN step ELSE pc[c2]
  BY DEF TypeOK
<1>2. \A c2 \in Calls : pc'[c2] = "idle" <=> pc[c2] = "idle"
  BY <1>1
<1>3. \A c2 \in Calls : Emits(c2)' <=> Emits(c2)
  BY <1>2 DEF Emits
<1>4. \A c2 \in Calls : pc'[c2] \in Unreserved \cup {"submitting"} => pc'[c2] = pc[c2]
  BY <1>1
<1>5. \A c2 \in Calls : pc'[c2] \in Unreserved =>
          pc'[c2] \in Unreserved \cup {"submitting"}
  OBVIOUS
<1> QED
  BY <1>2, <1>3, <1>4, <1>5 DEF FreshInv, Unreserved

\* An emission that has not reserved has left no trace.
LEMMA FreshStep ==
    ASSUME IInv, [Next]_vars
    PROVE  FreshInv'
<1> USE DEF IInv, TypeOK, NumberingInv, Numbered, FreshInv, Emits, Unreserved,
   SettlingInv, ReservationOf, RequestOf, Reservation, Document, Comprobante, Foreign,
   Job, NoJob, At, GoTo, Locked, Unlocked
<1>1. ASSUME NEW c \in Calls, CallStep(c)
      PROVE  FreshInv'
  <2>1. CASE TakeAnchorLock(c)
    BY <2>1 DEF TakeAnchorLock
  <2>2. CASE AnchorBusy(c)
    BY <2>2 DEF AnchorBusy
  <2>3. CASE PlanConfirmedEmission(c)
    BY <2>3 DEF PlanConfirmedEmission
  <2>4. CASE ClearSeriesAndDate(c)
    BY <2>4 DEF ClearSeriesAndDate
  <2>5. CASE LookUpLastNumber(c)
    BY <2>5 DEF LookUpLastNumber
  <2>6. CASE LookupFails(c)
    BY <2>6 DEF LookupFails
  <2>7. CASE ReserveCorrelative(c)
    BY <2>7 DEF ReserveCorrelative
  <2>8. CASE Submit(c)
    BY <2>8 DEF Submit
  <2>9. CASE ReceiveAnswer(c)
    BY <2>9 DEF ReceiveAnswer
  <2>10. CASE LoseAnswer(c)
    BY <2>10 DEF LoseAnswer
  <2>11. CASE TimeOut(c)
    BY <2>11 DEF TimeOut
  <2>12. CASE ConsultNumber(c)
    BY <2>12 DEF ConsultNumber, WhenNotHeld
  <2>13. CASE ConsultFails(c)
    BY <2>13 DEF ConsultFails
  <2>14. CASE RecordReservedComprobante(c)
    BY <2>14 DEF RecordReservedComprobante
  <2>15. CASE ReleaseReservation(c)
    BY <2>15 DEF ReleaseReservation
  <2>16. CASE MarkReservationNumberTaken(c)
    BY <2>16 DEF MarkReservationNumberTaken
  <2>17. CASE RereadReservation(c)
    <3>1. PICK step \in {"unlocking", "consulting", "releasing", "abandoning"} :
              GoTo(c, step)
      BY <2>17 DEF RereadReservation, FirstStepOn
    <3> QED
      BY <2>17, <3>1, FreshKept DEF RereadReservation
  <2>18. CASE AbandonUnverified(c)
    <3>1. PICK step \in {"releasing", "consulting"} : GoTo(c, step)
      BY <2>18 DEF AbandonUnverified, WhenAbandoned
    <3> QED
      BY <2>18, <3>1, FreshKept DEF AbandonUnverified
  <2>19. CASE AbandonLookupFails(c)
    BY <2>19 DEF AbandonLookupFails
  <2>20. CASE Unlock(c)
    BY <2>20 DEF Unlock
  <2> QED
    BY <1>1, <2>1, <2>2, <2>3, <2>4, <2>5, <2>6, <2>7, <2>8, <2>9, <2>10, <2>11, <2>12,
       <2>13, <2>14, <2>15, <2>16, <2>17, <2>18, <2>19, <2>20
       DEF CallStep
<1>2. ASSUME NEW c \in Calls, NEW a \in Anchors, ConfirmEmission(c, a)
      PROVE  FreshInv'
  BY <1>2 DEF ConfirmEmission
<1>3. ASSUME NEW c \in Calls, NEW act \in {"recheck", "abandon"},
             NEW r \in reservations, OpenReservedAttempt(c, act, r)
      PROVE  FreshInv'
  BY <1>3 DEF OpenReservedAttempt
<1>4. ASSUME NEW c \in Calls, Crash(c)
      PROVE  FreshInv'
  BY <1>4 DEF Crash
<1>5. ASSUME NEW q \in inFlight, ArcaAuthorizes(q)
      PROVE  FreshInv'
  BY <1>5 DEF ArcaAuthorizes, InSequence
<1>6. ASSUME NEW q \in inFlight, ArcaRejects(q)
      PROVE  FreshInv'
  BY <1>6 DEF ArcaRejects
<1>7. ASSUME NEW kind \in Kinds, ForeignEmission(kind)
      PROVE  FreshInv'
  BY <1>7 DEF ForeignEmission, InSequence
<1>8. CASE (\E a \in Anchors : ObligationMoves(a)) \/ UNCHANGED vars
  BY <1>8 DEF ObligationMoves, vars
<1> HIDE DEF IInv, FreshInv
<1> QED
  BY <1>1, <1>2, <1>3, <1>4, <1>5, <1>6, <1>7, <1>8 DEF Next

\* The index on the series and the lock on the anchor keep reservations apart.
LEMMA ReservationsStep ==
    ASSUME IInv, [Next]_vars
    PROVE  ReservationsInv'
<1> USE DEF IInv, TypeOK, LockInv, FreshInv, Emits, Unreserved, ReservationsInv,
   SettlingInv, ReservationOf, Reservation, Blocking, Job, NoJob, At, GoTo, Locked,
   Unlocked
<1>1. ASSUME NEW c \in Calls, CallStep(c)
      PROVE  ReservationsInv'
  <2>1. CASE TakeAnchorLock(c)
    BY <2>1 DEF TakeAnchorLock
  <2>2. CASE AnchorBusy(c)
    BY <2>2 DEF AnchorBusy
  <2>3. CASE PlanConfirmedEmission(c)
    BY <2>3 DEF PlanConfirmedEmission
  <2>4. CASE ClearSeriesAndDate(c)
    BY <2>4 DEF ClearSeriesAndDate
  <2>5. CASE LookUpLastNumber(c)
    BY <2>5 DEF LookUpLastNumber
  <2>6. CASE LookupFails(c)
    BY <2>6 DEF LookupFails
  <2>7. CASE ReserveCorrelative(c)
    BY <2>7 DEF ReserveCorrelative
  <2>8. CASE Submit(c)
    BY <2>8 DEF Submit
  <2>9. CASE ReceiveAnswer(c)
    BY <2>9 DEF ReceiveAnswer
  <2>10. CASE LoseAnswer(c)
    BY <2>10 DEF LoseAnswer
  <2>11. CASE TimeOut(c)
    BY <2>11 DEF TimeOut
  <2>12. CASE ConsultNumber(c)
    BY <2>12 DEF ConsultNumber, WhenNotHeld
  <2>13. CASE ConsultFails(c)
    BY <2>13 DEF ConsultFails
  <2>14. CASE RecordReservedComprobante(c)
    BY <2>14 DEF RecordReservedComprobante
  <2>15. CASE ReleaseReservation(c)
    BY <2>15 DEF ReleaseReservation
  <2>16. CASE MarkReservationNumberTaken(c)
    BY <2>16 DEF MarkReservationNumberTaken
  <2>17. CASE RereadReservation(c)
    BY <2>17 DEF RereadReservation, FirstStepOn
  <2>18. CASE AbandonUnverified(c)
    BY <2>18 DEF AbandonUnverified, WhenAbandoned
  <2>19. CASE AbandonLookupFails(c)
    BY <2>19 DEF AbandonLookupFails
  <2>20. CASE Unlock(c)
    BY <2>20 DEF Unlock
  <2> QED
    BY <1>1, <2>1, <2>2, <2>3, <2>4, <2>5, <2>6, <2>7, <2>8, <2>9, <2>10, <2>11, <2>12,
       <2>13, <2>14, <2>15, <2>16, <2>17, <2>18, <2>19, <2>20
       DEF CallStep
<1>2. ASSUME NEW c \in Calls, NEW a \in Anchors, ConfirmEmission(c, a)
      PROVE  ReservationsInv'
  BY <1>2 DEF ConfirmEmission
<1>3. ASSUME NEW c \in Calls, NEW act \in {"recheck", "abandon"},
             NEW r \in reservations, OpenReservedAttempt(c, act, r)
      PROVE  ReservationsInv'
  BY <1>3 DEF OpenReservedAttempt
<1>4. ASSUME NEW c \in Calls, Crash(c)
      PROVE  ReservationsInv'
  BY <1>4 DEF Crash
<1>5. ASSUME NEW q \in inFlight, ArcaAuthorizes(q)
      PROVE  ReservationsInv'
  BY <1>5 DEF ArcaAuthorizes, InSequence
<1>6. ASSUME NEW q \in inFlight, ArcaRejects(q)
      PROVE  ReservationsInv'
  BY <1>6 DEF ArcaRejects
<1>7. ASSUME NEW kind \in Kinds, ForeignEmission(kind)
      PROVE  ReservationsInv'
  BY <1>7 DEF ForeignEmission, InSequence
<1>8. CASE (\E a \in Anchors : ObligationMoves(a)) \/ UNCHANGED vars
  BY <1>8 DEF ObligationMoves, vars
<1> HIDE DEF IInv, ReservationsInv
<1> QED
  BY <1>1, <1>2, <1>3, <1>4, <1>5, <1>6, <1>7, <1>8 DEF Next

\* Marking a reservation changes nothing of it but its state.
LEMMA MarkKeeps ==
    ASSUME IInv, NEW c \in Calls, MarkReservationNumberTaken(c)
    PROVE  /\ \A r \in reservations : \E s \in reservations' :
                 s.id = r.id /\ s.anchor = r.anchor /\ Agrees(s, r)
           /\ \A s \in reservations' : \E r \in reservations :
                 /\ s.id = r.id /\ s.anchor = r.anchor /\ Agrees(s, r)
                 /\ s.state = IF r.id = job[c].id THEN "number-taken" ELSE r.state
<1> DEFINE Mark(r) == IF r.id = job[c].id THEN [r EXCEPT !.state = "number-taken"] ELSE r
<1>1. reservations' = {Mark(r) : r \in reservations}
  BY DEF MarkReservationNumberTaken
<1>2. ASSUME NEW r \in reservations
      PROVE  /\ Mark(r).id = r.id /\ Mark(r).anchor = r.anchor /\ Agrees(Mark(r), r)
             /\ Mark(r).state = IF r.id = job[c].id THEN "number-taken" ELSE r.state
  BY DEF IInv, TypeOK, Reservation, Agrees
<1> HIDE DEF Mark
<1> QED
  BY <1>1, <1>2

\* What a call about to record saw at its number, if the index lets it record
\* it, is its own attempt's document: another attempt's would be recorded
\* already or hold the series.
LEMMA RecordingOwn ==
    ASSUME IInv, NEW c \in Calls, pc[c] = "recording",
           ~ \E row \in comprobantes : row.kind = job[c].kind /\ row.nro = job[c].nro
    PROVE  \E d \in issued : d.att = job[c].id /\ Agrees(d, job[c])
<1>1. PICK d \in issued : Agrees(d, job[c]) /\ d.att # Foreign
  BY DEF IInv, SettlingInv
<1>2. PICK own \in reservations : own.id = job[c].id /\ Agrees(own, job[c])
  BY DEF IInv, HoldingInv, RequestsInv, Reserved
<1>3. ASSUME NEW row \in comprobantes, row.att = d.att
      PROVE  FALSE
  <2>1. PICK e \in issued : e.att = row.att /\ e.kind = row.kind /\ e.nro = row.nro
    BY DEF IInv, RecordedIsWhatArcaHolds
  <2>2. e = d
    BY <1>1, <1>3, <2>1 DEF IInv, ArcaInv
  <2> QED
    BY <1>1, <2>1, <2>2 DEF Agrees
<1>4. ASSUME NEW r \in reservations, r.id = d.att
      PROVE  d.att = job[c].id
  <2>1. r.kind = own.kind
    BY <1>1, <1>2, <1>4 DEF IInv, HoldingInv, RequestsInv, Agrees
  <2> QED
    BY <1>2, <1>4, <2>1 DEF IInv, ReservationsInv
<1> QED
  BY <1>1, <1>3, <1>4 DEF IInv, AuthorizedIsAccountedFor

\* A call past its reservation has it.
LEMMA HoldingStep ==
    ASSUME IInv, [Next]_vars
    PROVE  HoldingInv'
<1> USE DEF IInv, TypeOK, LockInv, Reserved, ReservationsInv, HoldingInv, OpenedInv,
   Agrees, SettlingInv, ReservationOf, Reservation, Job, NoJob, At, GoTo, Locked,
   Unlocked
<1>1. ASSUME NEW c \in Calls, CallStep(c)
      PROVE  HoldingInv'
  <2>1. CASE ReserveCorrelative(c)
    <3>1. /\ pc[c] = "reserving" /\ job' = job
          /\ \A c2 \in Calls : c2 # c => pc'[c2] = pc[c2]
          /\ reservations \subseteq reservations'
      BY <2>1 DEF ReserveCorrelative
    <3>2. \/ pc'[c] = "unlocking"
          \/ pc'[c] = "submitting" /\ ReservationOf(job[c]) \in reservations'
      BY <2>1 DEF ReserveCorrelative
    <3>3. /\ ReservationOf(job[c]).id = job[c].id
          /\ ReservationOf(job[c]).anchor = job[c].anchor
          /\ Agrees(ReservationOf(job[c]), job[c])
      OBVIOUS
    <3>4. ASSUME NEW c2 \in Calls, pc'[c2] \in Reserved
          PROVE  \E r \in reservations' :
                    r.id = job'[c2].id /\ r.anchor = job'[c2].anchor /\ Agrees(r, job'[c2])
      <4>1. CASE c2 = c
        BY <3>1, <3>2, <3>3, <3>4, <4>1
      <4>2. CASE c2 # c
        BY <3>1, <3>4, <4>2
      <4> QED
        BY <4>1, <4>2
    <3> QED
      BY <3>1, <3>4
  <2>2. CASE RecordReservedComprobante(c)
    BY <2>2 DEF RecordReservedComprobante
  <2>3. CASE ReleaseReservation(c)
    BY <2>3 DEF ReleaseReservation
  <2>4. CASE MarkReservationNumberTaken(c)
    BY <2>4, MarkKeeps DEF MarkReservationNumberTaken
  <2>5. CASE RereadReservation(c)
    BY <2>5 DEF RereadReservation, FirstStepOn
  <2>6. CASE TakeAnchorLock(c)
    BY <2>6 DEF TakeAnchorLock
  <2>7. CASE AnchorBusy(c)
    BY <2>7 DEF AnchorBusy
  <2>8. CASE PlanConfirmedEmission(c)
    BY <2>8 DEF PlanConfirmedEmission
  <2>9. CASE ClearSeriesAndDate(c)
    BY <2>9 DEF ClearSeriesAndDate
  <2>10. CASE LookUpLastNumber(c)
    BY <2>10 DEF LookUpLastNumber
  <2>11. CASE LookupFails(c)
    BY <2>11 DEF LookupFails
  <2>12. CASE Submit(c)
    BY <2>12 DEF Submit
  <2>13. CASE ReceiveAnswer(c)
    BY <2>13 DEF ReceiveAnswer
  <2>14. CASE LoseAnswer(c)
    BY <2>14 DEF LoseAnswer
  <2>15. CASE TimeOut(c)
    BY <2>15 DEF TimeOut
  <2>16. CASE ConsultNumber(c)
    BY <2>16 DEF ConsultNumber, WhenNotHeld
  <2>17. CASE ConsultFails(c)
    BY <2>17 DEF ConsultFails
  <2>18. CASE AbandonUnverified(c)
    BY <2>18 DEF AbandonUnverified, WhenAbandoned
  <2>19. CASE AbandonLookupFails(c)
    BY <2>19 DEF AbandonLookupFails
  <2>20. CASE Unlock(c)
    BY <2>20 DEF Unlock
  <2> QED
    BY <1>1, <2>1, <2>2, <2>3, <2>4, <2>5, <2>6, <2>7, <2>8, <2>9, <2>10, <2>11, <2>12,
       <2>13, <2>14, <2>15, <2>16, <2>17, <2>18, <2>19, <2>20
       DEF CallStep
<1>2. ASSUME NEW c \in Calls, NEW a \in Anchors, ConfirmEmission(c, a)
      PROVE  HoldingInv'
  BY <1>2 DEF ConfirmEmission
<1>3. ASSUME NEW c \in Calls, NEW act \in {"recheck", "abandon"},
             NEW r \in reservations, OpenReservedAttempt(c, act, r)
      PROVE  HoldingInv'
  BY <1>3 DEF OpenReservedAttempt
<1>4. ASSUME NEW c \in Calls, Crash(c)
      PROVE  HoldingInv'
  BY <1>4 DEF Crash
<1>5. ASSUME NEW q \in inFlight, ArcaAuthorizes(q)
      PROVE  HoldingInv'
  BY <1>5 DEF ArcaAuthorizes, InSequence
<1>6. ASSUME NEW q \in inFlight, ArcaRejects(q)
      PROVE  HoldingInv'
  BY <1>6 DEF ArcaRejects
<1>7. ASSUME NEW kind \in Kinds, ForeignEmission(kind)
      PROVE  HoldingInv'
  BY <1>7 DEF ForeignEmission, InSequence
<1>8. CASE (\E a \in Anchors : ObligationMoves(a)) \/ UNCHANGED vars
  BY <1>8 DEF ObligationMoves, vars
<1> HIDE DEF IInv, HoldingInv
<1> QED
  BY <1>1, <1>2, <1>3, <1>4, <1>5, <1>6, <1>7, <1>8 DEF Next

\* A call on a live reservation knows it by its number in the table.
LEMMA OpenedStep ==
    ASSUME IInv, [Next]_vars
    PROVE  OpenedInv'
<1> USE DEF IInv, TypeOK, FreshInv, Emits, Unreserved, ReservationsInv, OpenedInv,
   Agrees, SettlingInv, ReservationOf, Reservation, Job, NoJob, At, GoTo, Locked,
   Unlocked
<1>1. ASSUME NEW c \in Calls, CallStep(c)
      PROVE  OpenedInv'
  <2>1. CASE ReserveCorrelative(c)
    BY <2>1 DEF ReserveCorrelative
  <2>2. CASE RecordReservedComprobante(c)
    BY <2>2 DEF RecordReservedComprobante
  <2>3. CASE ReleaseReservation(c)
    BY <2>3 DEF ReleaseReservation
  <2>4. CASE MarkReservationNumberTaken(c)
    BY <2>4, MarkKeeps DEF MarkReservationNumberTaken
  <2>5. CASE TakeAnchorLock(c)
    BY <2>5 DEF TakeAnchorLock
  <2>6. CASE AnchorBusy(c)
    BY <2>6 DEF AnchorBusy
  <2>7. CASE PlanConfirmedEmission(c)
    BY <2>7 DEF PlanConfirmedEmission
  <2>8. CASE ClearSeriesAndDate(c)
    BY <2>8 DEF ClearSeriesAndDate
  <2>9. CASE LookUpLastNumber(c)
    BY <2>9 DEF LookUpLastNumber
  <2>10. CASE LookupFails(c)
    BY <2>10 DEF LookupFails
  <2>11. CASE Submit(c)
    BY <2>11 DEF Submit
  <2>12. CASE ReceiveAnswer(c)
    BY <2>12 DEF ReceiveAnswer
  <2>13. CASE LoseAnswer(c)
    BY <2>13 DEF LoseAnswer
  <2>14. CASE TimeOut(c)
    BY <2>14 DEF TimeOut
  <2>15. CASE ConsultNumber(c)
    BY <2>15 DEF ConsultNumber, WhenNotHeld
  <2>16. CASE ConsultFails(c)
    BY <2>16 DEF ConsultFails
  <2>17. CASE RereadReservation(c)
    BY <2>17 DEF RereadReservation, FirstStepOn
  <2>18. CASE AbandonUnverified(c)
    BY <2>18 DEF AbandonUnverified, WhenAbandoned
  <2>19. CASE AbandonLookupFails(c)
    BY <2>19 DEF AbandonLookupFails
  <2>20. CASE Unlock(c)
    BY <2>20 DEF Unlock
  <2> QED
    BY <1>1, <2>1, <2>2, <2>3, <2>4, <2>5, <2>6, <2>7, <2>8, <2>9, <2>10, <2>11, <2>12,
       <2>13, <2>14, <2>15, <2>16, <2>17, <2>18, <2>19, <2>20
       DEF CallStep
<1>2. ASSUME NEW c \in Calls, NEW a \in Anchors, ConfirmEmission(c, a)
      PROVE  OpenedInv'
  BY <1>2 DEF ConfirmEmission
<1>3. ASSUME NEW c \in Calls, NEW act \in {"recheck", "abandon"},
             NEW r \in reservations, OpenReservedAttempt(c, act, r)
      PROVE  OpenedInv'
  BY <1>3 DEF OpenReservedAttempt
<1>4. ASSUME NEW c \in Calls, Crash(c)
      PROVE  OpenedInv'
  BY <1>4 DEF Crash
<1>5. ASSUME NEW q \in inFlight, ArcaAuthorizes(q)
      PROVE  OpenedInv'
  BY <1>5 DEF ArcaAuthorizes, InSequence
<1>6. ASSUME NEW q \in inFlight, ArcaRejects(q)
      PROVE  OpenedInv'
  BY <1>6 DEF ArcaRejects
<1>7. ASSUME NEW kind \in Kinds, ForeignEmission(kind)
      PROVE  OpenedInv'
  BY <1>7 DEF ForeignEmission, InSequence
<1>8. CASE (\E a \in Anchors : ObligationMoves(a)) \/ UNCHANGED vars
  BY <1>8 DEF ObligationMoves, vars
<1> HIDE DEF IInv, OpenedInv
<1> QED
  BY <1>1, <1>2, <1>3, <1>4, <1>5, <1>6, <1>7, <1>8 DEF Next

\* ARCA was asked for what the reservation says.
LEMMA RequestsStep ==
    ASSUME IInv, [Next]_vars
    PROVE  RequestsInv'
<1> USE DEF IInv, TypeOK, FreshInv, Emits, Unreserved, Reserved, ReservationsInv,
   HoldingInv, RequestsInv, Agrees, SettlingInv, NumberingInv, Numbered,
   ReservationOf, RequestOf, Reservation, Document, Foreign, Job, NoJob, At, GoTo,
   Locked, Unlocked
<1>1. ASSUME NEW c \in Calls, CallStep(c)
      PROVE  RequestsInv'
  <2>1. CASE ReserveCorrelative(c)
    BY <2>1 DEF ReserveCorrelative
  <2>2. CASE Submit(c)
    BY <2>2 DEF Submit
  <2>3. CASE LoseAnswer(c)
    BY <2>3 DEF LoseAnswer
  <2>4. CASE RecordReservedComprobante(c)
    BY <2>4 DEF RecordReservedComprobante
  <2>5. CASE ReleaseReservation(c)
    BY <2>5 DEF ReleaseReservation
  <2>6. CASE MarkReservationNumberTaken(c)
    BY <2>6, MarkKeeps DEF MarkReservationNumberTaken
  <2>7. CASE UNCHANGED <<reservations, inFlight, issued>>
    BY <2>7
  <2> QED
    BY <1>1, <2>1, <2>2, <2>3, <2>4, <2>5, <2>6, <2>7 DEF CallStep, TakeAnchorLock,
       AnchorBusy, PlanConfirmedEmission, ClearSeriesAndDate, LookUpLastNumber,
       LookupFails, ReserveCorrelative, Submit, ReceiveAnswer, LoseAnswer, TimeOut,
       ConsultNumber, WhenNotHeld, ConsultFails, RecordReservedComprobante,
       ReleaseReservation, MarkReservationNumberTaken, RereadReservation, FirstStepOn,
       AbandonUnverified, WhenAbandoned, AbandonLookupFails, Unlock
<1>2. ASSUME NEW c \in Calls, NEW a \in Anchors, ConfirmEmission(c, a)
      PROVE  RequestsInv'
  BY <1>2 DEF ConfirmEmission
<1>3. ASSUME NEW c \in Calls, NEW act \in {"recheck", "abandon"},
             NEW r \in reservations, OpenReservedAttempt(c, act, r)
      PROVE  RequestsInv'
  BY <1>3 DEF OpenReservedAttempt
<1>4. ASSUME NEW c \in Calls, Crash(c)
      PROVE  RequestsInv'
  BY <1>4 DEF Crash
<1>5. ASSUME NEW q \in inFlight, ArcaAuthorizes(q)
      PROVE  RequestsInv'
  BY <1>5 DEF ArcaAuthorizes, InSequence
<1>6. ASSUME NEW q \in inFlight, ArcaRejects(q)
      PROVE  RequestsInv'
  BY <1>6 DEF ArcaRejects
<1>7. ASSUME NEW kind \in Kinds, ForeignEmission(kind)
      PROVE  RequestsInv'
  BY <1>7 DEF ForeignEmission, InSequence
<1>8. CASE (\E a \in Anchors : ObligationMoves(a)) \/ UNCHANGED vars
  BY <1>8 DEF ObligationMoves, vars
<1> HIDE DEF IInv, RequestsInv
<1> QED
  BY <1>1, <1>2, <1>3, <1>4, <1>5, <1>6, <1>7, <1>8 DEF Next

\* ARCA gives a number once, and a request one answer.
LEMMA ArcaStep ==
    ASSUME IInv, [Next]_vars
    PROVE  ArcaInv'
<1> USE DEF IInv, TypeOK, FreshInv, Emits, NumberingInv, Numbered, ArcaInv,
   SettlingInv, RequestOf, Document, Foreign, Job, NoJob, At, GoTo, Locked, Unlocked
<1>1. ASSUME NEW c \in Calls, CallStep(c)
      PROVE  ArcaInv'
  <2>1. CASE TakeAnchorLock(c)
    BY <2>1 DEF TakeAnchorLock
  <2>2. CASE AnchorBusy(c)
    BY <2>2 DEF AnchorBusy
  <2>3. CASE PlanConfirmedEmission(c)
    BY <2>3 DEF PlanConfirmedEmission
  <2>4. CASE ClearSeriesAndDate(c)
    BY <2>4 DEF ClearSeriesAndDate
  <2>5. CASE LookUpLastNumber(c)
    BY <2>5 DEF LookUpLastNumber
  <2>6. CASE LookupFails(c)
    BY <2>6 DEF LookupFails
  <2>7. CASE ReserveCorrelative(c)
    BY <2>7 DEF ReserveCorrelative
  <2>8. CASE Submit(c)
    BY <2>8 DEF Submit
  <2>9. CASE ReceiveAnswer(c)
    BY <2>9 DEF ReceiveAnswer
  <2>10. CASE LoseAnswer(c)
    BY <2>10 DEF LoseAnswer
  <2>11. CASE TimeOut(c)
    BY <2>11 DEF TimeOut
  <2>12. CASE ConsultNumber(c)
    BY <2>12 DEF ConsultNumber, WhenNotHeld
  <2>13. CASE ConsultFails(c)
    BY <2>13 DEF ConsultFails
  <2>14. CASE RecordReservedComprobante(c)
    BY <2>14 DEF RecordReservedComprobante
  <2>15. CASE ReleaseReservation(c)
    BY <2>15 DEF ReleaseReservation
  <2>16. CASE MarkReservationNumberTaken(c)
    BY <2>16 DEF MarkReservationNumberTaken
  <2>17. CASE RereadReservation(c)
    BY <2>17 DEF RereadReservation, FirstStepOn
  <2>18. CASE AbandonUnverified(c)
    BY <2>18 DEF AbandonUnverified, WhenAbandoned
  <2>19. CASE AbandonLookupFails(c)
    BY <2>19 DEF AbandonLookupFails
  <2>20. CASE Unlock(c)
    BY <2>20 DEF Unlock
  <2> QED
    BY <1>1, <2>1, <2>2, <2>3, <2>4, <2>5, <2>6, <2>7, <2>8, <2>9, <2>10, <2>11, <2>12,
       <2>13, <2>14, <2>15, <2>16, <2>17, <2>18, <2>19, <2>20
       DEF CallStep
<1>2. ASSUME NEW c \in Calls, NEW a \in Anchors, ConfirmEmission(c, a)
      PROVE  ArcaInv'
  BY <1>2 DEF ConfirmEmission
<1>3. ASSUME NEW c \in Calls, NEW act \in {"recheck", "abandon"},
             NEW r \in reservations, OpenReservedAttempt(c, act, r)
      PROVE  ArcaInv'
  BY <1>3 DEF OpenReservedAttempt
<1>4. ASSUME NEW c \in Calls, Crash(c)
      PROVE  ArcaInv'
  BY <1>4 DEF Crash
<1>5. ASSUME NEW q \in inFlight, ArcaAuthorizes(q)
      PROVE  ArcaInv'
  BY <1>5 DEF ArcaAuthorizes, InSequence
<1>6. ASSUME NEW q \in inFlight, ArcaRejects(q)
      PROVE  ArcaInv'
  BY <1>6 DEF ArcaRejects
<1>7. ASSUME NEW kind \in Kinds, ForeignEmission(kind)
      PROVE  ArcaInv'
  BY <1>7 DEF ForeignEmission, InSequence
<1>8. CASE (\E a \in Anchors : ObligationMoves(a)) \/ UNCHANGED vars
  BY <1>8 DEF ObligationMoves, vars
<1> HIDE DEF IInv, ArcaInv
<1> QED
  BY <1>1, <1>2, <1>3, <1>4, <1>5, <1>6, <1>7, <1>8 DEF Next

\* What a call knows when it settles stays true until it does.
LEMMA SettlingStep ==
    ASSUME IInv, [Next]_vars
    PROVE  SettlingInv'
<1> USE DEF IInv, TypeOK, LockInv, FreshInv, Emits, Unreserved, Reserved,
   NumberingInv, Numbered, ReservationsInv, HoldingInv, RequestsInv, Agrees, ArcaInv,
   SettlingInv, Dead, ReservationOf, RequestOf, Reservation, Document, Foreign,
   HeldAt, Matches, VerifiedInv, OperatorVerified, NumberTakenIsFinal, Job, NoJob, At,
   GoTo, Locked, Unlocked
<1>1. ASSUME NEW c \in Calls, CallStep(c)
      PROVE  SettlingInv'
  <2>1. CASE ReserveCorrelative(c)
    BY <2>1 DEF ReserveCorrelative
  <2>2. CASE Submit(c)
    BY <2>2 DEF Submit
  <2>3. CASE LoseAnswer(c)
    BY <2>3 DEF LoseAnswer
  <2>4. CASE RecordReservedComprobante(c)
    BY <2>4 DEF RecordReservedComprobante
  <2>5. CASE ReleaseReservation(c)
    BY <2>5 DEF ReleaseReservation
  <2>6. CASE MarkReservationNumberTaken(c)
    BY <2>6, MarkKeeps DEF MarkReservationNumberTaken
  <2>7. CASE ReceiveAnswer(c)
    BY <2>7 DEF ReceiveAnswer
  <2>8. CASE ConsultNumber(c)
    <3>1. PICK own \in reservations : own.id = job[c].id /\ Agrees(own, job[c])
      BY <2>8 DEF ConsultNumber
    <3>2. \A d \in issued : d.att = job[c].id => Agrees(d, job[c])
      BY <3>1
    <3>3. /\ pc[c] = "consulting"
          /\ UNCHANGED <<reservations, issued, last, inFlight, job>>
      BY <2>8 DEF ConsultNumber
    <3>4. CASE HeldAt(job[c].kind, job[c].nro) = {}
      <4>1. \A d \in issued : d.att # job[c].id
        BY <3>2, <3>4
      <4>2. pc' = [pc EXCEPT ![c] = IF job[c].late THEN "unlocking" ELSE "releasing"]
        BY <2>8, <3>4 DEF ConsultNumber, WhenNotHeld
      <4> QED
        BY <3>3, <4>1, <4>2
    <3>5. ASSUME NEW d \in HeldAt(job[c].kind, job[c].nro),
                 pc' = [pc EXCEPT ![c] = IF Matches(d, job[c]) THEN "recording"
                                         ELSE "marking"]
          PROVE  SettlingInv'
      <4>1. CASE Matches(d, job[c])
        <5>1. d \in issued /\ Agrees(d, job[c]) /\ d.att # Foreign
          BY <3>3, <3>5, <4>1, AmountsAssumption DEF AmountsAssumption
        <5> QED
          BY <3>3, <3>5, <4>1, <5>1
      <4>2. CASE ~Matches(d, job[c])
        <5>1. job[c].nro <= last[job[c].kind] /\ \A e \in issued : e.att # job[c].id
          BY <3>2, <3>3, <4>2
        <5> QED
          BY <3>3, <3>5, <4>2, <5>1
      <4> QED
        BY <4>1, <4>2
    <3> QED
      BY <2>8, <3>4, <3>5 DEF ConsultNumber
  <2>9. CASE RereadReservation(c)
    BY <2>9 DEF RereadReservation, FirstStepOn
  <2>10. CASE AbandonUnverified(c)
    BY <2>10 DEF AbandonUnverified, WhenAbandoned
  <2>11. CASE TakeAnchorLock(c)
    BY <2>11 DEF TakeAnchorLock
  <2>12. CASE AnchorBusy(c)
    BY <2>12 DEF AnchorBusy
  <2>13. CASE PlanConfirmedEmission(c)
    BY <2>13 DEF PlanConfirmedEmission
  <2>14. CASE ClearSeriesAndDate(c)
    BY <2>14 DEF ClearSeriesAndDate
  <2>15. CASE LookUpLastNumber(c)
    BY <2>15 DEF LookUpLastNumber
  <2>16. CASE LookupFails(c)
    BY <2>16 DEF LookupFails
  <2>17. CASE TimeOut(c)
    BY <2>17 DEF TimeOut
  <2>18. CASE ConsultFails(c)
    BY <2>18 DEF ConsultFails
  <2>19. CASE AbandonLookupFails(c)
    BY <2>19 DEF AbandonLookupFails
  <2>20. CASE Unlock(c)
    BY <2>20 DEF Unlock
  <2> QED
    BY <1>1, <2>1, <2>2, <2>3, <2>4, <2>5, <2>6, <2>7, <2>8, <2>9, <2>10, <2>11, <2>12,
       <2>13, <2>14, <2>15, <2>16, <2>17, <2>18, <2>19, <2>20
       DEF CallStep
<1>2. ASSUME NEW c \in Calls, NEW a \in Anchors, ConfirmEmission(c, a)
      PROVE  SettlingInv'
  BY <1>2 DEF ConfirmEmission
<1>3. ASSUME NEW c \in Calls, NEW act \in {"recheck", "abandon"},
             NEW r \in reservations, OpenReservedAttempt(c, act, r)
      PROVE  SettlingInv'
  BY <1>3 DEF OpenReservedAttempt
<1>4. ASSUME NEW c \in Calls, Crash(c)
      PROVE  SettlingInv'
  BY <1>4 DEF Crash
<1>5. ASSUME NEW q \in inFlight, ArcaAuthorizes(q)
      PROVE  SettlingInv'
  BY <1>5 DEF ArcaAuthorizes, InSequence
<1>6. ASSUME NEW q \in inFlight, ArcaRejects(q)
      PROVE  SettlingInv'
  BY <1>6 DEF ArcaRejects
<1>7. ASSUME NEW kind \in Kinds, ForeignEmission(kind)
      PROVE  SettlingInv'
  BY <1>7 DEF ForeignEmission, InSequence
<1>8. CASE (\E a \in Anchors : ObligationMoves(a)) \/ UNCHANGED vars
  BY <1>8 DEF ObligationMoves, vars
<1> HIDE DEF IInv, SettlingInv
<1> QED
  BY <1>1, <1>2, <1>3, <1>4, <1>5, <1>6, <1>7, <1>8 DEF Next

\* Nothing revives an attempt an operator verified.
LEMMA VerifiedStep ==
    ASSUME IInv, [Next]_vars
    PROVE  VerifiedInv'
<1> USE DEF IInv, TypeOK, LockInv, FreshInv, Emits, Unreserved, Reserved, SettlingInv,
   VerifiedInv, OperatorVerified, NumberingInv, Numbered, ReservationsInv, HoldingInv,
   OpenedInv, ReservationOf, RequestOf, Reservation, Document, Foreign, Job, NoJob,
   At, GoTo, Locked, Unlocked
<1>1. ASSUME NEW c \in Calls, CallStep(c)
      PROVE  VerifiedInv'
  <2>1. CASE TakeAnchorLock(c)
    BY <2>1 DEF TakeAnchorLock
  <2>2. CASE AnchorBusy(c)
    BY <2>2 DEF AnchorBusy
  <2>3. CASE PlanConfirmedEmission(c)
    BY <2>3 DEF PlanConfirmedEmission
  <2>4. CASE ClearSeriesAndDate(c)
    BY <2>4 DEF ClearSeriesAndDate
  <2>5. CASE LookUpLastNumber(c)
    BY <2>5 DEF LookUpLastNumber
  <2>6. CASE LookupFails(c)
    BY <2>6 DEF LookupFails
  <2>7. CASE ReserveCorrelative(c)
    BY <2>7 DEF ReserveCorrelative
  <2>8. CASE Submit(c)
    BY <2>8 DEF Submit
  <2>9. CASE ReceiveAnswer(c)
    BY <2>9 DEF ReceiveAnswer
  <2>10. CASE LoseAnswer(c)
    BY <2>10 DEF LoseAnswer
  <2>11. CASE TimeOut(c)
    BY <2>11 DEF TimeOut
  <2>12. CASE ConsultNumber(c)
    BY <2>12 DEF ConsultNumber, WhenNotHeld
  <2>13. CASE ConsultFails(c)
    BY <2>13 DEF ConsultFails
  <2>14. CASE RecordReservedComprobante(c)
    BY <2>14 DEF RecordReservedComprobante
  <2>15. CASE ReleaseReservation(c)
    BY <2>15 DEF ReleaseReservation
  <2>16. CASE MarkReservationNumberTaken(c)
    BY <2>16 DEF MarkReservationNumberTaken
  <2>17. CASE RereadReservation(c)
    BY <2>17 DEF RereadReservation, FirstStepOn
  <2>18. CASE AbandonUnverified(c)
    BY <2>18 DEF AbandonUnverified, WhenAbandoned
  <2>19. CASE AbandonLookupFails(c)
    BY <2>19 DEF AbandonLookupFails
  <2>20. CASE Unlock(c)
    BY <2>20 DEF Unlock
  <2> QED
    BY <1>1, <2>1, <2>2, <2>3, <2>4, <2>5, <2>6, <2>7, <2>8, <2>9, <2>10, <2>11, <2>12,
       <2>13, <2>14, <2>15, <2>16, <2>17, <2>18, <2>19, <2>20
       DEF CallStep
<1>2. ASSUME NEW c \in Calls, NEW a \in Anchors, ConfirmEmission(c, a)
      PROVE  VerifiedInv'
  BY <1>2 DEF ConfirmEmission
<1>3. ASSUME NEW c \in Calls, NEW act \in {"recheck", "abandon"},
             NEW r \in reservations, OpenReservedAttempt(c, act, r)
      PROVE  VerifiedInv'
  BY <1>3 DEF OpenReservedAttempt
<1>4. ASSUME NEW c \in Calls, Crash(c)
      PROVE  VerifiedInv'
  BY <1>4 DEF Crash
<1>5. ASSUME NEW q \in inFlight, ArcaAuthorizes(q)
      PROVE  VerifiedInv'
  BY <1>5 DEF ArcaAuthorizes, InSequence
<1>6. ASSUME NEW q \in inFlight, ArcaRejects(q)
      PROVE  VerifiedInv'
  BY <1>6 DEF ArcaRejects
<1>7. ASSUME NEW kind \in Kinds, ForeignEmission(kind)
      PROVE  VerifiedInv'
  BY <1>7 DEF ForeignEmission, InSequence
<1>8. CASE (\E a \in Anchors : ObligationMoves(a)) \/ UNCHANGED vars
  BY <1>8 DEF ObligationMoves, vars
<1> HIDE DEF IInv, VerifiedInv
<1> QED
  BY <1>1, <1>2, <1>3, <1>4, <1>5, <1>6, <1>7, <1>8 DEF Next

\* No step loses a document ARCA authorized.
LEMMA AccountedStep ==
    ASSUME IInv, [Next]_vars
    PROVE  AuthorizedIsAccountedFor'
<1> USE DEF IInv, TypeOK, SettlingInv, Dead, AuthorizedIsAccountedFor,
   LandableRequestIsReserved, ReservationOf, RequestOf, Reservation, Document,
   Foreign, Job, NoJob, At, GoTo, Locked, Unlocked
<1>1. ASSUME NEW c \in Calls, CallStep(c)
      PROVE  AuthorizedIsAccountedFor'
  <2>1. CASE ReserveCorrelative(c)
    BY <2>1 DEF ReserveCorrelative
  <2>2. CASE RecordReservedComprobante(c)
    <3>1. CASE UNCHANGED <<comprobantes, reservations>>
      BY <2>2, <3>1 DEF RecordReservedComprobante
    <3>2. CASE /\ comprobantes' = comprobantes \cup
                     {[att |-> job[c].id, anchor |-> job[c].anchor, kind |-> job[c].kind,
                       nro |-> job[c].nro, imp |-> job[c].imp, fch |-> job[c].fch]}
               /\ reservations' = {r \in reservations : r.id # job[c].id}
      <4>1. \E row \in comprobantes' : row.att = job[c].id
        <5> DEFINE new == [att |-> job[c].id, anchor |-> job[c].anchor,
                           kind |-> job[c].kind, nro |-> job[c].nro,
                           imp |-> job[c].imp, fch |-> job[c].fch]
        <5> new \in comprobantes' /\ new.att = job[c].id
          BY <3>2
        <5> QED
          OBVIOUS
      <4>2. issued' = issued /\ comprobantes \subseteq comprobantes'
        BY <2>2, <3>2 DEF RecordReservedComprobante
      <4>3. \A r \in reservations : r.id = job[c].id \/ r \in reservations'
        BY <3>2
      <4> QED
        BY <4>1, <4>2, <4>3
    <3> QED
      BY <2>2, <3>1, <3>2 DEF RecordReservedComprobante
  <2>3. CASE ReleaseReservation(c)
    BY <2>3 DEF ReleaseReservation
  <2>4. CASE MarkReservationNumberTaken(c)
    BY <2>4, MarkKeeps DEF MarkReservationNumberTaken
  <2>5. CASE UNCHANGED <<issued, comprobantes, reservations>>
    BY <2>5
  <2> QED
    BY <1>1, <2>1, <2>2, <2>3, <2>4, <2>5 DEF CallStep, TakeAnchorLock, AnchorBusy,
       PlanConfirmedEmission, ClearSeriesAndDate, LookUpLastNumber, LookupFails,
       ReserveCorrelative, Submit, ReceiveAnswer, LoseAnswer, TimeOut, ConsultNumber,
       WhenNotHeld, ConsultFails, RecordReservedComprobante, ReleaseReservation,
       MarkReservationNumberTaken, RereadReservation, FirstStepOn, AbandonUnverified,
       WhenAbandoned, AbandonLookupFails, Unlock
<1>2. ASSUME NEW c \in Calls, NEW a \in Anchors, ConfirmEmission(c, a)
      PROVE  AuthorizedIsAccountedFor'
  BY <1>2 DEF ConfirmEmission
<1>3. ASSUME NEW c \in Calls, NEW act \in {"recheck", "abandon"},
             NEW r \in reservations, OpenReservedAttempt(c, act, r)
      PROVE  AuthorizedIsAccountedFor'
  BY <1>3 DEF OpenReservedAttempt
<1>4. ASSUME NEW c \in Calls, Crash(c)
      PROVE  AuthorizedIsAccountedFor'
  BY <1>4 DEF Crash
<1>5. ASSUME NEW q \in inFlight, ArcaAuthorizes(q)
      PROVE  AuthorizedIsAccountedFor'
  BY <1>5 DEF ArcaAuthorizes, InSequence
<1>6. ASSUME NEW q \in inFlight, ArcaRejects(q)
      PROVE  AuthorizedIsAccountedFor'
  BY <1>6 DEF ArcaRejects
<1>7. ASSUME NEW kind \in Kinds, ForeignEmission(kind)
      PROVE  AuthorizedIsAccountedFor'
  BY <1>7 DEF ForeignEmission, InSequence
<1>8. CASE (\E a \in Anchors : ObligationMoves(a)) \/ UNCHANGED vars
  BY <1>8 DEF ObligationMoves, vars
<1> HIDE DEF IInv, AuthorizedIsAccountedFor
<1> QED
  BY <1>1, <1>2, <1>3, <1>4, <1>5, <1>6, <1>7, <1>8 DEF Next

\* No step leaves a request ARCA could authorize without its reservation.
LEMMA LandableStep ==
    ASSUME IInv, [Next]_vars
    PROVE  LandableRequestIsReserved'
<1> USE DEF IInv, TypeOK, SettlingInv, Dead, HoldingInv, RequestsInv, Reserved,
   ArcaInv, AuthorizedIsAccountedFor, LandableRequestIsReserved, ReservationOf,
   RequestOf, Reservation, Document, Foreign, Job, NoJob, At, GoTo, Locked, Unlocked
<1>1. ASSUME NEW c \in Calls, CallStep(c)
      PROVE  LandableRequestIsReserved'
  <2>1. CASE ReserveCorrelative(c)
    BY <2>1 DEF ReserveCorrelative
  <2>2. CASE Submit(c)
    BY <2>2 DEF Submit
  <2>3. CASE LoseAnswer(c)
    BY <2>3 DEF LoseAnswer
  <2>4. CASE RecordReservedComprobante(c)
    BY <2>4, RecordingOwn DEF RecordReservedComprobante
  <2>5. CASE ReleaseReservation(c)
    BY <2>5 DEF ReleaseReservation
  <2>6. CASE MarkReservationNumberTaken(c)
    <3>1. \A r \in reservations : \E s \in reservations' : s.id = r.id
      BY <2>6, MarkKeeps
    <3>2. UNCHANGED <<inFlight, last>>
      BY <2>6 DEF MarkReservationNumberTaken
    <3> QED
      BY <3>1, <3>2
  <2>7. CASE UNCHANGED <<issued, last, inFlight, reservations>>
    BY <2>7
  <2> QED
    BY <1>1, <2>1, <2>2, <2>3, <2>4, <2>5, <2>6, <2>7 DEF CallStep, TakeAnchorLock,
       AnchorBusy, PlanConfirmedEmission, ClearSeriesAndDate, LookUpLastNumber,
       LookupFails, ReserveCorrelative, Submit, ReceiveAnswer, LoseAnswer, TimeOut,
       ConsultNumber, WhenNotHeld, ConsultFails, RecordReservedComprobante,
       ReleaseReservation, MarkReservationNumberTaken, RereadReservation, FirstStepOn,
       AbandonUnverified, WhenAbandoned, AbandonLookupFails, Unlock
<1>2. ASSUME NEW c \in Calls, NEW a \in Anchors, ConfirmEmission(c, a)
      PROVE  LandableRequestIsReserved'
  BY <1>2 DEF ConfirmEmission
<1>3. ASSUME NEW c \in Calls, NEW act \in {"recheck", "abandon"},
             NEW r \in reservations, OpenReservedAttempt(c, act, r)
      PROVE  LandableRequestIsReserved'
  BY <1>3 DEF OpenReservedAttempt
<1>4. ASSUME NEW c \in Calls, Crash(c)
      PROVE  LandableRequestIsReserved'
  BY <1>4 DEF Crash
<1>5. ASSUME NEW q \in inFlight, ArcaAuthorizes(q)
      PROVE  LandableRequestIsReserved'
  BY <1>5 DEF ArcaAuthorizes, InSequence
<1>6. ASSUME NEW q \in inFlight, ArcaRejects(q)
      PROVE  LandableRequestIsReserved'
  BY <1>6 DEF ArcaRejects
<1>7. ASSUME NEW kind \in Kinds, ForeignEmission(kind)
      PROVE  LandableRequestIsReserved'
  BY <1>7 DEF ForeignEmission, InSequence
<1>8. CASE (\E a \in Anchors : ObligationMoves(a)) \/ UNCHANGED vars
  BY <1>8 DEF ObligationMoves, vars
<1> HIDE DEF IInv, LandableRequestIsReserved
<1> QED
  BY <1>1, <1>2, <1>3, <1>4, <1>5, <1>6, <1>7, <1>8 DEF Next

\* No step records anything but the attempt's own document.
LEMMA RecordedStep ==
    ASSUME IInv, [Next]_vars
    PROVE  RecordedIsWhatArcaHolds'
<1> USE DEF IInv, TypeOK, RecordedIsWhatArcaHolds, Agrees, RequestOf, Reservation,
   Document, Comprobante, Foreign, Job, NoJob, At, GoTo, Locked, Unlocked
<1>1. ASSUME NEW c \in Calls, CallStep(c)
      PROVE  RecordedIsWhatArcaHolds'
  <2>1. CASE RecordReservedComprobante(c)
    <3>1. CASE \E row \in comprobantes : row.kind = job[c].kind /\ row.nro = job[c].nro
      BY <2>1, <3>1 DEF RecordReservedComprobante
    <3>2. CASE ~ \E row \in comprobantes : row.kind = job[c].kind /\ row.nro = job[c].nro
      <4>1. PICK d \in issued : d.att = job[c].id /\ Agrees(d, job[c])
        BY <2>1, <3>2, RecordingOwn DEF RecordReservedComprobante
      <4>2. d = [att |-> job[c].id, kind |-> job[c].kind, nro |-> job[c].nro,
                 imp |-> job[c].imp, fch |-> job[c].fch]
        BY <4>1
      <4>3. issued' = issued /\ comprobantes' = comprobantes \cup
              {[att |-> job[c].id, anchor |-> job[c].anchor, kind |-> job[c].kind,
                nro |-> job[c].nro, imp |-> job[c].imp, fch |-> job[c].fch]}
        BY <2>1, <3>2 DEF RecordReservedComprobante
      <4> QED
        <5>1. ASSUME NEW row \in comprobantes'
              PROVE  [att |-> row.att, kind |-> row.kind, nro |-> row.nro,
                      imp |-> row.imp, fch |-> row.fch] \in issued
          <6>1. CASE row \in comprobantes
            BY <6>1
          <6>2. CASE row \notin comprobantes
            BY <4>2, <4>3, <6>2
          <6> QED
            BY <6>1, <6>2
        <5> QED
          BY <4>3, <5>1
    <3> QED
      BY <3>1, <3>2
  <2>2. CASE UNCHANGED <<issued, comprobantes>>
    BY <2>2
  <2> QED
    BY <1>1, <2>1, <2>2 DEF CallStep, TakeAnchorLock, AnchorBusy,
       PlanConfirmedEmission, ClearSeriesAndDate, LookUpLastNumber, LookupFails,
       ReserveCorrelative, Submit, ReceiveAnswer, LoseAnswer, TimeOut, ConsultNumber,
       WhenNotHeld, ConsultFails, RecordReservedComprobante, ReleaseReservation,
       MarkReservationNumberTaken, RereadReservation, FirstStepOn, AbandonUnverified,
       WhenAbandoned, AbandonLookupFails, Unlock
<1>2. ASSUME NEW c \in Calls, NEW a \in Anchors, ConfirmEmission(c, a)
      PROVE  RecordedIsWhatArcaHolds'
  BY <1>2 DEF ConfirmEmission
<1>3. ASSUME NEW c \in Calls, NEW act \in {"recheck", "abandon"},
             NEW r \in reservations, OpenReservedAttempt(c, act, r)
      PROVE  RecordedIsWhatArcaHolds'
  BY <1>3 DEF OpenReservedAttempt
<1>4. ASSUME NEW c \in Calls, Crash(c)
      PROVE  RecordedIsWhatArcaHolds'
  BY <1>4 DEF Crash
<1>5. ASSUME NEW q \in inFlight, ArcaAuthorizes(q)
      PROVE  RecordedIsWhatArcaHolds'
  BY <1>5 DEF ArcaAuthorizes, InSequence
<1>6. ASSUME NEW q \in inFlight, ArcaRejects(q)
      PROVE  RecordedIsWhatArcaHolds'
  BY <1>6 DEF ArcaRejects
<1>7. ASSUME NEW kind \in Kinds, ForeignEmission(kind)
      PROVE  RecordedIsWhatArcaHolds'
  BY <1>7 DEF ForeignEmission, InSequence
<1>8. CASE (\E a \in Anchors : ObligationMoves(a)) \/ UNCHANGED vars
  BY <1>8 DEF ObligationMoves, vars
<1> HIDE DEF IInv, RecordedIsWhatArcaHolds
<1> QED
  BY <1>1, <1>2, <1>3, <1>4, <1>5, <1>6, <1>7, <1>8 DEF Next

\* No step brings a document to a number-taken attempt.
LEMMA NumberTakenStep ==
    ASSUME IInv, [Next]_vars
    PROVE  NumberTakenIsFinal'
<1> USE DEF IInv, TypeOK, NumberTakenIsFinal, SettlingInv, HoldingInv, RequestsInv,
   Reserved, Agrees, NumberingInv, Numbered, ReservationsInv, ReservationOf,
   Reservation, Document, Foreign, Job, NoJob, At, GoTo, Locked, Unlocked
<1>1. ASSUME NEW c \in Calls, CallStep(c)
      PROVE  NumberTakenIsFinal'
  <2>1. CASE ReserveCorrelative(c)
    BY <2>1 DEF ReserveCorrelative
  <2>2. CASE RecordReservedComprobante(c)
    BY <2>2 DEF RecordReservedComprobante
  <2>3. CASE ReleaseReservation(c)
    BY <2>3 DEF ReleaseReservation
  <2>4. CASE MarkReservationNumberTaken(c)
    BY <2>4, MarkKeeps DEF MarkReservationNumberTaken
  <2>5. CASE UNCHANGED <<issued, last, reservations>>
    BY <2>5
  <2> QED
    BY <1>1, <2>1, <2>2, <2>3, <2>4, <2>5 DEF CallStep, TakeAnchorLock, AnchorBusy,
       PlanConfirmedEmission, ClearSeriesAndDate, LookUpLastNumber, LookupFails,
       ReserveCorrelative, Submit, ReceiveAnswer, LoseAnswer, TimeOut, ConsultNumber,
       WhenNotHeld, ConsultFails, RecordReservedComprobante, ReleaseReservation,
       MarkReservationNumberTaken, RereadReservation, FirstStepOn, AbandonUnverified,
       WhenAbandoned, AbandonLookupFails, Unlock
<1>2. ASSUME NEW c \in Calls, NEW a \in Anchors, ConfirmEmission(c, a)
      PROVE  NumberTakenIsFinal'
  BY <1>2 DEF ConfirmEmission
<1>3. ASSUME NEW c \in Calls, NEW act \in {"recheck", "abandon"},
             NEW r \in reservations, OpenReservedAttempt(c, act, r)
      PROVE  NumberTakenIsFinal'
  BY <1>3 DEF OpenReservedAttempt
<1>4. ASSUME NEW c \in Calls, Crash(c)
      PROVE  NumberTakenIsFinal'
  BY <1>4 DEF Crash
<1>5. ASSUME NEW q \in inFlight, ArcaAuthorizes(q)
      PROVE  NumberTakenIsFinal'
  BY <1>5 DEF ArcaAuthorizes, InSequence
<1>6. ASSUME NEW q \in inFlight, ArcaRejects(q)
      PROVE  NumberTakenIsFinal'
  BY <1>6 DEF ArcaRejects
<1>7. ASSUME NEW kind \in Kinds, ForeignEmission(kind)
      PROVE  NumberTakenIsFinal'
  BY <1>7 DEF ForeignEmission, InSequence
<1>8. CASE (\E a \in Anchors : ObligationMoves(a)) \/ UNCHANGED vars
  BY <1>8 DEF ObligationMoves, vars
<1> HIDE DEF IInv, NumberTakenIsFinal
<1> QED
  BY <1>1, <1>2, <1>3, <1>4, <1>5, <1>6, <1>7, <1>8 DEF Next
-----------------------------------------------------------------------------
\* THEOREMS

\* The strengthening every safety theorem below rests on holds in every state.
THEOREM Inductive == Spec => []IInv
<1>1. ASSUME Init
      PROVE  IInv
  <2>1. TypeOK
    BY <1>1, InitType
  <2> QED
    BY <1>1, <2>1 DEF Init, IInv, LockInv, Locked, NumberingInv, FreshInv, Emits, ReservationsInv,
       HoldingInv, Reserved, OpenedInv, RequestsInv, ArcaInv, SettlingInv, VerifiedInv,
       AuthorizedIsAccountedFor, LandableRequestIsReserved, RecordedIsWhatArcaHolds,
       NumberTakenIsFinal
<1>2. ASSUME IInv, [Next]_vars
      PROVE  IInv'
  <2>1. TypeOK'
    BY <1>2, NextType DEF IInv
  <2> QED
    BY <1>2, <2>1, LockStep, NumberingStep, FreshStep, ReservationsStep, HoldingStep,
       OpenedStep, RequestsStep, ArcaStep, SettlingStep, VerifiedStep, AccountedStep,
       LandableStep, RecordedStep, NumberTakenStep
       DEF IInv
<1> QED
  BY <1>1, <1>2, PTL DEF Spec

\* No lost answer, timeout, crash, re-check or abandonment loses a document ARCA
\* authorized: it is recorded or still reserved.
THEOREM NothingAuthorizedIsLost == Spec => []AuthorizedIsAccountedFor
<1>1. IInv => AuthorizedIsAccountedFor
  BY DEF IInv
<1> QED
  BY <1>1, Inductive, PTL

\* A request ARCA could still authorize keeps its reservation.
THEOREM LandableIsReserved == Spec => []LandableRequestIsReserved
<1>1. IInv => LandableRequestIsReserved
  BY DEF IInv
<1> QED
  BY <1>1, Inductive, PTL

\* A comprobante is what ARCA holds, for the attempt it was recorded from.
THEOREM RecordedIsHeld == Spec => []RecordedIsWhatArcaHolds
<1>1. IInv => RecordedIsWhatArcaHolds
  BY DEF IInv
<1> QED
  BY <1>1, Inductive, PTL

\* A number-taken attempt can be let go: its document is not at ARCA and cannot
\* get there.
THEOREM NumberTakenStays == Spec => []NumberTakenIsFinal
<1>1. IInv => NumberTakenIsFinal
  BY DEF IInv
<1> QED
  BY <1>1, Inductive, PTL

\* An anchor never has two attempts live, though no constraint of the table
\* says so.
THEOREM AnchorHasOneAttempt == Spec => []OneAttemptPerAnchor
<1>1. IInv => OneAttemptPerAnchor
  BY DEF IInv, ReservationsInv, OneAttemptPerAnchor
<1> QED
  BY <1>1, Inductive, PTL


-----------------------------------------------------------------------------
\* THE STAGE OF AN ATTEMPT

Ids == 1..MaxAttempts
IsRecorded(x) == \E row \in comprobantes : row.att = x
IsLive(x) == \E r \in reservations : r.id = x
EmitsFor(c, x) == Emits(c) /\ job[c].id = x /\ pc[c] \in Unreserved
IsPlanned(x) == x > attempts \/ \E c \in Calls : EmitsFor(c, x)

Stages == [x \in Ids |-> StageOf(x)]
Authorized == {d.att : d \in issued} \ {Foreign}

\* Attempts are confirmed up to the bound.
Within == attempts <= MaxAttempts
BoundInv == IInv /\ Within

LEMMA EmittingIs ==
    ASSUME TypeOK, NEW x
    PROVE  Emitting(x) <=> \E c \in Calls : EmitsFor(c, x)
BY DEF Emitting, EmitsFor, Emits, Unreserved, TypeOK

LEMMA StageIs ==
    ASSUME TypeOK, NEW x
    PROVE  /\ IsRecorded(x) => StageOf(x) = "recorded"
           /\ ~IsRecorded(x) /\ IsLive(x) => StageOf(x) = "live"
           /\ ~IsRecorded(x) /\ ~IsLive(x) /\ IsPlanned(x) => StageOf(x) = "planned"
           /\ ~IsRecorded(x) /\ ~IsLive(x) /\ ~IsPlanned(x) => StageOf(x) = "closed"
BY EmittingIs DEF StageOf, IsRecorded, IsLive, IsPlanned

LEMMA EmittingIsAfter ==
    ASSUME TypeOK', NEW x
    PROVE  Emitting(x)' <=> \E c \in Calls : EmitsFor(c, x)'
BY DEF Emitting, EmitsFor, Emits, Unreserved, TypeOK

LEMMA StageIsAfter ==
    ASSUME TypeOK', NEW x
    PROVE  /\ IsRecorded(x)' => StageOf(x)' = "recorded"
           /\ ~IsRecorded(x)' /\ IsLive(x)' => StageOf(x)' = "live"
           /\ ~IsRecorded(x)' /\ ~IsLive(x)' /\ IsPlanned(x)' => StageOf(x)' = "planned"
           /\ ~IsRecorded(x)' /\ ~IsLive(x)' /\ ~IsPlanned(x)' => StageOf(x)' = "closed"
BY EmittingIsAfter DEF StageOf, IsRecorded, IsLive, IsPlanned

\* An attempt whose rows and calls are as they were is where it was.
LEMMA StageKept ==
    ASSUME TypeOK, TypeOK', NEW x,
           IsRecorded(x)' <=> IsRecorded(x), IsLive(x)' <=> IsLive(x), IsPlanned(x)' <=> IsPlanned(x)
    PROVE  StageOf(x)' = StageOf(x)
<1>1. CASE IsRecorded(x)
  BY <1>1, StageIs, StageIsAfter
<1>2. CASE ~IsRecorded(x) /\ IsLive(x)
  BY <1>2, StageIs, StageIsAfter
<1>3. CASE ~IsRecorded(x) /\ ~IsLive(x)
  BY <1>3, StageIs, StageIsAfter
<1> QED
  BY <1>1, <1>2, <1>3

\* A call that goes on, or leaves, changes no other's part in it.
LEMMA PlannedKept ==
    ASSUME attempts' = attempts, NEW c \in Calls, NEW x,
           \A d \in Calls \ {c} : pc'[d] = pc[d] /\ job'[d] = job[d],
           EmitsFor(c, x)' <=> EmitsFor(c, x)
    PROVE  IsPlanned(x)' <=> IsPlanned(x)
<1>1. \A d \in Calls \ {c} : EmitsFor(d, x)' <=> EmitsFor(d, x)
  BY DEF EmitsFor, Emits
<1> QED
  BY <1>1 DEF IsPlanned

\* An attempt not recorded, and one that ARCA holds nothing of.
LEMMA HeldIsKnown ==
    ASSUME IInv, NEW x
    PROVE  /\ x \in Authorized <=> x # Foreign /\ \E d \in issued : d.att = x
           /\ IsRecorded(x) => x \in Authorized
<1>1. x \in Authorized <=> x # Foreign /\ \E d \in issued : d.att = x
  BY DEF Authorized
<1>2. ASSUME IsRecorded(x)
      PROVE  x # Foreign /\ \E d \in issued : d.att = x
  <2>1. PICK row \in comprobantes : row.att = x
    BY <1>2 DEF IsRecorded
  <2>2. 1 <= x
    BY <2>1 DEF IInv, NumberingInv, Numbered
  <2>3. x # Foreign
    BY <2>2 DEF Foreign
  <2>4. PICK d \in issued : d = [att |-> row.att, kind |-> row.kind, nro |-> row.nro, imp |-> row.imp,
                                 fch |-> row.fch]
    BY DEF IInv, RecordedIsWhatArcaHolds
  <2> QED
    BY <2>1, <2>3, <2>4
<1> QED
  BY <1>1, <1>2

-----------------------------------------------------------------------------
\* STEPS OF THE LEDGER

LedgerStep == [Ledger!Next]_<<Stages, Authorized>>

LEMMA Stutters ==
    ASSUME TypeOK, TypeOK', Authorized' = Authorized,
           \A x \in Ids : /\ (IsRecorded(x)' <=> IsRecorded(x)) /\ (IsLive(x)' <=> IsLive(x))
                          /\ IsPlanned(x)' <=> IsPlanned(x)
    PROVE  LedgerStep
<1>1. ASSUME NEW x \in Ids
      PROVE  StageOf(x)' = StageOf(x)
  <2>1. /\ (IsRecorded(x)' <=> IsRecorded(x)) /\ (IsLive(x)' <=> IsLive(x))
        /\ IsPlanned(x)' <=> IsPlanned(x)
    OBVIOUS
  <2> QED
    BY <2>1, StageKept
<1>2. Stages' = Stages
  BY <1>1 DEF Stages
<1> QED
  BY <1>2 DEF LedgerStep

\* One attempt goes on, from a stage to the next.
LEMMA Moves ==
    ASSUME TypeOK, TypeOK', NEW x \in Ids, NEW to, StageOf(x)' = to,
           \A y \in Ids \ {x} : /\ (IsRecorded(y)' <=> IsRecorded(y)) /\ (IsLive(y)' <=> IsLive(y))
                                /\ IsPlanned(y)' <=> IsPlanned(y)
    PROVE  Stages' = [Stages EXCEPT ![x] = to] /\ Stages[x] = StageOf(x)
<1>1. ASSUME NEW y \in Ids \ {x}
      PROVE  StageOf(y)' = StageOf(y)
  <2>1. /\ (IsRecorded(y)' <=> IsRecorded(y)) /\ (IsLive(y)' <=> IsLive(y))
        /\ IsPlanned(y)' <=> IsPlanned(y)
    OBVIOUS
  <2> QED
    BY <2>1, StageKept
<1> QED
  BY <1>1 DEF Stages

LEMMA LedgerActions ==
    ASSUME NEW x \in Ids
    PROVE  /\ Stages[x] = "planned" /\ Stages' = [Stages EXCEPT ![x] = "live"]
                /\ Authorized' = Authorized => LedgerStep
           /\ Stages[x] = "live" /\ x \notin Authorized /\ Authorized' = Authorized \cup {x}
                /\ Stages' = Stages => LedgerStep
           /\ Stages[x] = "live" /\ x \in Authorized /\ Stages' = [Stages EXCEPT ![x] = "recorded"]
                /\ Authorized' = Authorized => LedgerStep
           /\ Stages[x] \in {"planned", "live"} /\ x \notin Authorized
                /\ Stages' = [Stages EXCEPT ![x] = "closed"] /\ Authorized' = Authorized => LedgerStep
BY DEF LedgerStep, Ledger!Next, Ledger!Reserve, Ledger!Authorize, Ledger!Record, Ledger!Close, Stages, Ids, Authorized

-----------------------------------------------------------------------------
\* STEPS OF THE EMISSION

LEMMA OthersOf ==
    ASSUME TypeOK, NEW c \in Calls, NEW step, NEW j,
           pc' = [pc EXCEPT ![c] = step], job' = job \/ job' = [job EXCEPT ![c] = j]
    PROVE  \A d \in Calls \ {c} : pc'[d] = pc[d] /\ job'[d] = job[d]
BY DEF TypeOK

\* A call that neither starts nor ends an attempt.
LEMMA GoesOn ==
    ASSUME IInv, IInv', NEW c \in Calls, UNCHANGED <<comprobantes, reservations, issued, attempts>>,
           \A d \in Calls \ {c} : pc'[d] = pc[d] /\ job'[d] = job[d],
           \A x \in Ids : EmitsFor(c, x)' <=> EmitsFor(c, x)
    PROVE  LedgerStep
<1>1. ASSUME NEW x \in Ids
      PROVE  /\ (IsRecorded(x)' <=> IsRecorded(x)) /\ (IsLive(x)' <=> IsLive(x))
             /\ (IsPlanned(x)' <=> IsPlanned(x))
  <2>1. IsPlanned(x)' <=> IsPlanned(x)
    BY PlannedKept
  <2> QED
    BY <2>1 DEF IsRecorded, IsLive
<1>2. Authorized' = Authorized
  BY DEF Authorized
<1> QED
  BY <1>1, <1>2, Stutters DEF IInv

\* An emission that ends before it reserved closes its attempt, which left
\* nothing anywhere.
LEMMA Closes ==
    ASSUME BoundInv, IInv', NEW c \in Calls, NEW x \in Ids, EmitsFor(c, x),
           UNCHANGED <<comprobantes, reservations, issued, attempts>>,
           \A d \in Calls \ {c} : pc'[d] = pc[d] /\ job'[d] = job[d],
           pc'[c] \notin Unreserved
    PROVE  LedgerStep
<1>1. IInv /\ TypeOK /\ TypeOK'
  BY DEF BoundInv, IInv
<1>2. /\ ~IsRecorded(x) /\ ~IsLive(x) /\ IsPlanned(x) /\ ~(x > attempts)
      /\ \A d \in Calls \ {c} : ~EmitsFor(d, x)
      /\ \A d \in issued : d.att # x
  <2>1. x <= attempts /\ x \in Nat /\ attempts \in Nat
    BY <1>1 DEF EmitsFor, Emits, IInv, NumberingInv, Numbered, TypeOK, Ids
  <2> QED
    BY <1>1, <2>1 DEF IInv, FreshInv, EmitsFor, IsRecorded, IsLive, IsPlanned
<1>3. x \notin Authorized /\ Authorized' = Authorized
  BY <1>2 DEF Authorized
<1>4. ~IsRecorded(x)' /\ ~IsLive(x)' /\ ~IsPlanned(x)'
  <2>1. \A d \in Calls : ~(EmitsFor(d, x)')
    <3>1. \A d \in Calls \ {c} : EmitsFor(d, x)' <=> EmitsFor(d, x)
      BY DEF EmitsFor, Emits
    <3>2. ~(EmitsFor(c, x)')
      BY DEF EmitsFor
    <3> QED
      BY <1>2, <3>1, <3>2
  <2> QED
    BY <1>2, <2>1 DEF IsRecorded, IsLive, IsPlanned
<1>5. StageOf(x) = "planned" /\ StageOf(x)' = "closed"
  BY <1>1, <1>2, <1>4, StageIs, StageIsAfter
<1>6. ASSUME NEW y \in Ids \ {x}
      PROVE  /\ (IsRecorded(y)' <=> IsRecorded(y)) /\ (IsLive(y)' <=> IsLive(y))
             /\ (IsPlanned(y)' <=> IsPlanned(y))
  <2>1. ~EmitsFor(c, y) /\ ~(EmitsFor(c, y)')
    BY DEF EmitsFor
  <2>2. IsPlanned(y)' <=> IsPlanned(y)
    BY <2>1, PlannedKept
  <2> QED
    BY <2>2 DEF IsRecorded, IsLive
<1>7. Stages' = [Stages EXCEPT ![x] = "closed"] /\ Stages[x] = "planned"
  BY <1>1, <1>5, <1>6, Moves
<1> QED
  BY <1>3, <1>7, LedgerActions

LEMMA GivesUp ==
    ASSUME BoundInv, IInv', NEW c \in Calls, UNCHANGED <<comprobantes, reservations, issued, attempts>>,
           \A d \in Calls \ {c} : pc'[d] = pc[d] /\ job'[d] = job[d],
           pc'[c] \notin Unreserved
    PROVE  LedgerStep
<1>1. CASE \E x \in Ids : EmitsFor(c, x)
  BY <1>1, Closes
<1>2. CASE ~ \E x \in Ids : EmitsFor(c, x)
  <2>1. \A x \in Ids : EmitsFor(c, x)' <=> EmitsFor(c, x)
    BY <1>2 DEF EmitsFor
  <2> QED
    BY <2>1, GoesOn DEF BoundInv
<1> QED
  BY <1>1, <1>2

\* A number reserved makes the attempt live.
LEMMA ReserveLedger ==
    ASSUME BoundInv, IInv', NEW c \in Calls, ReserveCorrelative(c)
    PROVE  LedgerStep
<1>1. /\ IInv /\ TypeOK /\ TypeOK' /\ Emits(c) /\ pc[c] = "reserving"
      /\ UNCHANGED <<comprobantes, issued, attempts, job>>
  BY DEF BoundInv, IInv, ReserveCorrelative, At, SettlingInv, Emits
<1>2. CASE \E r \in reservations : r.kind = job[c].kind
  <2>1. pc' = [pc EXCEPT ![c] = "unlocking"] /\ reservations' = reservations
    BY <1>2 DEF ReserveCorrelative, GoTo
  <2>2. \A d \in Calls \ {c} : pc'[d] = pc[d] /\ job'[d] = job[d]
    BY <1>1, <2>1 DEF TypeOK
  <2>3. pc'[c] = "unlocking"
    BY <1>1, <2>1 DEF TypeOK
  <2> QED
    BY <1>1, <2>1, <2>2, <2>3, GivesUp DEF Unreserved
<1>3. CASE ~ \E r \in reservations : r.kind = job[c].kind
  <2>1. /\ pc' = [pc EXCEPT ![c] = "submitting"]
        /\ reservations' = reservations \cup {ReservationOf(job[c])}
    BY <1>3 DEF ReserveCorrelative, GoTo
  <2>2. PICK x \in Ids : x = job[c].id
    <3>1. 1 <= job[c].id /\ job[c].id <= attempts /\ attempts \in Nat /\ MaxAttempts \in Nat /\ job[c].id \in Nat
      BY <1>1, BoundsAssumption DEF IInv, NumberingInv, Numbered, Emits, TypeOK, Job, NoJob
    <3> QED
      BY <3>1 DEF Ids, BoundInv, Within
  <2>3. /\ ~IsRecorded(x) /\ ~IsLive(x) /\ EmitsFor(c, x)
    BY <1>1, <2>2 DEF IInv, FreshInv, EmitsFor, Unreserved, IsRecorded, IsLive
  <2>4. /\ \A y : IsLive(y)' <=> IsLive(y) \/ y = x
        /\ \A y : IsRecorded(y)' <=> IsRecorded(y)
    <3> DEFINE new == ReservationOf(job[c])
    <3>1. new.id = x
      BY <2>2 DEF ReservationOf
    <3>2. reservations' = reservations \cup {new}
      BY <2>1
    <3> HIDE DEF new
    <3>3. \A y : IsLive(y)' <=> IsLive(y) \/ y = x
      BY <3>1, <3>2 DEF IsLive
    <3>4. \A y : IsRecorded(y)' <=> IsRecorded(y)
      BY <1>1 DEF IsRecorded
    <3> QED
      BY <3>3, <3>4
  <2>5. StageOf(x) = "planned" /\ StageOf(x)' = "live"
    <3>1. IsPlanned(x)
      BY <2>3 DEF IsPlanned
    <3> QED
      BY <1>1, <2>3, <2>4, <3>1, StageIs, StageIsAfter
  <2>6. ASSUME NEW y \in Ids \ {x}
        PROVE  /\ (IsRecorded(y)' <=> IsRecorded(y)) /\ (IsLive(y)' <=> IsLive(y))
               /\ (IsPlanned(y)' <=> IsPlanned(y))
    <3>1. ~EmitsFor(c, y) /\ ~(EmitsFor(c, y)')
      BY <1>1, <2>2 DEF EmitsFor
    <3>2. \A d \in Calls \ {c} : pc'[d] = pc[d] /\ job'[d] = job[d]
      BY <1>1, <2>1 DEF TypeOK
    <3>3. IsPlanned(y)' <=> IsPlanned(y)
      BY <1>1, <3>1, <3>2, PlannedKept
    <3> QED
      BY <2>4, <3>3
  <2>7. Stages' = [Stages EXCEPT ![x] = "live"] /\ Stages[x] = "planned"
    BY <1>1, <2>5, <2>6, Moves
  <2>8. Authorized' = Authorized
    BY <1>1 DEF Authorized
  <2> QED
    BY <2>7, <2>8, LedgerActions
<1> QED
  BY <1>2, <1>3

\* What ARCA can still authorize is live, and authorized once.
LEMMA AuthorizeLedger ==
    ASSUME BoundInv, IInv', NEW q \in inFlight, ArcaAuthorizes(q)
    PROVE  LedgerStep
<1>1. /\ IInv /\ TypeOK /\ TypeOK' /\ UNCHANGED <<comprobantes, reservations, pc, job, attempts>>
      /\ q.nro = last[q.kind] + 1 /\ issued' = issued \cup {q} /\ Numbered(q.att)
  BY DEF BoundInv, IInv, ArcaAuthorizes, InSequence, NumberingInv
<1>2. PICK x \in Ids : x = q.att
  <2>1. 1 <= q.att /\ q.att <= attempts /\ attempts \in Nat /\ MaxAttempts \in Nat /\ q.att \in Nat
    BY <1>1, BoundsAssumption DEF IInv, Numbered, TypeOK, Document
  <2> QED
    BY <2>1 DEF Ids, BoundInv, Within
<1>3. x \notin Authorized /\ ~IsRecorded(x) /\ IsLive(x)
  <2>1. x \notin Authorized
    BY <1>1, <1>2 DEF IInv, ArcaInv, Authorized
  <2>2. q.nro > last[q.kind]
    BY <1>1 DEF IInv, TypeOK, Document
  <2> QED
    BY <1>1, <1>2, <2>1, <2>2, HeldIsKnown DEF IInv, LandableRequestIsReserved, IsLive
<1>4. Stages[x] = "live" /\ Stages' = Stages
  <2>1. ASSUME NEW y \in Ids
        PROVE  /\ (IsRecorded(y)' <=> IsRecorded(y)) /\ (IsLive(y)' <=> IsLive(y))
               /\ (IsPlanned(y)' <=> IsPlanned(y))
    BY <1>1 DEF IsRecorded, IsLive, IsPlanned, EmitsFor, Emits
  <2>2. ASSUME NEW y \in Ids
        PROVE  StageOf(y)' = StageOf(y)
    BY <1>1, <2>1, StageKept
  <2> QED
    BY <1>1, <1>3, <2>2, StageIs DEF Stages
<1>5. Authorized' = Authorized \cup {x}
  BY <1>1, <1>2 DEF Authorized, Foreign, Ids
<1> QED
  BY <1>3, <1>4, <1>5, LedgerActions

\* The rows of an attempt that goes on, of a call past its reservation.
LEMMA SettlingCall ==
    ASSUME BoundInv, NEW c \in Calls, pc[c] \in {"recording", "releasing"}
    PROVE  \E x \in Ids : x = job[c].id /\ IsLive(x) /\ \A d \in Calls : ~EmitsFor(d, x)
<1>1. 1 <= job[c].id /\ job[c].id <= attempts /\ attempts \in Nat /\ MaxAttempts \in Nat /\ job[c].id \in Nat
  BY BoundsAssumption DEF BoundInv, IInv, NumberingInv, Numbered, TypeOK, Job, NoJob
<1>2. job[c].id \in Ids
  BY <1>1 DEF Ids, BoundInv, Within
<1>3. \E r \in reservations : r.id = job[c].id
  BY DEF BoundInv, IInv, HoldingInv, Reserved
<1>4. \A d \in Calls : ~EmitsFor(d, job[c].id)
  BY <1>3 DEF BoundInv, IInv, FreshInv, EmitsFor
<1> QED
  BY <1>2, <1>3, <1>4 DEF IsLive

\* A document recorded was live until then and authorized.
LEMMA RecordLedger ==
    ASSUME BoundInv, IInv', NEW c \in Calls, RecordReservedComprobante(c)
    PROVE  LedgerStep
<1>1. /\ IInv /\ TypeOK /\ TypeOK' /\ pc[c] = "recording" /\ pc' = [pc EXCEPT ![c] = "unlocking"]
      /\ UNCHANGED <<issued, attempts, job>>
  BY DEF BoundInv, IInv, RecordReservedComprobante, At, GoTo
<1>2. /\ \A d \in Calls \ {c} : pc'[d] = pc[d] /\ job'[d] = job[d]
      /\ pc'[c] = "unlocking"
  BY <1>1 DEF TypeOK
<1>3. CASE \E row \in comprobantes : row.kind = job[c].kind /\ row.nro = job[c].nro
  <2>1. UNCHANGED <<comprobantes, reservations>>
    BY <1>3 DEF RecordReservedComprobante
  <2> QED
    BY <1>1, <1>2, <2>1, GivesUp DEF Unreserved
<1>4. CASE ~ \E row \in comprobantes : row.kind = job[c].kind /\ row.nro = job[c].nro
  <2>1. PICK x \in Ids : x = job[c].id /\ IsLive(x) /\ \A d \in Calls : ~EmitsFor(d, x)
    BY <1>1, SettlingCall
  <2>2. PICK d \in issued : d.att = x /\ d.kind = job[c].kind /\ d.nro = job[c].nro
    BY <1>1, <1>4, <2>1, RecordingOwn DEF Agrees
  <2>3. x \in Authorized /\ Authorized' = Authorized
    BY <1>1, <2>2 DEF Authorized, Ids, Foreign
  <2>4. ~IsRecorded(x)
    <3> SUFFICES ASSUME NEW row \in comprobantes, row.att = x
                 PROVE  FALSE
      BY DEF IsRecorded
    <3>1. PICK e \in issued : e.att = x /\ e.kind = row.kind /\ e.nro = row.nro
      BY <1>1 DEF IInv, RecordedIsWhatArcaHolds
    <3>2. e = d
      BY <1>1, <2>2, <3>1 DEF IInv, ArcaInv, Ids, Foreign
    <3> QED
      BY <1>4, <2>2, <3>1, <3>2
  <2>5. /\ comprobantes' = comprobantes \cup
                 {[att |-> x, anchor |-> job[c].anchor, kind |-> job[c].kind, nro |-> job[c].nro,
                   imp |-> job[c].imp, fch |-> job[c].fch]}
        /\ reservations' = {r \in reservations : r.id # x}
    BY <1>4, <2>1 DEF RecordReservedComprobante
  <2>6. /\ \A y : IsRecorded(y)' <=> IsRecorded(y) \/ y = x
        /\ \A y : IsLive(y)' <=> IsLive(y) /\ y # x
    <3> DEFINE new == [att |-> x, anchor |-> job[c].anchor, kind |-> job[c].kind, nro |-> job[c].nro,
                       imp |-> job[c].imp, fch |-> job[c].fch]
    <3>1. new.att = x /\ comprobantes' = comprobantes \cup {new}
      BY <2>5
    <3> HIDE DEF new
    <3>2. \A y : IsRecorded(y)' <=> IsRecorded(y) \/ y = x
      BY <3>1 DEF IsRecorded
    <3>3. \A y : IsLive(y)' <=> IsLive(y) /\ y # x
      BY <2>5 DEF IsLive
    <3> QED
      BY <3>2, <3>3
  <2>7. StageOf(x) = "live" /\ StageOf(x)' = "recorded"
    BY <1>1, <2>1, <2>4, <2>6, StageIs, StageIsAfter
  <2>8. ASSUME NEW y \in Ids \ {x}
        PROVE  /\ (IsRecorded(y)' <=> IsRecorded(y)) /\ (IsLive(y)' <=> IsLive(y))
               /\ (IsPlanned(y)' <=> IsPlanned(y))
    <3>1. ~EmitsFor(c, y) /\ ~(EmitsFor(c, y)')
      BY <1>1, <1>2 DEF EmitsFor, Unreserved
    <3>2. IsPlanned(y)' <=> IsPlanned(y)
      BY <1>1, <1>2, <3>1, PlannedKept
    <3> QED
      BY <2>6, <3>2
  <2>9. Stages' = [Stages EXCEPT ![x] = "recorded"] /\ Stages[x] = "live"
    BY <1>1, <2>7, <2>8, Moves
  <2> QED
    BY <2>3, <2>9, LedgerActions
<1> QED
  BY <1>3, <1>4

\* A reservation let go closes an attempt of which ARCA holds nothing.
LEMMA ReleaseLedger ==
    ASSUME BoundInv, IInv', NEW c \in Calls, ReleaseReservation(c)
    PROVE  LedgerStep
<1>1. /\ IInv /\ TypeOK /\ TypeOK' /\ pc[c] = "releasing" /\ pc' = [pc EXCEPT ![c] = "unlocking"]
      /\ UNCHANGED <<comprobantes, issued, attempts, job>>
      /\ reservations' = {r \in reservations : r.id # job[c].id}
  BY DEF BoundInv, IInv, ReleaseReservation, At, GoTo
<1>2. /\ \A d \in Calls \ {c} : pc'[d] = pc[d] /\ job'[d] = job[d]
      /\ pc'[c] = "unlocking"
  BY <1>1 DEF TypeOK
<1>3. PICK x \in Ids : x = job[c].id /\ IsLive(x) /\ \A d \in Calls : ~EmitsFor(d, x)
  BY <1>1, SettlingCall
<1>4. /\ \A d \in issued : d.att # x
      /\ ~(x > attempts)
  BY <1>1, <1>3 DEF IInv, SettlingInv, Dead, NumberingInv, Numbered, TypeOK, Ids
<1>5. x \notin Authorized /\ Authorized' = Authorized /\ ~IsRecorded(x)
  BY <1>1, <1>4, HeldIsKnown DEF Authorized
<1>6. /\ \A y : IsRecorded(y)' <=> IsRecorded(y)
      /\ \A y : IsLive(y)' <=> IsLive(y) /\ y # x
  BY <1>1, <1>3 DEF IsRecorded, IsLive
<1>7. ASSUME NEW y \in Ids
      PROVE  IsPlanned(y)' <=> IsPlanned(y)
  <2>1. ~EmitsFor(c, y) /\ ~(EmitsFor(c, y)')
    BY <1>1, <1>2 DEF EmitsFor, Unreserved
  <2> QED
    BY <1>1, <1>2, <2>1, PlannedKept
<1>8. ~IsPlanned(x)
  BY <1>3, <1>4 DEF IsPlanned
<1>9. StageOf(x) = "live" /\ StageOf(x)' = "closed"
  BY <1>1, <1>3, <1>5, <1>6, <1>7, <1>8, StageIs, StageIsAfter
<1>10. Stages' = [Stages EXCEPT ![x] = "closed"] /\ Stages[x] = "live"
  BY <1>1, <1>6, <1>7, <1>9, Moves
<1> QED
  BY <1>5, <1>10, LedgerActions
\* A call's own steps.
LEMMA CallLedger ==
    ASSUME BoundInv, IInv', NEW c \in Calls, CallStep(c)
    PROVE  LedgerStep
<1>1. IInv /\ TypeOK /\ TypeOK' /\ SettlingInv
  BY DEF BoundInv, IInv
<1>2. CASE TakeAnchorLock(c)
  <2>1. /\ pc[c] = "locking" /\ pc' = [pc EXCEPT ![c] = IF job[c].act = "emit" THEN "planning" ELSE "rereading"]
        /\ job' = job /\ UNCHANGED <<comprobantes, reservations, issued, attempts>>
    BY <1>2 DEF TakeAnchorLock, At, GoTo
  <2>2. \A x \in Ids : EmitsFor(c, x)' <=> EmitsFor(c, x)
    BY <1>1, <2>1 DEF EmitsFor, Emits, Unreserved, TypeOK
  <2>3. \A d \in Calls \ {c} : pc'[d] = pc[d] /\ job'[d] = job[d]
    BY <1>1, <2>1 DEF TypeOK
  <2> QED
    BY <1>1, <2>1, <2>2, <2>3, GoesOn
<1>3. CASE AnchorBusy(c) \/ Unlock(c)
  <2>1. /\ pc' = [pc EXCEPT ![c] = "idle"] /\ job' = [job EXCEPT ![c] = NoJob]
        /\ UNCHANGED <<comprobantes, reservations, issued, attempts>>
    BY <1>3 DEF AnchorBusy, Unlock, GoTo
  <2>2. \A d \in Calls \ {c} : pc'[d] = pc[d] /\ job'[d] = job[d]
    BY <1>1, <2>1 DEF TypeOK
  <2>3. pc'[c] = "idle"
    BY <1>1, <2>1 DEF TypeOK
  <2> QED
    BY <2>1, <2>2, <2>3, GivesUp DEF Unreserved
<1>4. CASE PlanConfirmedEmission(c) \/ ClearSeriesAndDate(c) \/ LookupFails(c)
  <2>1. PICK to \in {"clearing", "looking", "unlocking"} :
          /\ pc[c] \in {"planning", "clearing", "looking"} /\ pc' = [pc EXCEPT ![c] = to] /\ job' = job
          /\ UNCHANGED <<comprobantes, reservations, issued, attempts>>
    BY <1>4 DEF PlanConfirmedEmission, ClearSeriesAndDate, LookupFails, At, GoTo
  <2>2. (\A d \in Calls \ {c} : pc'[d] = pc[d] /\ job'[d] = job[d]) /\ pc'[c] = to
    BY <1>1, <2>1 DEF TypeOK
  <2>3. CASE to = "unlocking"
    BY <2>1, <2>2, <2>3, GivesUp DEF Unreserved
  <2>4. CASE to # "unlocking"
    <3>1. \A x \in Ids : EmitsFor(c, x)' <=> EmitsFor(c, x)
      BY <2>1, <2>2, <2>4 DEF EmitsFor, Emits, Unreserved
    <3> QED
      BY <1>1, <2>1, <2>2, <3>1, GoesOn
  <2> QED
    BY <2>3, <2>4
<1>5. CASE LookUpLastNumber(c)
  <2> DEFINE number == last[job[c].kind] + 1
  <2>1. /\ pc[c] = "looking" /\ pc' = [pc EXCEPT ![c] = "reserving"]
        /\ job' = [job EXCEPT ![c].nro = number]
        /\ UNCHANGED <<comprobantes, reservations, issued, attempts>>
    BY <1>5 DEF LookUpLastNumber, At, GoTo
  <2>2. job[c] \in Job
    BY <1>1, <2>1 DEF TypeOK
  <2> HIDE DEF number
  <2>3. /\ \A d \in Calls \ {c} : pc'[d] = pc[d] /\ job'[d] = job[d]
        /\ pc'[c] = "reserving" /\ job'[c].act = job[c].act /\ job'[c].id = job[c].id
    BY <1>1, <2>1, <2>2 DEF TypeOK, Job
  <2>4. \A x \in Ids : EmitsFor(c, x)' <=> EmitsFor(c, x)
    BY <2>1, <2>3 DEF EmitsFor, Emits, Unreserved
  <2> QED
    BY <1>1, <2>1, <2>3, <2>4, GoesOn
<1>6. CASE Submit(c) \/ ReceiveAnswer(c) \/ LoseAnswer(c) \/ ConsultNumber(c) \/ ConsultFails(c)
           \/ RereadReservation(c) \/ AbandonUnverified(c) \/ AbandonLookupFails(c)
  <2>1. PICK to \in {"waiting", "recording", "releasing", "consulting", "unlocking", "marking", "abandoning"} :
          /\ pc[c] # "idle" /\ pc' = [pc EXCEPT ![c] = to] /\ job' = job
          /\ UNCHANGED <<comprobantes, reservations, issued, attempts>>
    BY <1>6 DEF Submit, ReceiveAnswer, LoseAnswer, ConsultNumber, ConsultFails, RereadReservation,
       AbandonUnverified, AbandonLookupFails, At, GoTo, WhenNotHeld, FirstStepOn, WhenAbandoned
  <2>2. (\A d \in Calls \ {c} : pc'[d] = pc[d] /\ job'[d] = job[d]) /\ pc'[c] = to
    BY <1>1, <2>1 DEF TypeOK
  <2> QED
    BY <2>1, <2>2, GivesUp DEF Unreserved
<1>7. CASE TimeOut(c)
  <2>1. /\ pc[c] = "waiting" /\ pc' = [pc EXCEPT ![c] = "consulting"]
        /\ job' = [job EXCEPT ![c].late = TRUE]
        /\ UNCHANGED <<comprobantes, reservations, issued, attempts>>
    BY <1>7 DEF TimeOut, At, GoTo
  <2>2. (\A d \in Calls \ {c} : pc'[d] = pc[d] /\ job'[d] = job[d]) /\ pc'[c] = "consulting"
    BY <1>1, <2>1 DEF TypeOK
  <2> QED
    BY <2>1, <2>2, GivesUp DEF Unreserved
<1>8. CASE MarkReservationNumberTaken(c)
  <2>1. /\ pc[c] = "marking" /\ pc' = [pc EXCEPT ![c] = "unlocking"] /\ job' = job
        /\ UNCHANGED <<comprobantes, issued, attempts>>
    BY <1>8 DEF MarkReservationNumberTaken, At, GoTo
  <2>2. (\A d \in Calls \ {c} : pc'[d] = pc[d] /\ job'[d] = job[d]) /\ pc'[c] = "unlocking"
    BY <1>1, <2>1 DEF TypeOK
  <2>3. ASSUME NEW x \in Ids
        PROVE  /\ (IsRecorded(x)' <=> IsRecorded(x)) /\ (IsLive(x)' <=> IsLive(x))
               /\ (IsPlanned(x)' <=> IsPlanned(x))
    <3>1. IsLive(x)' <=> IsLive(x)
      BY <1>1, <1>8, MarkKeeps DEF IsLive
    <3>2. ~EmitsFor(c, x) /\ ~(EmitsFor(c, x)')
      BY <2>1, <2>2 DEF EmitsFor, Unreserved
    <3>3. IsPlanned(x)' <=> IsPlanned(x)
      BY <2>1, <2>2, <3>2, PlannedKept
    <3> QED
      BY <2>1, <3>1, <3>3 DEF IsRecorded
  <2>4. Authorized' = Authorized
    BY <2>1 DEF Authorized
  <2> QED
    BY <1>1, <2>3, <2>4, Stutters
<1> QED
  BY <1>2, <1>3, <1>4, <1>5, <1>6, <1>7, <1>8, ReserveLedger, RecordLedger, ReleaseLedger DEF CallStep

\* Confirming starts the next attempt, which was planned already.
LEMMA ConfirmLedger ==
    ASSUME BoundInv, IInv', NEW c \in Calls, NEW a \in Anchors, ConfirmEmission(c, a)
    PROVE  LedgerStep
<1>1. PICK kind \in Kinds, imp \in Amounts, fch \in Dates :
        job' = [job EXCEPT ![c] = [act |-> "emit", id |-> attempts + 1,
                        anchor |-> a, kind |-> kind, nro |-> 0, imp |-> imp,
                        fch |-> fch, late |-> FALSE]]
  BY DEF ConfirmEmission
<1>2. /\ IInv /\ TypeOK /\ TypeOK' /\ pc[c] = "idle" /\ pc' = [pc EXCEPT ![c] = "locking"]
      /\ attempts' = attempts + 1 /\ attempts \in Nat
      /\ UNCHANGED <<comprobantes, reservations, issued>>
  BY DEF BoundInv, IInv, TypeOK, ConfirmEmission, At, GoTo
<1>3. /\ \A d \in Calls \ {c} : pc'[d] = pc[d] /\ job'[d] = job[d]
      /\ pc'[c] = "locking" /\ job'[c].act = "emit" /\ job'[c].id = attempts + 1
  BY <1>1, <1>2 DEF TypeOK
<1>4. ASSUME NEW x \in Ids
      PROVE  /\ (IsRecorded(x)' <=> IsRecorded(x)) /\ (IsLive(x)' <=> IsLive(x))
             /\ (IsPlanned(x)' <=> IsPlanned(x))
  <2>1. \A d \in Calls \ {c} : EmitsFor(d, x)' <=> EmitsFor(d, x)
    BY <1>3 DEF EmitsFor, Emits
  <2>2. (EmitsFor(c, x)' <=> x = attempts + 1) /\ ~EmitsFor(c, x)
    BY <1>2, <1>3 DEF EmitsFor, Emits, Unreserved
  <2>3. x > attempts' \/ x = attempts + 1 <=> x > attempts
    BY <1>2 DEF Ids
  <2>4. IsPlanned(x)' <=> IsPlanned(x)
    BY <2>1, <2>2, <2>3 DEF IsPlanned
  <2> QED
    BY <1>2, <2>4 DEF IsRecorded, IsLive
<1>5. Authorized' = Authorized
  BY <1>2 DEF Authorized
<1> QED
  BY <1>2, <1>4, <1>5, Stutters

LEMMA CrashLedger ==
    ASSUME BoundInv, IInv', NEW c \in Calls, Crash(c)
    PROVE  LedgerStep
<1>1. /\ pc' = [pc EXCEPT ![c] = "idle"] /\ job' = [job EXCEPT ![c] = NoJob] /\ TypeOK
      /\ UNCHANGED <<comprobantes, reservations, issued, attempts>>
  BY DEF Crash, GoTo, BoundInv, IInv
<1>2. (\A d \in Calls \ {c} : pc'[d] = pc[d] /\ job'[d] = job[d]) /\ pc'[c] = "idle"
  BY <1>1 DEF TypeOK
<1> QED
  BY <1>1, <1>2, GivesUp DEF Unreserved

LEMMA OpenLedger ==
    ASSUME BoundInv, IInv', NEW c \in Calls, NEW act \in {"recheck", "abandon"}, NEW r \in reservations,
           OpenReservedAttempt(c, act, r)
    PROVE  LedgerStep
<1>1. /\ IInv /\ TypeOK /\ pc[c] = "idle" /\ pc' = [pc EXCEPT ![c] = "locking"]
      /\ job' = [job EXCEPT ![c] = [act |-> act, id |-> r.id, anchor |-> r.anchor,
                  kind |-> r.kind, nro |-> r.nro, imp |-> r.imp, fch |-> r.fch, late |-> TRUE]]
      /\ UNCHANGED <<comprobantes, reservations, issued, attempts>>
  BY DEF OpenReservedAttempt, At, GoTo, BoundInv, IInv
<1>2. /\ \A d \in Calls \ {c} : pc'[d] = pc[d] /\ job'[d] = job[d]
      /\ job'[c].act = act
  BY <1>1 DEF TypeOK
<1>3. \A x \in Ids : EmitsFor(c, x)' <=> EmitsFor(c, x)
  BY <1>1, <1>2 DEF EmitsFor, Emits
<1> QED
  BY <1>1, <1>2, <1>3, GoesOn

\* What moves neither a row nor a call.
LEMMA OutsideLedger ==
    ASSUME IInv, IInv', UNCHANGED <<comprobantes, reservations, pc, job, attempts>>, Authorized' = Authorized
    PROVE  LedgerStep
<1>1. ASSUME NEW x \in Ids
      PROVE  /\ (IsRecorded(x)' <=> IsRecorded(x)) /\ (IsLive(x)' <=> IsLive(x))
             /\ (IsPlanned(x)' <=> IsPlanned(x))
  BY DEF IsRecorded, IsLive, IsPlanned, EmitsFor, Emits
<1> QED
  BY <1>1, Stutters DEF IInv

LEMMA NextLedger ==
    ASSUME BoundInv, IInv', [Next]_vars
    PROVE  LedgerStep
<1>1. IInv
  BY DEF BoundInv
<1>2. ASSUME NEW a \in Anchors, ObligationMoves(a)
      PROVE  LedgerStep
  BY <1>1, <1>2, OutsideLedger DEF ObligationMoves, Authorized
<1>3. ASSUME NEW q \in inFlight, ArcaRejects(q)
      PROVE  LedgerStep
  BY <1>1, <1>3, OutsideLedger DEF ArcaRejects, Authorized
<1>4. ASSUME NEW kind \in Kinds, ForeignEmission(kind)
      PROVE  LedgerStep
  <2>1. PICK d : d.att = Foreign /\ issued' = issued \cup {d}
    BY <1>4 DEF ForeignEmission
  <2>2. Authorized' = Authorized
    BY <2>1 DEF Authorized
  <2> QED
    BY <1>1, <1>4, <2>2, OutsideLedger DEF ForeignEmission
<1>5. CASE UNCHANGED vars
  BY <1>1, <1>5, OutsideLedger DEF vars, Authorized
<1> QED
  BY <1>2, <1>3, <1>4, <1>5, ConfirmLedger, OpenLedger, CallLedger, CrashLedger, AuthorizeLedger DEF Next

LEMMA StartLedger ==
    ASSUME Init
    PROVE  Stages = [x \in Ids |-> "planned"] /\ Authorized = {}
<1>1. \A x \in Ids : StageOf(x) = "planned"
  BY DEF Init, StageOf, Ids
<1> QED
  BY <1>1 DEF Init, Stages, Authorized

\* The number of attempts stays within the bound.
LEMMA Bounded == Spec => []BoundInv
<1>1. Init => Within
  BY BoundsAssumption DEF Init, Within
<1>2. IInv /\ Within /\ [Next]_vars => Within'
  <2> SUFFICES ASSUME TypeOK, attempts <= MaxAttempts, [Next]_vars
               PROVE  attempts' <= MaxAttempts
    BY DEF IInv, Within
  <2>1. ASSUME NEW c \in Calls, NEW a \in Anchors, ConfirmEmission(c, a)
        PROVE  attempts' <= MaxAttempts
    BY <2>1, BoundsAssumption DEF ConfirmEmission, TypeOK
  <2>2. ASSUME NEW c \in Calls, CallStep(c)
        PROVE  attempts' = attempts
    BY <2>2 DEF CallStep, TakeAnchorLock, AnchorBusy, PlanConfirmedEmission, ClearSeriesAndDate, LookUpLastNumber,
       LookupFails, ReserveCorrelative, Submit, ReceiveAnswer, LoseAnswer, TimeOut, ConsultNumber, ConsultFails,
       RecordReservedComprobante, ReleaseReservation, MarkReservationNumberTaken, RereadReservation,
       AbandonUnverified, AbandonLookupFails, Unlock
  <2>3. CASE \/ \E a \in Anchors : ObligationMoves(a)
             \/ \E c \in Calls, act \in {"recheck", "abandon"}, r \in reservations :
                   OpenReservedAttempt(c, act, r)
             \/ \E c \in Calls : Crash(c)
             \/ \E q \in inFlight : ArcaAuthorizes(q) \/ ArcaRejects(q)
             \/ \E kind \in Kinds : ForeignEmission(kind)
             \/ UNCHANGED vars
    BY <2>3 DEF ObligationMoves, OpenReservedAttempt, Crash, ArcaAuthorizes, ArcaRejects, ForeignEmission, vars
  <2> QED
    BY <2>1, <2>2, <2>3 DEF Next
<1>3. BoundInv <=> IInv /\ Within
  BY DEF BoundInv
<1> QED
  BY <1>1, <1>2, <1>3, Inductive, PTL DEF Spec

\* The emission implements the ledger: an attempt is reserved before ARCA can
\* authorize it, is recorded only once ARCA holds its document, and is closed only
\* when ARCA holds none and never will, whatever answers, calls and processes are
\* lost.
THEOREM LedgerImplemented == Spec => ImplementsLedger
<1>1. Init => Ledger!Init
  BY StartLedger DEF Ledger!Init, Stages, Authorized, Ids
<1>2. BoundInv /\ IInv' /\ [Next]_vars => LedgerStep
  BY NextLedger
<1>3. BoundInv => IInv
  BY DEF BoundInv
<1>4. LedgerStep <=> [Ledger!Next]_<<[x \in 1..MaxAttempts |-> StageOf(x)], {d.att : d \in issued} \ {Foreign}>>
  BY DEF LedgerStep, Stages, Authorized, Ids
<1> QED
  BY <1>1, <1>2, <1>3, <1>4, Bounded, PTL DEF Spec, ImplementsLedger, Ledger!Spec

-----------------------------------------------------------------------------
\* THE DOCUMENTS OF AN ANCHOR

\* One more document adds its amount.
LEMMA OneMore ==
    ASSUME NEW docs, IsFiniteSet(Units(docs)), NEW d, d \notin docs, d.imp \in Nat
    PROVE  /\ IsFiniteSet(Units(docs \cup {d})) /\ Total(docs) \in Nat
           /\ Total(docs \cup {d}) = Total(docs) + d.imp
<1> DEFINE new == {d} \X (1 .. d.imp)
<1>1. Units(docs \cup {d}) = Units(docs) \cup new
  BY DEF Units
<1>2. Units(docs) \cap new = {}
  BY DEF Units
<1>3. IsFiniteSet(new) /\ Cardinality(new) = d.imp
  <2>1. IsFiniteSet(1 .. d.imp) /\ Cardinality(1 .. d.imp) = d.imp
    <3>1. ASSUME NEW n \in Nat
          PROVE  IsFiniteSet(1 .. n) /\ Cardinality(1 .. n) = n
      <4>1. 1 \in Int /\ n \in Int
        OBVIOUS
      <4>2. IsFiniteSet(1 .. n) /\ Cardinality(1 .. n) = IF 1 > n THEN 0 ELSE n - 1 + 1
        BY ONLY <4>1, FS_Interval
      <4> QED
        BY <4>2
    <3> QED
      BY <3>1
  <2>2. IsFiniteSet({d}) /\ Cardinality({d}) = 1
    BY FS_Singleton
  <2>3. IsFiniteSet(new) /\ Cardinality(new) = Cardinality({d}) * Cardinality(1 .. d.imp)
    BY <2>1, <2>2, FS_Product
  <2> QED
    BY <2>1, <2>2, <2>3
<1> HIDE DEF new
<1>4. /\ IsFiniteSet(Units(docs) \cup new)
      /\ Cardinality(Units(docs) \cup new) = Cardinality(Units(docs)) + Cardinality(new) - Cardinality(Units(docs) \cap new)
  BY <1>3, FS_Union
<1>5. Cardinality(Units(docs) \cap new) = 0 /\ Cardinality(Units(docs)) \in Nat
  BY <1>2, FS_EmptySet, FS_CardinalityType
<1>6. Cardinality(Units(docs) \cup new) = Cardinality(Units(docs)) + d.imp
  BY <1>3, <1>4, <1>5
<1>7. Total(docs) = Cardinality(Units(docs)) /\ Total(docs \cup {d}) = Cardinality(Units(docs) \cup new)
  BY <1>1 DEF Total
<1> QED
  BY <1>1, <1>4, <1>5, <1>6, <1>7

\* The amounts of some of finitely many documents.
LEMMA SomeOf ==
    ASSUME NEW docs, IsFiniteSet(Units(docs)), NEW some \in SUBSET docs
    PROVE  IsFiniteSet(Units(some)) /\ Total(some) \in Nat
<1>1. Units(some) \subseteq Units(docs)
  BY DEF Units
<1>2. IsFiniteSet(Units(some))
  BY <1>1, FS_Subset
<1> QED
  BY <1>2, FS_CardinalityType DEF Total

\* Credits of this amount still fit under what the documents bill.
Covers(docs, imp) == Total(CreditsOf(docs)) + imp <= Total(docs \ CreditsOf(docs))

LEMMA CoversOneMore ==
    ASSUME NEW docs, IsFiniteSet(Units(docs)), NEW d, d \notin docs, d.imp \in Nat,
           Covers(docs, IF d.kind = "nota_credito_c" THEN d.imp ELSE 0)
    PROVE  Covers(docs \cup {d}, 0)
<1> DEFINE credits == CreditsOf(docs)
           rest == docs \ CreditsOf(docs)
<1>1. /\ IsFiniteSet(Units(credits)) /\ Total(credits) \in Nat
      /\ IsFiniteSet(Units(rest)) /\ Total(rest) \in Nat /\ d \notin credits /\ d \notin rest
  <2>1. credits \in SUBSET docs /\ rest \in SUBSET docs
    BY DEF CreditsOf
  <2> QED
    BY <2>1, SomeOf
<1>2. CASE d.kind = "nota_credito_c"
  <2>1. CreditsOf(docs \cup {d}) = credits \cup {d} /\ (docs \cup {d}) \ CreditsOf(docs \cup {d}) = rest
    BY <1>2 DEF CreditsOf
  <2>2. Total(credits \cup {d}) = Total(credits) + d.imp
    BY <1>1, OneMore
  <2>3. Total(credits) + d.imp <= Total(rest)
    BY <1>2 DEF Covers
  <2> HIDE DEF credits, rest
  <2> QED
    BY <1>1, <2>1, <2>2, <2>3, SMTT(40) DEF Covers
<1>3. CASE d.kind # "nota_credito_c"
  <2>1. CreditsOf(docs \cup {d}) = credits /\ (docs \cup {d}) \ CreditsOf(docs \cup {d}) = rest \cup {d}
    BY <1>3 DEF CreditsOf
  <2>2. Total(rest \cup {d}) = Total(rest) + d.imp
    BY <1>1, OneMore
  <2>3. Total(credits) <= Total(rest)
    BY <1>1, <1>3 DEF Covers
  <2> HIDE DEF credits, rest
  <2> QED
    BY <1>1, <2>1, <2>2, <2>3 DEF Covers
<1> QED
  BY <1>2, <1>3

\* What an anchor's documents leave room for: one invoice, and credits under it.
Fits(a, kind, imp) ==
    /\ kind = "factura_c" => ~Invoiced(a)
    /\ kind = "nota_credito_c" => Covers(DocumentsOf(a), imp)

Deciding(c) == pc[c] \in {"clearing", "looking", "reserving"}

\* What is planned under the lock, or reserved, still fits what is recorded.
DocumentsInv ==
    /\ IsFiniteSet(Units(comprobantes))
    /\ \A a \in Anchors :
          /\ \A d1, d2 \in DocumentsOf(a) : d1.kind = "factura_c" /\ d2.kind = "factura_c" => d1 = d2
          /\ Covers(DocumentsOf(a), 0)
    /\ \A r \in reservations : Fits(r.anchor, r.kind, r.imp)
    /\ \A c \in Calls : Deciding(c) => Fits(job[c].anchor, job[c].kind, job[c].imp)

LEMMA PlannedFits ==
    ASSUME IsFiniteSet(Units(comprobantes)), NEW a, NEW kind \in Kinds, NEW imp \in Nat, Planned(a, kind, imp)
    PROVE  Fits(a, kind, imp)
<1>1. CASE kind = "factura_c"
  BY <1>1 DEF Planned, Fits
<1>2. CASE kind = "nota_debito_c"
  BY <1>2 DEF Fits
<1>3. CASE kind = "nota_credito_c"
  <2> DEFINE docs == DocumentsOf(a)
  <2>1. Total(docs \ CreditsOf(docs)) - Total(CreditsOf(docs)) - imp >= 0
    BY <1>3 DEF Planned, Net
  <2>2. CreditsOf(docs) \in SUBSET comprobantes /\ docs \ CreditsOf(docs) \in SUBSET comprobantes
    BY DEF CreditsOf, DocumentsOf
  <2>3. Total(CreditsOf(docs)) \in Nat /\ Total(docs \ CreditsOf(docs)) \in Nat
    BY <2>2, SomeOf
  <2>4. Covers(docs, imp)
    BY <2>1, <2>3 DEF Covers
  <2> QED
    BY <1>3, <2>4 DEF Fits
<1> QED
  BY <1>1, <1>2, <1>3 DEF Kinds

\* While nothing is recorded, only what was reserved or decided has to fit.
LEMMA NothingRecorded ==
    ASSUME DocumentsInv, comprobantes' = comprobantes,
           \A s \in reservations' :
              \/ \E r \in reservations : s.anchor = r.anchor /\ s.kind = r.kind /\ s.imp = r.imp
              \/ \E c \in Calls : /\ Deciding(c) /\ s.anchor = job[c].anchor /\ s.kind = job[c].kind
                                  /\ s.imp = job[c].imp,
           \A c \in Calls : Deciding(c)' => Fits(job'[c].anchor, job'[c].kind, job'[c].imp)
    PROVE  DocumentsInv'
<1>1. \A a : DocumentsOf(a)' = DocumentsOf(a)
  BY DEF DocumentsOf
<1>2. \A a, kind, imp : Fits(a, kind, imp) =>
        /\ kind = "factura_c" => ~Invoiced(a)'
        /\ kind = "nota_credito_c" => Covers(DocumentsOf(a)', imp)
  BY <1>1 DEF Fits, Invoiced
<1>3. ASSUME NEW s \in reservations'
      PROVE  Fits(s.anchor, s.kind, s.imp)
  BY DEF DocumentsInv
<1>4. IsFiniteSet(Units(comprobantes))'
  BY DEF DocumentsInv, Units
<1>5. \A a \in Anchors :
        /\ \A d1, d2 \in DocumentsOf(a)' : d1.kind = "factura_c" /\ d2.kind = "factura_c" => d1 = d2
        /\ Covers(DocumentsOf(a)', 0)
  BY <1>1 DEF DocumentsInv
<1> QED
  BY <1>2, <1>3, <1>4, <1>5 DEF DocumentsInv, Fits, Covers, Total, Units, CreditsOf

\* A recorded document: of an attempt whose amount fits, on an anchor nobody else
\* decides about.
LEMMA RecordDocuments ==
    ASSUME IInv, DocumentsInv, NEW c \in Calls, RecordReservedComprobante(c)
    PROVE  DocumentsInv'
<1>1. /\ TypeOK /\ pc[c] = "recording" /\ pc' = [pc EXCEPT ![c] = "unlocking"] /\ job' = job
      /\ \A d \in Calls : Deciding(d)' => Deciding(d) /\ d # c
  BY DEF IInv, TypeOK, RecordReservedComprobante, At, GoTo, Deciding
<1>2. CASE \E row \in comprobantes : row.kind = job[c].kind /\ row.nro = job[c].nro
  <2>1. UNCHANGED <<comprobantes, reservations>>
    BY <1>2 DEF RecordReservedComprobante
  <2> QED
    BY <1>1, <2>1, NothingRecorded DEF DocumentsInv
<1>3. CASE ~ \E row \in comprobantes : row.kind = job[c].kind /\ row.nro = job[c].nro
  <2> DEFINE new == [att |-> job[c].id, anchor |-> job[c].anchor, kind |-> job[c].kind, nro |-> job[c].nro,
                     imp |-> job[c].imp, fch |-> job[c].fch]
  <2>1. /\ comprobantes' = comprobantes \cup {new}
        /\ reservations' = {r \in reservations : r.id # job[c].id}
    BY <1>3 DEF RecordReservedComprobante
  <2>2. PICK own \in reservations : own.id = job[c].id /\ own.anchor = job[c].anchor /\ Agrees(own, job[c])
    BY <1>1 DEF IInv, HoldingInv, Reserved
  <2>3. job[c] \in Job
    BY <1>1 DEF TypeOK
  <2>4. PICK row : /\ row = new /\ row.anchor = own.anchor /\ row.kind = own.kind /\ row.imp = own.imp
                   /\ row.imp \in Nat /\ row \notin comprobantes
    <3>1. /\ new.anchor = own.anchor /\ new.kind = own.kind /\ new.imp = own.imp /\ new.imp \in Nat
      BY <2>2, <2>3, AmountsAssumption DEF Agrees, Job
    <3>2. new.kind = job[c].kind /\ new.nro = job[c].nro
      OBVIOUS
    <3>3. new \notin comprobantes
      BY <1>3, <3>2
    <3> HIDE DEF new
    <3> QED
      BY <3>1, <3>3
  <2> HIDE DEF new
  <2>5. comprobantes' = comprobantes \cup {row}
    BY <2>1, <2>4
  <2>6. PICK anchor \in Anchors : anchor = own.anchor
    BY <1>1 DEF TypeOK, Reservation
  <2>7. /\ Fits(anchor, row.kind, row.imp)
        /\ \A r \in reservations' : r \in reservations /\ r.anchor # anchor
        /\ \A d \in Calls : Deciding(d)' => Deciding(d) /\ job[d].anchor # anchor
    <3>1. Fits(anchor, row.kind, row.imp)
      BY <2>4, <2>6 DEF DocumentsInv
    <3>2. \A r \in reservations' : r \in reservations /\ r.anchor # anchor
      BY <2>1, <2>2, <2>6 DEF IInv, ReservationsInv
    <3>3. \A d \in Calls : Deciding(d)' => Deciding(d) /\ job[d].anchor # anchor
      BY <1>1, <2>2, <2>6 DEF IInv, LockInv, Locked, Deciding
    <3> QED
      BY <3>1, <3>2, <3>3
  <2>8. /\ DocumentsOf(anchor)' = DocumentsOf(anchor) \cup {row} /\ row \notin DocumentsOf(anchor)
        /\ \A a : a # anchor => DocumentsOf(a)' = DocumentsOf(a)
    BY <2>4, <2>5, <2>6 DEF DocumentsOf
  <2>9. /\ IsFiniteSet(Units(comprobantes)) /\ IsFiniteSet(Units(DocumentsOf(anchor)))
        /\ IsFiniteSet(Units(comprobantes))'
    <3>1. IsFiniteSet(Units(comprobantes)) /\ DocumentsOf(anchor) \in SUBSET comprobantes
      BY DEF DocumentsInv, DocumentsOf
    <3>2. IsFiniteSet(Units(comprobantes \cup {row}))
      BY <2>4, <3>1, OneMore
    <3>3. Units(comprobantes)' = Units(comprobantes \cup {row})
      BY <2>5 DEF Units
    <3> QED
      BY <3>1, <3>2, <3>3, SomeOf
  <2>10. \A a, kind, imp : a # anchor /\ Fits(a, kind, imp) =>
           /\ kind = "factura_c" => ~Invoiced(a)'
           /\ kind = "nota_credito_c" => Covers(DocumentsOf(a)', imp)
    BY <2>8 DEF Fits, Invoiced
  <2>11. ASSUME NEW a \in Anchors
         PROVE  /\ \A d1, d2 \in DocumentsOf(a)' : d1.kind = "factura_c" /\ d2.kind = "factura_c" => d1 = d2
                /\ Covers(DocumentsOf(a)', 0)
    <3>1. CASE a # anchor
      BY <2>8, <3>1 DEF DocumentsInv
    <3>2. CASE a = anchor
      <4>1. Covers(DocumentsOf(anchor) \cup {row}, 0)
        <5>1. Covers(DocumentsOf(anchor), IF row.kind = "nota_credito_c" THEN row.imp ELSE 0)
          BY <2>7 DEF Fits, DocumentsInv
        <5> QED
          BY <2>4, <2>8, <2>9, <5>1, CoversOneMore
      <4>2. \A d1, d2 \in DocumentsOf(anchor) \cup {row} :
              d1.kind = "factura_c" /\ d2.kind = "factura_c" => d1 = d2
        BY <2>7 DEF Fits, Invoiced, DocumentsInv
      <4> QED
        BY <2>8, <3>2, <4>1, <4>2
    <3> QED
      BY <3>1, <3>2
  <2>12. \A r \in reservations' : Fits(r.anchor, r.kind, r.imp) /\ r.anchor # anchor
    BY <2>7 DEF DocumentsInv
  <2>13. \A d \in Calls : Deciding(d)' =>
            Fits(job[d].anchor, job[d].kind, job[d].imp) /\ job[d].anchor # anchor
    BY <2>7 DEF DocumentsInv
  <2> QED
    BY <1>1, <2>9, <2>10, <2>11, <2>12, <2>13 DEF DocumentsInv, Fits, Covers, Total, Units, CreditsOf
<1> QED
  BY <1>2, <1>3

LEMMA DocumentsStep ==
    ASSUME IInv, DocumentsInv, [Next]_vars
    PROVE  DocumentsInv'
<1>1. TypeOK /\ SettlingInv
  BY DEF IInv
<1>2. ASSUME NEW c \in Calls, NEW step, ~Deciding(c)', comprobantes' = comprobantes, reservations' \subseteq reservations,
             pc' = [pc EXCEPT ![c] = step], \A d \in Calls \ {c} : job'[d] = job[d]
      PROVE  DocumentsInv'
  <2>1. \A d \in Calls : Deciding(d)' => Deciding(d) /\ job'[d] = job[d]
    BY <1>1, <1>2 DEF Deciding, TypeOK
  <2> QED
    BY <1>2, <2>1, NothingRecorded DEF DocumentsInv
<1>3. ASSUME UNCHANGED <<comprobantes, reservations, pc, job>>
      PROVE  DocumentsInv'
  BY <1>3, NothingRecorded DEF DocumentsInv, Deciding
<1>4. ASSUME NEW c \in Calls, PlanConfirmedEmission(c)
      PROVE  DocumentsInv'
  <2>1. /\ pc[c] = "planning" /\ job' = job /\ UNCHANGED <<comprobantes, reservations>>
        /\ pc' = [pc EXCEPT ![c] = IF Planned(job[c].anchor, job[c].kind, job[c].imp)
                                   THEN "clearing" ELSE "unlocking"]
    BY <1>4 DEF PlanConfirmedEmission, At, GoTo
  <2>2. job[c].kind \in Kinds /\ job[c].imp \in Nat
    BY <1>1, <2>1, AmountsAssumption DEF TypeOK, Job
  <2>3. Deciding(c)' => Fits(job[c].anchor, job[c].kind, job[c].imp)
    <3>1. Deciding(c)' => Planned(job[c].anchor, job[c].kind, job[c].imp)
      BY <1>1, <2>1 DEF Deciding, TypeOK
    <3>2. IsFiniteSet(Units(comprobantes))
      BY DEF DocumentsInv
    <3> QED
      BY <2>2, <3>1, <3>2, PlannedFits
  <2>4. \A d \in Calls \ {c} : Deciding(d)' => Deciding(d)
    BY <1>1, <2>1 DEF Deciding, TypeOK
  <2> QED
    BY <2>1, <2>3, <2>4, NothingRecorded DEF DocumentsInv
<1>5. ASSUME NEW c \in Calls, ClearSeriesAndDate(c) \/ LookupFails(c)
      PROVE  DocumentsInv'
  <2>1. /\ Deciding(c) /\ job' = job /\ UNCHANGED <<comprobantes, reservations>>
        /\ \E step : pc' = [pc EXCEPT ![c] = step]
    BY <1>5 DEF ClearSeriesAndDate, LookupFails, At, GoTo, Deciding
  <2>2. \A d \in Calls : Deciding(d)' => Deciding(d)
    BY <1>1, <2>1 DEF Deciding, TypeOK
  <2> QED
    BY <2>1, <2>2, NothingRecorded DEF DocumentsInv
<1>6. ASSUME NEW c \in Calls, LookUpLastNumber(c)
      PROVE  DocumentsInv'
  <2> DEFINE number == last[job[c].kind] + 1
  <2>1. /\ Deciding(c) /\ pc[c] = "looking" /\ pc' = [pc EXCEPT ![c] = "reserving"]
        /\ job' = [job EXCEPT ![c].nro = number] /\ UNCHANGED <<comprobantes, reservations>>
    BY <1>6 DEF LookUpLastNumber, At, GoTo, Deciding
  <2>2. job[c] \in Job
    BY <1>1, <2>1 DEF TypeOK
  <2> HIDE DEF number
  <2>3. /\ \A d \in Calls \ {c} : job'[d] = job[d] /\ (Deciding(d)' => Deciding(d))
        /\ job'[c].anchor = job[c].anchor /\ job'[c].kind = job[c].kind /\ job'[c].imp = job[c].imp
    BY <1>1, <2>1, <2>2 DEF TypeOK, Job, Deciding
  <2> QED
    BY <2>1, <2>3, NothingRecorded DEF DocumentsInv
<1>7. ASSUME NEW c \in Calls, ReserveCorrelative(c)
      PROVE  DocumentsInv'
  <2>1. /\ Deciding(c) /\ job' = job /\ comprobantes' = comprobantes
        /\ \E step : step \in {"unlocking", "submitting"} /\ pc' = [pc EXCEPT ![c] = step]
        /\ reservations' \subseteq reservations \cup {ReservationOf(job[c])}
    BY <1>7 DEF ReserveCorrelative, At, GoTo, Deciding
  <2>2. \A d \in Calls : Deciding(d)' => Deciding(d)
    BY <1>1, <2>1 DEF Deciding, TypeOK
  <2>3. /\ ReservationOf(job[c]).anchor = job[c].anchor /\ ReservationOf(job[c]).kind = job[c].kind
        /\ ReservationOf(job[c]).imp = job[c].imp
    BY DEF ReservationOf
  <2> QED
    BY <2>1, <2>2, <2>3, NothingRecorded DEF DocumentsInv
<1>8. ASSUME NEW c \in Calls, MarkReservationNumberTaken(c)
      PROVE  DocumentsInv'
  <2>1. /\ job' = job /\ comprobantes' = comprobantes /\ pc' = [pc EXCEPT ![c] = "unlocking"]
    BY <1>8 DEF MarkReservationNumberTaken, GoTo
  <2>2. \A d \in Calls : Deciding(d)' => Deciding(d)
    BY <1>1, <2>1 DEF Deciding, TypeOK
  <2>3. \A s \in reservations' : \E r \in reservations : s.anchor = r.anchor /\ s.kind = r.kind /\ s.imp = r.imp
    BY <1>8, MarkKeeps DEF Agrees
  <2> QED
    BY <2>1, <2>2, <2>3, NothingRecorded DEF DocumentsInv
<1>9. ASSUME NEW c \in Calls,
             \/ TakeAnchorLock(c) \/ AnchorBusy(c) \/ Submit(c) \/ ReceiveAnswer(c) \/ LoseAnswer(c) \/ TimeOut(c)
             \/ ConsultNumber(c) \/ ConsultFails(c) \/ ReleaseReservation(c) \/ RereadReservation(c)
             \/ AbandonUnverified(c) \/ AbandonLookupFails(c) \/ Unlock(c) \/ Crash(c)
      PROVE  DocumentsInv'
  <2>1. /\ comprobantes' = comprobantes /\ reservations' \subseteq reservations
        /\ \E to : job' = job \/ job' = [job EXCEPT ![c] = to]
    BY <1>9 DEF TakeAnchorLock, AnchorBusy, Submit, ReceiveAnswer, LoseAnswer, TimeOut, ConsultNumber, ConsultFails,
       ReleaseReservation, RereadReservation, AbandonUnverified, AbandonLookupFails, Unlock, Crash
  <2>2. PICK step : /\ pc' = [pc EXCEPT ![c] = step]
                    /\ step \notin {"clearing", "looking", "reserving"}
    BY <1>9 DEF TakeAnchorLock, AnchorBusy, Submit, ReceiveAnswer, LoseAnswer, TimeOut, ConsultNumber, ConsultFails,
       ReleaseReservation, RereadReservation, AbandonUnverified, AbandonLookupFails, Unlock, Crash, GoTo,
       WhenNotHeld, FirstStepOn, WhenAbandoned
  <2>3. ~Deciding(c)' /\ \A d \in Calls \ {c} : job'[d] = job[d]
    BY <1>1, <2>1, <2>2 DEF Deciding, TypeOK
  <2> QED
    BY <1>2, <2>1, <2>2, <2>3
<1>10. ASSUME NEW c \in Calls, CallStep(c)
       PROVE  DocumentsInv'
  BY <1>4, <1>5, <1>6, <1>7, <1>8, <1>9, <1>10, RecordDocuments DEF CallStep
<1>11. ASSUME NEW c \in Calls,
              \/ \E a \in Anchors : ConfirmEmission(c, a)
              \/ \E act \in {"recheck", "abandon"}, r \in reservations : OpenReservedAttempt(c, act, r)
       PROVE  DocumentsInv'
  <2>1. /\ UNCHANGED <<comprobantes, reservations>> /\ pc' = [pc EXCEPT ![c] = "locking"]
        /\ \E to : job' = [job EXCEPT ![c] = to]
    BY <1>11 DEF ConfirmEmission, OpenReservedAttempt, GoTo
  <2>2. ~Deciding(c)' /\ \A d \in Calls \ {c} : job'[d] = job[d]
    BY <1>1, <2>1 DEF Deciding, TypeOK
  <2> QED
    BY <1>2, <2>1, <2>2
<1>12. CASE \/ \E a \in Anchors : ObligationMoves(a)
            \/ \E q \in inFlight : ArcaAuthorizes(q) \/ ArcaRejects(q)
            \/ \E kind \in Kinds : ForeignEmission(kind)
            \/ UNCHANGED vars
  BY <1>3, <1>12 DEF ObligationMoves, ArcaAuthorizes, ArcaRejects, ForeignEmission, vars
<1> QED
  BY <1>9, <1>10, <1>11, <1>12 DEF Next

\* Nothing is recorded and nothing is decided at the start.
LEMMA StartDocuments ==
    ASSUME Init
    PROVE  DocumentsInv
<1>1. Units({}) = {} /\ Total({}) = 0
  BY FS_EmptySet DEF Units, Total
<1>2. \A a : DocumentsOf(a) = {} /\ Covers(DocumentsOf(a), 0)
  <2>1. CreditsOf({}) = {} /\ {} \ {} = {}
    BY DEF CreditsOf
  <2>2. Covers({}, 0)
    BY <1>1, <2>1 DEF Covers
  <2>3. \A a : DocumentsOf(a) = {}
    BY DEF Init, DocumentsOf
  <2> QED
    BY <2>2, <2>3
<1> QED
  BY <1>1, <1>2, FS_EmptySet DEF Init, DocumentsInv, Deciding

LEMMA DocumentsFit == Spec => []DocumentsInv
<1>1. Init => DocumentsInv
  BY StartDocuments
<1>2. IInv /\ DocumentsInv /\ [Next]_vars => DocumentsInv'
  BY DocumentsStep
<1> QED
  BY <1>1, <1>2, Inductive, PTL DEF Spec

\* An anchor is invoiced once, whoever emits it meanwhile and whatever is lost on
\* the way: the invoice planned under its lock is reserved before the lock goes.
THEOREM InvoicedOnce == Spec => []OneInvoicePerAnchor
<1>1. ASSUME IInv, DocumentsInv
      PROVE  OneInvoicePerAnchor
  <2> SUFFICES ASSUME NEW a \in Anchors
               PROVE  Cardinality({d \in AuthorizedFor(a) : d.kind = "factura_c"}) <= 1
    BY DEF OneInvoicePerAnchor
  <2> DEFINE invoices == {d \in AuthorizedFor(a) : d.kind = "factura_c"}
  <2>1. \A x, y \in invoices : x = y
    BY <1>1 DEF AuthorizedFor, DocumentsInv, Fits, Invoiced, IInv, ReservationsInv
  <2> HIDE DEF invoices
  <2>2. CASE invoices = {}
    <3>1. Cardinality(invoices) = 0
      BY <2>2, FS_EmptySet
    <3> QED
      BY <3>1 DEF invoices
  <2>3. CASE invoices # {}
    <3>1. PICK x : invoices = {x}
      BY <2>1, <2>3
    <3>2. Cardinality(invoices) = 1
      BY <3>1, FS_Singleton
    <3> QED
      BY <3>2 DEF invoices
  <2> QED
    BY <2>2, <2>3
<1> QED
  BY <1>1, Inductive, DocumentsFit, PTL

\* The credit notes authorized for an anchor never exceed its invoice and debit
\* notes, counting the one whose answer was lost.
THEOREM CreditsCovered == Spec => []CreditCeiling
<1>1. ASSUME IInv, DocumentsInv
      PROVE  CreditCeiling
  <2> SUFFICES ASSUME NEW a \in Anchors
               PROVE  Total(CreditsOf(AuthorizedFor(a))) <= Total(AuthorizedFor(a) \ CreditsOf(AuthorizedFor(a)))
    BY DEF CreditCeiling
  <2> DEFINE docs == DocumentsOf(a)
             open == {r \in reservations : r.anchor = a /\ \E d \in issued : d.att = r.id}
  <2>1. /\ IsFiniteSet(Units(docs)) /\ Covers(docs, 0)
    <3>1. IsFiniteSet(Units(comprobantes)) /\ docs \in SUBSET comprobantes
      BY <1>1 DEF DocumentsInv, DocumentsOf
    <3> QED
      BY <1>1, <3>1, SomeOf DEF DocumentsInv
  <2>2. AuthorizedFor(a) = docs \cup open
    BY DEF AuthorizedFor
  <2>3. /\ \A x, y \in open : x = y
        /\ \A r \in open : r.imp \in Nat /\ Fits(a, r.kind, r.imp)
    <3>1. \A r \in reservations : r.imp \in Nat
      BY <1>1, AmountsAssumption DEF IInv, TypeOK, Reservation
    <3> QED
      BY <1>1, <3>1 DEF IInv, ReservationsInv, DocumentsInv
  <2> HIDE DEF docs, open
  <2>4. Covers(docs \cup open, 0) /\ IsFiniteSet(Units(docs \cup open))
    <3>1. CASE open \subseteq docs
      <4>1. docs \cup open = docs
        BY <3>1
      <4> QED
        BY <2>1, <4>1
    <3>2. CASE ~ open \subseteq docs
      <4>1. PICK r \in open : r \notin docs
        BY <3>2
      <4>2. docs \cup open = docs \cup {r}
        BY <2>3, <4>1
      <4>3. Covers(docs, IF r.kind = "nota_credito_c" THEN r.imp ELSE 0)
        BY <2>1, <2>3 DEF Fits, docs
      <4>4. Covers(docs \cup {r}, 0) /\ IsFiniteSet(Units(docs \cup {r}))
        BY <2>1, <2>3, <4>1, <4>3, CoversOneMore, OneMore
      <4> QED
        BY <4>2, <4>4
    <3> QED
      BY <3>1, <3>2
  <2>5. ASSUME NEW all, IsFiniteSet(Units(all)), Covers(all, 0)
        PROVE  Total(CreditsOf(all)) <= Total(all \ CreditsOf(all))
    <3>1. CreditsOf(all) \in SUBSET all
      BY DEF CreditsOf
    <3>2. Total(CreditsOf(all)) \in Nat
      BY <2>5, <3>1, SomeOf
    <3> QED
      BY <2>5, <3>2 DEF Covers
  <2> QED
    BY <2>2, <2>4, <2>5
<1> QED
  BY <1>1, Inductive, DocumentsFit, PTL
=============================================================================
