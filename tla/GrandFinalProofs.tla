--------------------------- MODULE GrandFinalProofs ---------------------------
(***************************************************************************)
(* Proofs about GrandFinal: for any voters, codes, finalists, links and    *)
(* calls, a vote is final, a refusal tells the truth, what is public was   *)
(* decided, and the links watched at once stay within their limit.         *)
(***************************************************************************)
EXTENDS GrandFinal, TLAPS, FiniteSetTheorems

-----------------------------------------------------------------------------
\* THE INDUCTIVE INVARIANT

Voting(c) == call[c].at = "voting"

\* What a vote in flight found still holds, and nobody else is casting it.
VoteInv(c) ==
    Voting(c) => /\ call[c].identity \in Identities /\ IsOpen(call[c].round)
                 /\ CodeCounts(call[c].identity)
                 /\ vote[call[c].round][call[c].identity] = None
OneEach ==
    \A c, d \in Calls : c # d /\ Voting(c) /\ Voting(d)
       => call[c].round # call[d].round \/ call[c].identity # call[d].identity

\* What kept a vote from counting still does.
Barred(v, r, a) == \/ a \notin finalists[r] \/ closedAt[r] # Never \/ vote[r][v] # None
                   \/ v \in Codes /\ batch[BatchOf[v]] = "voided"
ExplainInv(c) ==
    call[c].at = "explaining" =>
        /\ call[c].round \in 1 .. opened /\ call[c].identity \in Identities
        /\ Barred(call[c].identity, call[c].round, call[c].academy)

\* The room a link was counted is still there: only it may take it.
RoomInv(c) == call[c].at = "inserting" /\ call[c].room => HasRoom

CallInv(c) == VoteInv(c) /\ ExplainInv(c) /\ RoomInv(c)
FinalInv == /\ PublishedIsDecided /\ LinksWithinLimit /\ OneEach
            /\ \A c \in Calls : CallInv(c)
IInv == TypeOK /\ FinalInv

-----------------------------------------------------------------------------
\* TYPES

CallTypes == [at : Places, round : 0 .. 2, academy : Academies \cup {None},
              identity : Identities \cup {None}, stamp : 0 .. MaxTime,
              link : Links \cup {None}, room : BOOLEAN]
Holder == \A c \in Calls : event = c <=> call[c].at = "inserting"
FinalTypes == /\ opened \in 0 .. 2 /\ closedAt \in [Rounds -> 0 .. MaxTime]
              /\ published \subseteq Rounds /\ finalists \in [Rounds -> SUBSET Academies]
BallotTypes == /\ vote \in [Rounds -> [Identities -> Academies \cup {None}]]
               /\ batch \in [Batches -> {"none", "issued", "voided"}]
AuditTypes == issuedAt \in [Links -> 0 .. MaxTime] /\ revoked \subseteq Links /\ now \in 0 .. MaxTime
CallsTypes == call \in [Calls -> CallTypes] /\ event \in Calls \cup {None} /\ Holder

LEMMA Types == TypeOK <=> FinalTypes /\ BallotTypes /\ AuditTypes /\ CallsTypes
BY DEF TypeOK, FinalTypes, BallotTypes, AuditTypes, CallsTypes, CallTypes, Holder

LEMMA TypesAfter ==
    ASSUME FinalTypes', BallotTypes', AuditTypes', CallsTypes'
    PROVE  TypeOK'
BY DEF TypeOK, FinalTypes, BallotTypes, AuditTypes, CallsTypes, CallTypes, Holder

LEMMA NoCallType == NoCall \in CallTypes /\ NoCall.at = "idle"
BY BoundAssumption DEF NoCall, CallTypes, Places, Never

LEMMA GoType ==
    ASSUME TypeOK, NEW c \in Calls, NEW fields \in CallTypes, Go(c, fields),
           \/ event' = event /\ call[c].at # "inserting" /\ fields.at # "inserting"
           \/ event = None /\ event' = c /\ fields.at = "inserting"
           \/ fields.at # "inserting" /\ event' = IF event = c THEN None ELSE event
    PROVE  CallsTypes'
<1>1. /\ call \in [Calls -> CallTypes] /\ event \in Calls \cup {None} /\ Holder
      /\ call' = [call EXCEPT ![c] = fields]
  BY Types DEF CallsTypes, Go
<1>2. call' \in [Calls -> CallTypes] /\ event' \in Calls \cup {None}
  BY <1>1
<1>3. Holder'
  BY <1>1, NoneAssumption DEF Holder
<1> QED
  BY <1>2, <1>3 DEF CallsTypes

\* Requests of one step, which leave the calls alone.
Request ==
    \/ \E ready \in SUBSET Academies : OpenVotingRound(ready)
    \/ OpenTieBreak \/ Publish \/ Hide
    \/ \E b \in Batches : IssueBatch(b) \/ VoidBatch(b)
    \/ \E l \in Links : RevokeLink(l)

LEMMA RequestType ==
    ASSUME TypeOK, Request
    PROVE  TypeOK'
<1>1. FinalTypes /\ BallotTypes /\ AuditTypes /\ CallsTypes
  BY Types
<1>2. CallsTypes'
  BY <1>1 DEF Request, OpenVotingRound, OpenTieBreak, Publish, Hide, IssueBatch, VoidBatch, RevokeLink,
     CallsTypes, Holder
<1>3. AuditTypes'
  BY <1>1 DEF Request, OpenVotingRound, OpenTieBreak, Publish, Hide, IssueBatch, VoidBatch, RevokeLink,
     AuditTypes, audit
<1>4. BallotTypes'
  BY <1>1 DEF Request, OpenVotingRound, OpenTieBreak, Publish, Hide, IssueBatch, VoidBatch, RevokeLink,
     BallotTypes, ballots
<1>5. FinalTypes'
  <2>1. CASE \E ready \in SUBSET Academies : OpenVotingRound(ready)
    BY <1>1, <2>1 DEF OpenVotingRound, FinalTypes, Rounds
  <2>2. CASE OpenTieBreak
    <3>1. FirstPlace(1) \in SUBSET Academies
      BY <1>1 DEF FinalTypes, FirstPlace, Rounds
    <3>2. /\ opened' = 2 /\ finalists' = [finalists EXCEPT ![2] = FirstPlace(1)]
          /\ UNCHANGED <<closedAt, published>>
      BY <2>2 DEF OpenTieBreak
    <3>3. finalists' \in [Rounds -> SUBSET Academies]
      BY <1>1, <3>1, <3>2 DEF FinalTypes
    <3> QED
      BY <1>1, <3>2, <3>3 DEF FinalTypes
  <2>3. CASE Publish \/ Hide
    <3>1. UNCHANGED <<opened, closedAt, finalists>> /\ published' \subseteq published \cup {opened}
      BY <2>3 DEF Publish, Hide
    <3>2. published' \subseteq Rounds
      <4>1. opened \in 0 .. 2 /\ published \subseteq Rounds
        BY <1>1 DEF FinalTypes
      <4>2. CASE Hide
        BY <4>1, <4>2 DEF Hide
      <4>3. CASE Publish
        <5>1. opened \in 1 .. opened
          BY <4>3 DEF Publish, Publishable, IsClosed
        <5> QED
          BY <3>1, <4>1, <5>1 DEF Rounds
      <4> QED
        BY <2>3, <4>2, <4>3
    <3> QED
      BY <1>1, <3>1, <3>2 DEF FinalTypes
  <2>4. CASE (\E b \in Batches : IssueBatch(b) \/ VoidBatch(b)) \/ \E l \in Links : RevokeLink(l)
    BY <1>1, <2>4 DEF IssueBatch, VoidBatch, RevokeLink, FinalTypes, final
  <2> QED
    BY <2>1, <2>2, <2>3, <2>4 DEF Request
<1> QED
  BY <1>2, <1>3, <1>4, <1>5, TypesAfter

\* What the calls' steps do to the calls' fields.
LEMMA StartType ==
    ASSUME TypeOK, NEW c \in Calls,
           \/ \E r \in Rounds : StartClose(c, r)
           \/ \E l \in Links : StartLink(c, l)
           \/ \E v \in Identities, r \in Rounds, a \in Academies : CastVote(c, v, r, a)
    PROVE  CallsTypes'
<1>1. CASE \E r \in Rounds : StartClose(c, r)
  <2>1. PICK r \in Rounds : StartClose(c, r)
    BY <1>1
  <2> DEFINE fields == [NoCall EXCEPT !.at = "closing", !.round = r, !.stamp = now + 1]
  <2>2. now + 1 \in 0 .. MaxTime /\ r \in 0 .. 2
    BY <2>1, BoundAssumption DEF StartClose, Stamp, TypeOK, Rounds
  <2>3. fields \in CallTypes /\ fields.at = "closing"
    BY <2>2, NoCallType DEF CallTypes, NoCall, Places
  <2>4. Go(c, fields) /\ event' = event /\ call[c].at = "idle"
    BY <2>1 DEF StartClose, Begin, Go
  <2> HIDE DEF fields
  <2> QED
    BY <2>3, <2>4, GoType
<1>2. CASE \E l \in Links : StartLink(c, l)
  <2>1. PICK l \in Links : StartLink(c, l)
    BY <1>2
  <2> DEFINE fields == [NoCall EXCEPT !.at = "linking", !.link = l, !.stamp = now + 1]
  <2>2. now + 1 \in 0 .. MaxTime
    <3>1. now < MaxTime /\ now \in 0 .. MaxTime
      BY <2>1 DEF StartLink, Stamp, TypeOK
    <3> QED
      BY <3>1, BoundAssumption
  <2>3. fields \in CallTypes /\ fields.at = "linking"
    BY <2>2, NoCallType DEF CallTypes, NoCall, Places
  <2>4. Go(c, fields) /\ event' = event /\ call[c].at = "idle"
    BY <2>1 DEF StartLink, Begin, Go
  <2> HIDE DEF fields
  <2> QED
    BY <2>3, <2>4, GoType
<1>3. CASE \E v \in Identities, r \in Rounds, a \in Academies : CastVote(c, v, r, a)
  <2>1. PICK v \in Identities, r \in Rounds, a \in Academies : CastVote(c, v, r, a)
    BY <1>3
  <2> DEFINE place == IF Countable(v, r, a) THEN "voting" ELSE "explaining"
             fields == [NoCall EXCEPT !.at = place, !.round = r, !.academy = a, !.identity = v]
  <2>2. Go(c, fields) /\ event' = event /\ call[c].at = "idle"
    BY <2>1 DEF CastVote, Begin, Go
  <2>3. place \in {"voting", "explaining"}
    OBVIOUS
  <2> HIDE DEF place
  <2>4. fields \in CallTypes /\ fields.at = place
    <3>1. r \in 0 .. 2 /\ place \in Places
      BY <2>3 DEF Rounds, Places
    <3> QED
      BY <3>1, NoCallType DEF CallTypes, NoCall
  <2> HIDE DEF fields
  <2> QED
    BY <2>2, <2>3, <2>4, GoType
<1> QED
  BY <1>1, <1>2, <1>3

Ending(c) == \/ Close(c) \/ CloseNotOpen(c) \/ CommitVote(c) \/ Explain(c) \/ InsertLink(c) \/ Abandon(c)

LEMMA EndingType ==
    ASSUME TypeOK, NEW c \in Calls, Ending(c)
    PROVE  CallsTypes'
<1>1. Go(c, NoCall) /\ event' = (IF event = c THEN None ELSE event)
  BY DEF Ending, Close, CloseNotOpen, CommitVote, Explain, InsertLink, Abandon, End, Go, TypeOK
<1> QED
  BY <1>1, NoCallType, GoType

LEMMA CountType ==
    ASSUME TypeOK, NEW c \in Calls, CountLinks(c)
    PROVE  CallsTypes'
<1> DEFINE room == HasRoom
           fields == [call[c] EXCEPT !.at = "inserting", !.room = room]
<1>1. Go(c, fields) /\ event = None /\ event' = c /\ call[c] \in CallTypes
  BY Types DEF CountLinks, EventFree, CallsTypes
<1>2. room \in BOOLEAN
  BY DEF HasRoom
<1> HIDE DEF room
<1>3. fields \in CallTypes /\ fields.at = "inserting"
  BY <1>1, <1>2 DEF CallTypes, Places
<1> HIDE DEF fields
<1> QED
  BY <1>1, <1>3, GoType

LEMMA TypeStep ==
    ASSUME TypeOK, [Next]_vars
    PROVE  TypeOK'
<1>1. FinalTypes /\ BallotTypes /\ AuditTypes /\ CallsTypes
  BY Types
<1>2. CASE UNCHANGED vars
  BY <1>2 DEF vars, final, ballots, audit, TypeOK
<1>3. CASE Request
  BY <1>3, RequestType
<1>4. ASSUME NEW c \in Calls,
             \/ Ending(c) \/ CountLinks(c)
             \/ \E r \in Rounds : StartClose(c, r)
             \/ \E l \in Links : StartLink(c, l)
             \/ \E v \in Identities, r \in Rounds, a \in Academies : CastVote(c, v, r, a)
      PROVE  TypeOK'
  <2>1. CallsTypes'
    BY <1>4, StartType, EndingType, CountType
  <2>2. call[c] \in CallTypes
    BY <1>1 DEF CallsTypes
  <2>3. FinalTypes'
    <3>1. CASE Close(c)
      BY <1>1, <2>2, <3>1 DEF Close, FinalTypes, CallTypes
    <3>2. CASE ~Close(c)
      BY <1>1, <1>4, <3>2 DEF Ending, CloseNotOpen, CommitVote, Explain, InsertLink, Abandon, CountLinks,
         StartClose, StartLink, CastVote, FinalTypes, final
    <3> QED
      BY <3>1, <3>2
  <2>4. BallotTypes'
    <3>1. CASE CommitVote(c)
      BY <1>1, <2>2, <3>1 DEF CommitVote, BallotTypes, CallTypes
    <3>2. CASE ~CommitVote(c)
      BY <1>1, <1>4, <3>2 DEF Ending, Close, CloseNotOpen, Explain, InsertLink, Abandon, CountLinks,
         StartClose, StartLink, CastVote, BallotTypes, ballots
    <3> QED
      BY <3>1, <3>2
  <2>5. AuditTypes'
    <3>1. CASE InsertLink(c)
      BY <1>1, <2>2, <3>1 DEF InsertLink, AuditTypes, CallTypes
    <3>2. CASE ~InsertLink(c)
      <4>1. UNCHANGED audit /\ (now' = now \/ Stamp)
        BY <1>4, <3>2 DEF Ending, Close, CloseNotOpen, CommitVote, Explain, Abandon, CountLinks, StartClose,
           StartLink, CastVote
      <4>2. now' \in 0 .. MaxTime
        BY <1>1, <4>1, BoundAssumption DEF AuditTypes, Stamp
      <4> QED
        BY <1>1, <4>1, <4>2 DEF AuditTypes, audit
    <3> QED
      BY <3>1, <3>2
  <2> QED
    BY <2>1, <2>3, <2>4, <2>5, TypesAfter
<1> QED
  BY <1>2, <1>3, <1>4 DEF Next, Request, Ending

-----------------------------------------------------------------------------
\* WHAT A RESULT AND A LIMIT REST ON

\* The outcome of a round is its finalists' and its votes'.
LEMMA OutcomeRestsOnVotes ==
    ASSUME NEW r, vote'[r] = vote[r], finalists'[r] = finalists[r]
    PROVE  Outcome(r)' = Outcome(r)
<1>1. ASSUME NEW a
      PROVE  CodeVotes(r, a)' = CodeVotes(r, a) /\ Points(r, a)' = Points(r, a)
  BY DEF CodeVotes, Points
<1>2. ASSUME NEW a, NEW b
      PROVE  Beats(r, a, b)' <=> Beats(r, a, b)
  BY <1>1 DEF Beats
<1>3. FirstPlace(r)' = FirstPlace(r)
  BY <1>2 DEF FirstPlace
<1> QED
  BY <1>3 DEF Outcome

LEMMA LinksAreFinite ==
    IsFiniteSet(LiveLinks) /\ Cardinality(LiveLinks) \in Nat
BY BoundAssumption, FS_Subset, FS_CardinalityType DEF LiveLinks

\* When no link comes to life, there is as much room as before.
LEMMA FewerLinks ==
    ASSUME LiveLinks' \subseteq LiveLinks
    PROVE  (HasRoom => HasRoom') /\ (LinksWithinLimit => LinksWithinLimit')
<1>1. Cardinality(LiveLinks') <= Cardinality(LiveLinks) /\ Cardinality(LiveLinks') \in Nat
  BY LinksAreFinite, FS_Subset, FS_CardinalityType
<1> QED
  BY <1>1, LinksAreFinite, BoundAssumption DEF HasRoom, LinksWithinLimit

-----------------------------------------------------------------------------
\* STEPS

Tables == <<opened, closedAt, published, finalists, vote, batch, issuedAt, revoked>>

\* A call alone moves: what it now knows is all there is to show.
LEMMA CallOnlyStep ==
    ASSUME IInv, NEW c \in Calls, UNCHANGED Tables, \A d \in Calls \ {c} : call'[d] = call[d],
           CallInv(c)',
           \A d \in Calls \ {c} : Voting(c)' /\ Voting(d)
              => call'[c].round # call[d].round \/ call'[c].identity # call[d].identity
    PROVE  FinalInv'
<1>1. PublishedIsDecided'
  BY OutcomeRestsOnVotes DEF IInv, FinalInv, PublishedIsDecided, IsClosed, Tables
<1>2. LiveLinks' = LiveLinks
  BY DEF LiveLinks, ClosedSince, Tables
<1>3. LinksWithinLimit' /\ (HasRoom => HasRoom')
  BY <1>2, FewerLinks DEF IInv, FinalInv
<1>4. OneEach'
  BY DEF IInv, FinalInv, OneEach, Voting
<1>5. ASSUME NEW d \in Calls \ {c}
      PROVE  CallInv(d)'
  <2>1. CallInv(d) /\ call'[d] = call[d]
    BY DEF IInv, FinalInv
  <2> QED
    BY <1>3, <2>1 DEF CallInv, VoteInv, ExplainInv, RoomInv, Voting, IsOpen, CodeCounts, Barred, Tables
<1> QED
  BY <1>1, <1>3, <1>4, <1>5 DEF FinalInv

\* Requests of one step: a round opens after the last, a result is published or
\* hidden, a batch changes with no vote of its own in flight, a link is revoked.
LEMMA CallsKeep ==
    ASSUME IInv, call' = call, UNCHANGED <<closedAt, vote>>, HasRoom => HasRoom',
           opened' \in Nat, opened <= opened',
           \A r \in 1 .. opened : finalists'[r] = finalists[r],
           \A b \in Batches : batch'[b] = batch[b] \/ batch[b] = "none"
              \/ (batch'[b] = "voided" /\ InFlightOf(b) = {})
    PROVE  OneEach' /\ \A c \in Calls : CallInv(c)'
<1>1. OneEach'
  BY DEF IInv, FinalInv, OneEach, Voting
<1>2. opened \in Nat /\ \A r \in 1 .. opened : r \in 1 .. opened'
  BY Types DEF IInv, FinalTypes
<1>3. ASSUME NEW c \in Calls
      PROVE  CallInv(c)'
  <2>1. VoteInv(c) /\ ExplainInv(c) /\ RoomInv(c)
    BY DEF IInv, FinalInv, CallInv
  <2>2. VoteInv(c)'
    <3> SUFFICES ASSUME Voting(c)
                 PROVE  VoteInv(c)'
      BY DEF VoteInv, Voting
    <3> DEFINE v == call[c].identity
    <3>1. v \in Identities /\ IsOpen(call[c].round) /\ CodeCounts(v) /\ vote[call[c].round][v] = None
      BY <2>1 DEF VoteInv
    <3>2. CodeCounts(v)'
      <4> SUFFICES ASSUME v \in Codes
                   PROVE  batch'[BatchOf[v]] = "issued"
        BY DEF CodeCounts
      <4>1. BatchOf[v] \in Batches /\ batch[BatchOf[v]] = "issued"
        BY <3>1, IdentityAssumption DEF CodeCounts
      <4>2. c \in InFlightOf(BatchOf[v])
        BY DEF InFlightOf, Voting
      <4> QED
        BY <4>1, <4>2
    <3> QED
      BY <1>2, <3>1, <3>2 DEF VoteInv, Voting, IsOpen
  <2>3. ExplainInv(c)'
    <3> SUFFICES ASSUME call[c].at = "explaining"
                 PROVE  ExplainInv(c)'
      BY DEF ExplainInv
    <3> DEFINE v == call[c].identity
    <3>1. /\ call[c].round \in 1 .. opened /\ v \in Identities
          /\ Barred(v, call[c].round, call[c].academy)
      BY <2>1 DEF ExplainInv
    <3>2. v \in Codes /\ batch[BatchOf[v]] = "voided" => batch'[BatchOf[v]] = "voided"
      BY IdentityAssumption
    <3> QED
      BY <1>2, <3>1, <3>2 DEF ExplainInv, Barred
  <2>4. RoomInv(c)'
    BY <2>1 DEF RoomInv
  <2> QED
    BY <2>2, <2>3, <2>4 DEF CallInv
<1> QED
  BY <1>1, <1>3

LEMMA RequestStep ==
    ASSUME IInv, Request
    PROVE  FinalInv'
<1>1. /\ FinalTypes /\ PublishedIsDecided /\ LinksWithinLimit /\ call' = call
      /\ UNCHANGED <<closedAt, vote, issuedAt>>
  BY Types DEF IInv, FinalInv, Request, OpenVotingRound, OpenTieBreak, Publish, Hide, IssueBatch, VoidBatch,
     RevokeLink, ballots, audit, final
<1>2. /\ opened' \in Nat /\ opened <= opened' /\ \A r \in 1 .. opened : finalists'[r] = finalists[r]
      /\ revoked \subseteq revoked'
  <2>1. CASE \E ready \in SUBSET Academies : OpenVotingRound(ready)
    <3>1. opened = 0 /\ opened' = 1 /\ revoked' = revoked
      BY <2>1 DEF OpenVotingRound, audit
    <3> QED
      BY <3>1
  <2>2. CASE OpenTieBreak
    <3>1. /\ opened = 1 /\ opened' = 2 /\ revoked' = revoked
          /\ finalists' = [finalists EXCEPT ![2] = FirstPlace(1)]
      BY <2>2 DEF OpenTieBreak, TieToBreak, audit
    <3> QED
      BY <1>1, <3>1 DEF FinalTypes, Rounds
  <2>3. CASE UNCHANGED <<opened, finalists>> /\ revoked \subseteq revoked'
    BY <1>1, <2>3 DEF FinalTypes
  <2> QED
    BY <2>1, <2>2, <2>3 DEF Request, Publish, Hide, IssueBatch, VoidBatch, RevokeLink, audit, final
<1>3. \A b \in Batches : batch'[b] = batch[b] \/ batch[b] = "none"
         \/ (batch'[b] = "voided" /\ InFlightOf(b) = {})
  <2>1. CASE UNCHANGED batch
    BY <2>1
  <2>2. CASE \E b \in Batches : IssueBatch(b) \/ VoidBatch(b)
    BY <2>2, Types DEF IssueBatch, VoidBatch, IInv, BallotTypes
  <2> QED
    BY <2>1, <2>2 DEF Request, OpenVotingRound, OpenTieBreak, Publish, Hide, RevokeLink, ballots
<1>4. LiveLinks' \subseteq LiveLinks
  BY <1>1, <1>2 DEF LiveLinks, ClosedSince, FinalTypes
<1>5. LinksWithinLimit' /\ (HasRoom => HasRoom')
  BY <1>1, <1>4, FewerLinks
<1>6. OneEach' /\ \A c \in Calls : CallInv(c)'
  BY <1>1, <1>2, <1>3, <1>5, CallsKeep
<1>7. PublishedIsDecided'
  <2>1. CASE \E ready \in SUBSET Academies : OpenVotingRound(ready)
    <3>1. published = {}
      BY <1>1, <2>1 DEF OpenVotingRound, PublishedIsDecided, IsClosed
    <3> QED
      BY <2>1, <3>1 DEF OpenVotingRound, PublishedIsDecided
  <2>2. CASE OpenTieBreak
    <3>1. published = {}
      BY <1>1, <2>2 DEF OpenTieBreak, TieToBreak, PublishedIsDecided
    <3> QED
      BY <2>2, <3>1 DEF OpenTieBreak, PublishedIsDecided
  <2>3. CASE Publish \/ Hide
    <3>1. UNCHANGED <<opened, closedAt, finalists, vote>>
      BY <1>1, <2>3 DEF Publish, Hide
    <3>2. \A r : (Outcome(r)' = Outcome(r)) /\ (IsClosed(r)' <=> IsClosed(r))
      BY <3>1, OutcomeRestsOnVotes DEF IsClosed
    <3> QED
      BY <1>1, <2>3, <3>1, <3>2 DEF Publish, Hide, Publishable, PublishedIsDecided
  <2>4. CASE UNCHANGED <<opened, closedAt, published, finalists>>
    BY <1>1, <2>4, OutcomeRestsOnVotes DEF PublishedIsDecided, IsClosed
  <2> QED
    BY <2>1, <2>2, <2>3, <2>4 DEF Request, IssueBatch, VoidBatch, RevokeLink, final
<1> QED
  BY <1>5, <1>6, <1>7 DEF FinalInv

\* A call that is at none of these three places has nothing to keep.
LEMMA ElsewhereHolds ==
    ASSUME NEW c, call[c].at \notin {"voting", "explaining", "inserting"}
    PROVE  CallInv(c) /\ ~Voting(c)
BY DEF CallInv, VoteInv, ExplainInv, RoomInv, Voting

LEMMA QuietCallStep ==
    ASSUME IInv, NEW c \in Calls,
           \/ CloseNotOpen(c) \/ Explain(c) \/ Abandon(c)
           \/ \E r \in Rounds : StartClose(c, r)
           \/ \E l \in Links : StartLink(c, l)
    PROVE  FinalInv'
<1>1. UNCHANGED Tables
  BY DEF CloseNotOpen, Explain, Abandon, StartClose, StartLink, Tables, final, ballots, audit
<1>2. call \in [Calls -> CallTypes]
  BY Types DEF IInv, CallsTypes
<1>3. \A d \in Calls \ {c} : call'[d] = call[d]
  BY <1>2 DEF CloseNotOpen, Explain, Abandon, StartClose, StartLink, End, Begin
<1>4. call'[c].at \in {"idle", "closing", "linking"}
  <2>1. CASE CloseNotOpen(c) \/ Explain(c) \/ Abandon(c)
    BY <1>2, <2>1 DEF CloseNotOpen, Explain, Abandon, End, NoCall
  <2>2. CASE \E r \in Rounds : StartClose(c, r)
    BY <1>2, <2>2 DEF StartClose, Begin, NoCall
  <2>3. CASE \E l \in Links : StartLink(c, l)
    BY <1>2, <2>3 DEF StartLink, Begin, NoCall
  <2> QED
    BY <2>1, <2>2, <2>3
<1>5. CallInv(c)' /\ ~Voting(c)'
  BY <1>4 DEF CallInv, VoteInv, ExplainInv, RoomInv, Voting
<1> QED
  BY <1>1, <1>3, <1>5, CallOnlyStep

\* A vote is cast on what it finds, or explained by what it found.
LEMMA CastVoteStep ==
    ASSUME IInv, NEW c \in Calls, NEW v \in Identities, NEW r \in Rounds, NEW a \in Academies,
           CastVote(c, v, r, a)
    PROVE  FinalInv'
<1> DEFINE place == IF Countable(v, r, a) THEN "voting" ELSE "explaining"
<1>1. /\ r \in 1 .. opened /\ Printed(v) /\ ~(Countable(v, r, a) /\ Waits(v, r))
      /\ call' = [call EXCEPT ![c] = [NoCall EXCEPT !.at = place, !.round = r, !.academy = a, !.identity = v]]
      /\ UNCHANGED Tables
  BY DEF CastVote, Begin, Tables, final, ballots, audit
<1>2. /\ call'[c].at = place /\ call'[c].round = r /\ call'[c].academy = a /\ call'[c].identity = v
      /\ \A d \in Calls \ {c} : call'[d] = call[d]
  <2> HIDE DEF place
  <2> QED
    BY <1>1, Types DEF IInv, CallsTypes, NoCall
<1>3. CASE Countable(v, r, a)
  <2>1. \A d \in Calls : Voting(d) => call[d].round # r \/ call[d].identity # v
    BY <1>1, <1>3 DEF Waits, InFlight, Voting
  <2>2. CallInv(c)'
    BY <1>1, <1>2, <1>3 DEF Countable, CallInv, VoteInv, ExplainInv, RoomInv, Voting, IsOpen, CodeCounts, Tables
  <2> QED
    BY <1>1, <1>2, <2>1, <2>2, CallOnlyStep
<1>4. CASE ~Countable(v, r, a)
  <2>1. Barred(v, r, a)
    <3>1. v \in Codes => batch[BatchOf[v]] \in {"issued", "voided"}
      BY <1>1, Types, IdentityAssumption DEF Printed, IInv, BallotTypes
    <3> QED
      BY <1>1, <1>4, <3>1 DEF Countable, IsOpen, CodeCounts, Barred
  <2>2. CallInv(c)' /\ ~Voting(c)'
    BY <1>1, <1>2, <1>4, <2>1 DEF CallInv, VoteInv, ExplainInv, RoomInv, Voting, Barred, Tables
  <2> QED
    BY <1>1, <1>2, <2>2, CallOnlyStep
<1> QED
  BY <1>3, <1>4

LEMMA CountLinksStep ==
    ASSUME IInv, NEW c \in Calls, CountLinks(c)
    PROVE  FinalInv'
<1> DEFINE room == HasRoom
<1>1. /\ call' = [call EXCEPT ![c] = [call[c] EXCEPT !.at = "inserting", !.room = room]]
      /\ UNCHANGED Tables /\ call \in [Calls -> CallTypes]
  BY Types DEF CountLinks, Go, Tables, final, ballots, audit, IInv, CallsTypes
<1>2. call'[c].at = "inserting" /\ call'[c].room = room /\ \A d \in Calls \ {c} : call'[d] = call[d]
  <2> HIDE DEF room
  <2> QED
    BY <1>1 DEF CallTypes
<1>3. room => HasRoom'
  BY <1>1, FewerLinks DEF LiveLinks, ClosedSince, Tables
<1>4. CallInv(c)' /\ ~Voting(c)'
  BY <1>2, <1>3 DEF CallInv, VoteInv, ExplainInv, RoomInv, Voting
<1> QED
  BY <1>1, <1>2, <1>4, CallOnlyStep

\* What a call that ends may have written leaves the others what they know.
LEMMA WriteStep ==
    ASSUME IInv, NEW c \in Calls, \A d \in Calls \ {c} : call'[d] = call[d], call'[c] = NoCall,
           PublishedIsDecided', LinksWithinLimit', \A d \in Calls \ {c} : CallInv(d)'
    PROVE  FinalInv'
<1>1. CallInv(c)' /\ ~Voting(c)'
  BY DEF CallInv, VoteInv, ExplainInv, RoomInv, Voting, NoCall
<1>2. OneEach'
  BY <1>1 DEF IInv, FinalInv, OneEach, Voting
<1> QED
  BY <1>1, <1>2 DEF FinalInv

\* A round closes with no vote of its own in flight.
LEMMA CloseStep ==
    ASSUME IInv, NEW c \in Calls, Close(c)
    PROVE  FinalInv'
<1> DEFINE q == call[c].round
<1>1. /\ IsOpen(q) /\ InFlight(q) = {} /\ closedAt' = [closedAt EXCEPT ![q] = call[c].stamp]
      /\ UNCHANGED <<opened, published, finalists, vote, batch, issuedAt, revoked>>
      /\ call[c].stamp \in Nat /\ FinalTypes /\ AuditTypes
  BY Types, BoundAssumption DEF Close, ballots, audit, IInv, CallsTypes, CallTypes
<1>2. call' = [call EXCEPT ![c] = NoCall] /\ call \in [Calls -> CallTypes]
  BY Types DEF Close, End, IInv, CallsTypes
<1>3. call'[c] = NoCall /\ \A d \in Calls \ {c} : call'[d] = call[d]
  BY <1>2
<1>4. \A r \in Rounds : closedAt[r] # Never => closedAt'[r] = closedAt[r]
  BY <1>1 DEF IsOpen, FinalTypes
<1>5. PublishedIsDecided'
  <2>1. \A r \in published : r \in Rounds /\ closedAt'[r] = closedAt[r]
    BY <1>1, <1>4 DEF IInv, FinalInv, PublishedIsDecided, IsClosed, FinalTypes
  <2> QED
    BY <1>1, <2>1, OutcomeRestsOnVotes DEF IInv, FinalInv, PublishedIsDecided, IsClosed
<1>6. LiveLinks' \subseteq LiveLinks
  <2>1. \A l \in Links : ClosedSince(issuedAt[l]) \subseteq ClosedSince(issuedAt[l])'
    <3> TAKE l \in Links
    <3>1. \A r \in 1 .. opened : r \in Rounds /\ closedAt[r] \in Nat
      BY <1>1, BoundAssumption DEF FinalTypes, Rounds
    <3>2. issuedAt[l] \in Nat
      BY <1>1, BoundAssumption DEF AuditTypes
    <3>3. \A r \in 1 .. opened : closedAt[r] > issuedAt[l] => closedAt'[r] = closedAt[r]
      BY <1>4, <3>1, <3>2 DEF Never
    <3> QED
      BY <1>1, <3>3 DEF ClosedSince
  <2> QED
    BY <1>1, <2>1 DEF LiveLinks
<1>7. LinksWithinLimit' /\ (HasRoom => HasRoom')
  BY <1>6, FewerLinks DEF IInv, FinalInv
<1>8. ASSUME NEW d \in Calls \ {c}
      PROVE  CallInv(d)'
  <2>1. CallInv(d) /\ call'[d] = call[d]
    BY <1>3 DEF IInv, FinalInv
  <2>2. VoteInv(d)'
    <3>1. Voting(d) => call[d].round # q
      BY <1>1 DEF InFlight, Voting
    <3> QED
      BY <1>1, <2>1, <3>1 DEF CallInv, VoteInv, Voting, IsOpen, CodeCounts, FinalTypes
  <2>3. ExplainInv(d)'
    <3>1. \A r \in 1 .. opened : r \in Rounds
      BY <1>1 DEF FinalTypes, Rounds
    <3> QED
      BY <1>1, <1>4, <2>1, <3>1 DEF CallInv, ExplainInv, Barred
  <2>4. RoomInv(d)'
    BY <1>7, <2>1 DEF CallInv, RoomInv
  <2> QED
    BY <2>2, <2>3, <2>4 DEF CallInv
<1> QED
  BY <1>3, <1>5, <1>7, <1>8, WriteStep

\* A vote lands in an open round, where nothing stood.
LEMMA CommitVoteStep ==
    ASSUME IInv, NEW c \in Calls, CommitVote(c)
    PROVE  FinalInv'
<1> DEFINE q == call[c].round
           v == call[c].identity
<1>1. /\ Voting(c) /\ IsOpen(q) /\ v \in Identities /\ vote[q][v] = None
      /\ vote' = [vote EXCEPT ![q][v] = call[c].academy]
      /\ UNCHANGED <<opened, closedAt, published, finalists, batch, issuedAt, revoked>>
      /\ FinalTypes /\ BallotTypes /\ q \in Rounds
  <2>1. Voting(c) /\ FinalTypes /\ BallotTypes /\ VoteInv(c)
    BY Types DEF CommitVote, Voting, IInv, FinalInv, CallInv
  <2>2. IsOpen(q) /\ v \in Identities /\ vote[q][v] = None
    BY <2>1 DEF VoteInv
  <2>3. q \in Rounds
    BY <2>1, <2>2 DEF IsOpen, FinalTypes, Rounds
  <2> QED
    BY <2>1, <2>2, <2>3 DEF CommitVote, final, audit
<1>2. call' = [call EXCEPT ![c] = NoCall] /\ call \in [Calls -> CallTypes]
  BY Types DEF CommitVote, End, IInv, CallsTypes
<1>3. call'[c] = NoCall /\ \A d \in Calls \ {c} : call'[d] = call[d]
  BY <1>2
<1>4. /\ \A r \in Rounds : r # q => vote'[r] = vote[r]
      /\ \A r \in Rounds, w \in Identities : (r # q \/ w # v) => vote'[r][w] = vote[r][w]
  BY <1>1 DEF BallotTypes
<1>5. PublishedIsDecided'
  <2>1. \A r \in published : r \in Rounds /\ r # q
    BY <1>1 DEF IInv, FinalInv, PublishedIsDecided, IsClosed, IsOpen, FinalTypes
  <2>2. \A r \in published : Outcome(r)' = Outcome(r)
    BY <1>1, <1>4, <2>1, OutcomeRestsOnVotes
  <2> QED
    BY <1>1, <2>2 DEF IInv, FinalInv, PublishedIsDecided, IsClosed
<1>6. LinksWithinLimit' /\ (HasRoom => HasRoom')
  BY <1>1, FewerLinks DEF LiveLinks, ClosedSince, IInv, FinalInv
<1>7. ASSUME NEW d \in Calls \ {c}
      PROVE  CallInv(d)'
  <2>1. CallInv(d) /\ call'[d] = call[d] /\ \A r \in 1 .. opened : r \in Rounds
    BY <1>1, <1>3 DEF IInv, FinalInv, FinalTypes, Rounds
  <2>2. VoteInv(d)'
    <3>1. Voting(d) => call[d].round # q \/ call[d].identity # v
      BY <1>1 DEF IInv, FinalInv, OneEach
    <3> QED
      BY <1>1, <1>4, <2>1, <3>1 DEF CallInv, VoteInv, Voting, IsOpen, CodeCounts
  <2>3. ExplainInv(d)'
    BY <1>1, <1>4, <2>1 DEF CallInv, ExplainInv, Barred
  <2>4. RoomInv(d)'
    BY <1>6, <2>1 DEF CallInv, RoomInv
  <2> QED
    BY <2>2, <2>3, <2>4 DEF CallInv
<1> QED
  BY <1>3, <1>5, <1>6, <1>7, WriteStep

\* Adding an element to a finite set adds at most one to its cardinality.
LEMMA OneMore ==
    ASSUME NEW S, IsFiniteSet(S), NEW x
    PROVE  /\ IsFiniteSet(S \cup {x})
           /\ Cardinality(S \cup {x}) \in Nat
           /\ Cardinality(S \cup {x}) <= Cardinality(S) + 1
<1>1. IsFiniteSet(S \cup {x}) /\ Cardinality(S) \in Nat
  BY FS_AddElement, FS_CardinalityType
<1>2. Cardinality(S \cup {x}) \in Nat
  BY <1>1, FS_CardinalityType
<1>3. Cardinality(S \cup {x}) = Cardinality(S) \/ Cardinality(S \cup {x}) = Cardinality(S) + 1
  <2>1. CASE x \in S
    <3>1. S \cup {x} = S
      BY <2>1
    <3> QED
      BY <3>1
  <2>2. CASE x \notin S
    BY <2>2, FS_AddElement
  <2> QED
    BY <2>1, <2>2
<1> QED
  BY <1>1, <1>2, <1>3

\* The one call that holds the event takes the room it counted.
LEMMA InsertLinkStep ==
    ASSUME IInv, NEW c \in Calls, InsertLink(c)
    PROVE  FinalInv'
<1>1. /\ call[c].at = "inserting" /\ RoomInv(c) /\ LinksWithinLimit
      /\ issuedAt' = (IF call[c].room THEN [issuedAt EXCEPT ![call[c].link] = call[c].stamp] ELSE issuedAt)
      /\ UNCHANGED <<opened, closedAt, published, finalists, vote, batch, revoked>> /\ AuditTypes
  BY Types DEF InsertLink, final, ballots, IInv, FinalInv, CallInv
<1>2. call' = [call EXCEPT ![c] = NoCall] /\ call \in [Calls -> CallTypes] /\ Holder
  BY Types DEF InsertLink, End, IInv, CallsTypes
<1>3. call'[c] = NoCall /\ \A d \in Calls \ {c} : call'[d] = call[d] /\ call[d].at # "inserting"
  BY <1>1, <1>2 DEF Holder
<1>4. PublishedIsDecided'
  BY <1>1, OutcomeRestsOnVotes DEF IInv, FinalInv, PublishedIsDecided, IsClosed
<1>5. LinksWithinLimit'
  <2>1. CASE ~call[c].room
    BY <1>1, <2>1, FewerLinks DEF LiveLinks, ClosedSince
  <2>2. CASE call[c].room
    <3>1. LiveLinks' \subseteq LiveLinks \cup {call[c].link}
      BY <1>1, <2>2 DEF LiveLinks, ClosedSince, AuditTypes
    <3>2. /\ IsFiniteSet(LiveLinks \cup {call[c].link})
          /\ Cardinality(LiveLinks \cup {call[c].link}) <= Cardinality(LiveLinks) + 1
          /\ Cardinality(LiveLinks \cup {call[c].link}) \in Nat
      BY LinksAreFinite, OneMore
    <3>3. Cardinality(LiveLinks') <= Cardinality(LiveLinks \cup {call[c].link}) /\ Cardinality(LiveLinks') \in Nat
      BY <3>1, <3>2, FS_Subset, FS_CardinalityType
    <3>4. Cardinality(LiveLinks) < MaxActiveAuditLinks
      BY <1>1, <2>2 DEF RoomInv, HasRoom
    <3> QED
      BY <3>2, <3>3, <3>4, LinksAreFinite, BoundAssumption DEF LinksWithinLimit
  <2> QED
    BY <2>1, <2>2
<1>6. ASSUME NEW d \in Calls \ {c}
      PROVE  CallInv(d)'
  <2>1. CallInv(d) /\ call'[d] = call[d] /\ call[d].at # "inserting"
    BY <1>3 DEF IInv, FinalInv
  <2> QED
    BY <1>1, <2>1 DEF CallInv, VoteInv, ExplainInv, RoomInv, Voting, IsOpen, CodeCounts, Barred
<1> QED
  BY <1>3, <1>4, <1>5, <1>6, WriteStep

\* The invariant holds in every state, however the calls and their steps interleave.
THEOREM Inductive == Spec => []IInv
<1>1. Init => IInv
  <2> SUFFICES ASSUME Init
               PROVE  IInv
    OBVIOUS
  <2>1. TypeOK
    <3>1. FinalTypes /\ BallotTypes /\ AuditTypes
      BY BoundAssumption DEF Init, FinalTypes, BallotTypes, AuditTypes, Never
    <3>2. CallsTypes
      BY NoCallType, NoneAssumption DEF Init, CallsTypes, Holder
    <3> QED
      BY <3>1, <3>2, Types
  <2>2. LinksWithinLimit
    <3>1. LiveLinks = {}
      BY DEF Init, LiveLinks
    <3> QED
      BY <3>1, FS_EmptySet, BoundAssumption DEF LinksWithinLimit
  <2>3. PublishedIsDecided /\ OneEach /\ \A c \in Calls : CallInv(c)
    BY NoCallType DEF Init, PublishedIsDecided, OneEach, CallInv, VoteInv, ExplainInv, RoomInv, Voting
  <2> QED
    BY <2>1, <2>2, <2>3 DEF IInv, FinalInv
<1>2. IInv /\ [Next]_vars => IInv'
  <2> SUFFICES ASSUME IInv, [Next]_vars
               PROVE  FinalInv'
    BY TypeStep DEF IInv
  <2>1. CASE UNCHANGED vars
    <3>1. UNCHANGED Tables /\ call' = call
      BY <2>1 DEF vars, Tables, final, ballots, audit
    <3>2. LinksWithinLimit' /\ (HasRoom => HasRoom')
      BY <3>1, FewerLinks DEF LiveLinks, ClosedSince, Tables, IInv, FinalInv
    <3>3. PublishedIsDecided' /\ OneEach'
      BY <3>1, OutcomeRestsOnVotes DEF IInv, FinalInv, PublishedIsDecided, IsClosed, OneEach, Voting, Tables
    <3>4. \A c \in Calls : CallInv(c)'
      BY <3>1, <3>2 DEF IInv, FinalInv, CallInv, VoteInv, ExplainInv, RoomInv, Voting, IsOpen, CodeCounts,
         Barred, Tables
    <3> QED
      BY <3>2, <3>3, <3>4 DEF FinalInv
  <2>2. CASE Request
    BY <2>2, RequestStep
  <2> QED
    BY <2>1, <2>2, QuietCallStep, CastVoteStep, CountLinksStep, CloseStep, CommitVoteStep, InsertLinkStep
       DEF Next, Request
<1> QED
  BY <1>1, <1>2, PTL DEF Spec

-----------------------------------------------------------------------------
\* THE THEOREMS

\* The state of the final and of its calls keeps its types.
THEOREM TypeCorrect == Spec => []TypeOK
<1>1. IInv => TypeOK
  BY DEF IInv
<1> QED
  BY <1>1, Inductive, PTL

\* What is public is the last round's, closed and decided (publishGrandFinalResult).
THEOREM PublicIsDecided == Spec => []PublishedIsDecided
<1>1. IInv => PublishedIsDecided
  BY DEF IInv, FinalInv
<1> QED
  BY <1>1, Inductive, PTL

\* Live audit links stay within their limit, however links are issued and rounds
\* close at once (createAuditLink).
THEOREM LinksAreLimited == Spec => []LinksWithinLimit
<1>1. IInv => LinksWithinLimit
  BY DEF IInv, FinalInv
<1> QED
  BY <1>1, Inductive, PTL

\* A voter told that the academy is no finalist did name one that is none
\* (explainUncastVote).
THEOREM RefusalsAreTrue == Spec => []RefusalIsTrue
<1>1. IInv => RefusalIsTrue
  <2> SUFFICES ASSUME IInv, NEW c \in Calls, call[c].at = "explaining", Reason(c) = "not-finalist"
               PROVE  call[c].academy \notin finalists[call[c].round]
    BY DEF RefusalIsTrue
  <2> DEFINE v == call[c].identity
             r == call[c].round
  <2>1. r \in 1 .. opened /\ Barred(v, r, call[c].academy)
    BY DEF IInv, FinalInv, CallInv, ExplainInv
  <2>2. IsOpen(r) /\ vote[r][v] = None /\ ~(v \in Codes /\ batch[BatchOf[v]] = "voided")
    BY DEF Reason
  <2> QED
    BY <2>1, <2>2 DEF Barred, IsOpen
<1> QED
  BY <1>1, Inductive, PTL

\* A vote counts once and for good, in an open round and from a batch that
\* stands (castVote, closeVotingRound, voidVoteCodeBatch).
THEOREM VotesStay == Spec => VotesAreFinal
<1>1. ASSUME IInv, [Next]_vars, NEW r \in Rounds, NEW v \in Identities, vote'[r][v] # vote[r][v]
      PROVE  vote[r][v] = None /\ IsOpen(r) /\ (v \in Codes => batch[BatchOf[v]] = "issued")
  <2>1. PICK c \in Calls : CommitVote(c)
    BY <1>1 DEF Next, vars, Close, CloseNotOpen, Explain, CountLinks, InsertLink, Abandon, StartClose,
       StartLink, CastVote, OpenVotingRound, OpenTieBreak, Publish, Hide, IssueBatch, VoidBatch, RevokeLink,
       ballots
  <2>2. VoteInv(c) /\ Voting(c)
    BY <1>1, <2>1 DEF IInv, FinalInv, CallInv, CommitVote, Voting
  <2>3. call[c].round = r /\ call[c].identity = v
    BY <1>1, <2>1, Types DEF CommitVote, IInv, BallotTypes
  <2> QED
    BY <2>2, <2>3 DEF VoteInv, CodeCounts
<1>2. IInv /\ [Next]_vars =>
        [\A r \in Rounds, v \in Identities :
          vote'[r][v] # vote[r][v] =>
              /\ vote[r][v] = None /\ IsOpen(r)
              /\ v \in Codes => batch[BatchOf[v]] = "issued"]_vars
  BY <1>1
<1> QED
  BY <1>2, Inductive, PTL DEF Spec, VotesAreFinal
=============================================================================
