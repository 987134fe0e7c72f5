------------------------------ MODULE GrandFinal ------------------------------
(***************************************************************************)
(* The voting of one event's grand final: a round opens over finalists, an *)
(* audience votes with printed codes and signed-in accounts, the round     *)
(* closes, a tie for first place opens a second round, and the result is   *)
(* published.  Auditors watch the open round through links.                *)
(*                                                                         *)
(* A transaction under the event's row lock that reads nothing another     *)
(* changes without it is one step.  Those that others meet halfway have a  *)
(* step each: a vote inserted and not yet committed, a close that waits    *)
(* for such votes, a link dated before it waits for the event.  Any of     *)
(* them may be cut short by a dropped connection or a dead process.        *)
(*                                                                         *)
(* A definition named D_x above D is what D would be with one slip, x.     *)
(***************************************************************************)
EXTENDS Integers, FiniteSets, FiniteSetsExt

CONSTANTS
    Calls,          \* requests that may be running at one moment
    Academies,      \* academies that may be finalists
    Codes,          \* printed codes
    Voters,         \* signed-in voters
    Batches,        \* batches of codes
    BatchOf,        \* the batch of each code
    Links,          \* audit links that may be issued
    CodePoints,     \* what a code's vote weighs; a voter's weighs 1
    MaxActiveAuditLinks,
    MaxTime,        \* bound: timestamps taken
    None            \* no academy, no call, no vote

Identities == Codes \cup Voters
Rounds == 1 .. 2

ASSUME IdentityAssumption == /\ Codes \cap Voters = {} /\ IsFiniteSet(Identities)
                             /\ BatchOf \in [Codes -> Batches]
ASSUME NoneAssumption == None \notin Academies \cup Calls \cup Links
ASSUME BoundAssumption == /\ CodePoints \in Nat \ {0} /\ MaxActiveAuditLinks \in Nat
                          /\ MaxTime \in Nat /\ IsFiniteSet(Links) /\ IsFiniteSet(Academies)

VARIABLES
    opened,       \* how many voting rounds the event has
    closedAt,     \* when each round closed
    published,    \* rounds whose result is public
    finalists,    \* rows of voting_round_finalist, by round
    vote,         \* rows of vote: each identity's academy in each round
    batch,        \* each batch of codes: none yet, issued, voided
    issuedAt,     \* when each audit link was created
    revoked,      \* links revoked
    now,          \* the database's clock
    event,        \* the call that holds the event's row
    call          \* each call's place and local variables

final == <<opened, closedAt, published, finalists>>
ballots == <<vote, batch>>
audit == <<issuedAt, revoked>>
vars == <<final, ballots, audit, now, event, call>>

-----------------------------------------------------------------------------
\* TYPES

Never == 0      \* of closedAt and issuedAt: null

\* round, academy, identity: what a vote or a close names.  stamp, link: a link
\* or a close, and when it began.  room: a link found a place to take.
NoCall == [at |-> "idle", round |-> 0, academy |-> None, identity |-> None,
           stamp |-> Never, link |-> None, room |-> FALSE]
Places == {"idle", "voting", "explaining", "closing", "linking", "inserting"}

TypeOK ==
    /\ opened \in 0 .. 2
    /\ closedAt \in [Rounds -> 0 .. MaxTime]
    /\ published \subseteq Rounds
    /\ finalists \in [Rounds -> SUBSET Academies]
    /\ vote \in [Rounds -> [Identities -> Academies \cup {None}]]
    /\ batch \in [Batches -> {"none", "issued", "voided"}]
    /\ issuedAt \in [Links -> 0 .. MaxTime]
    /\ revoked \subseteq Links
    /\ now \in 0 .. MaxTime
    /\ event \in Calls \cup {None}
    /\ call \in [Calls -> [at : Places, round : 0 .. 2, academy : Academies \cup {None},
                            identity : Identities \cup {None}, stamp : 0 .. MaxTime,
                            link : Links \cup {None}, room : BOOLEAN]]
    /\ \A c \in Calls : event = c <=> call[c].at = "inserting"

-----------------------------------------------------------------------------
\* READS

IsOpen(r) == r \in 1 .. opened /\ closedAt[r] = Never
IsClosed(r) == r \in 1 .. opened /\ closedAt[r] # Never

\* readRoundTally.
CodeVotes(r, a) == Cardinality({v \in Codes : vote[r][v] = a})
Points(r, a) == CodePoints * CodeVotes(r, a) + Cardinality({v \in Voters : vote[r][v] = a})

\* rankGrandFinal: the first place of a round, and what kind of outcome it is.
Beats(r, a, b) == \/ Points(r, a) > Points(r, b)
                  \/ /\ r = 2 /\ Points(r, a) = Points(r, b)
                     /\ CodeVotes(r, a) > CodeVotes(r, b)
FirstPlace(r) == {a \in finalists[r] : \A b \in finalists[r] : ~Beats(r, b, a)}
Outcome(r) == IF Cardinality(FirstPlace(r)) <= 1 THEN "winner"
              ELSE IF r = 2 THEN "shared" ELSE "tie"

\* findPublishBlocker and findTieBreakBlockers, over the event's last round.
Publishable == IsClosed(opened) /\ opened \notin published /\ Outcome(opened) # "tie"
TieToBreak == opened = 1 /\ IsClosed(1) /\ Outcome(1) = "tie"

\* Links neither revoked nor spent by a close (roundsClosedSince).
ClosedSince(t) == {r \in 1 .. opened : closedAt[r] > t}
LiveLinks == {l \in Links : issuedAt[l] # Never /\ l \notin revoked /\ ClosedSince(issuedAt[l]) = {}}

\* Votes inserted and not committed: they hold their round, their batch and
\* their identity's place in the round.
InFlight(r) == {c \in Calls : call[c].at = "voting" /\ call[c].round = r}
InFlightOf(b) == {c \in Calls : /\ call[c].at = "voting" /\ call[c].identity \in Codes
                                /\ BatchOf[call[c].identity] = b}

Init == /\ opened = 0 /\ closedAt = [r \in Rounds |-> Never] /\ published = {}
        /\ finalists = [r \in Rounds |-> {}]
        /\ vote = [r \in Rounds |-> [v \in Identities |-> None]]
        /\ batch = [b \in Batches |-> "none"]
        /\ issuedAt = [l \in Links |-> Never] /\ revoked = {}
        /\ now = 0 /\ event = None
        /\ call = [c \in Calls |-> NoCall]

Begin(c, fields) == call[c].at = "idle" /\ call' = [call EXCEPT ![c] = fields]
Go(c, fields) == call' = [call EXCEPT ![c] = fields]
End(c) == call' = [call EXCEPT ![c] = NoCall]
EventFree == event = None

\* CURRENT_TIMESTAMP is the start of a transaction, however long it then waits.
Stamp == now < MaxTime /\ now' = now + 1

-----------------------------------------------------------------------------
\* ROUNDS

\* openVotingRound, over the finalists it finds ready (FinalistBanners).
OpenVotingRound(ready) ==
    /\ EventFree /\ opened = 0 /\ ready # {}
    /\ opened' = 1 /\ finalists' = [finalists EXCEPT ![1] = ready]
    /\ UNCHANGED <<closedAt, published, ballots, audit, now, event, call>>

\* openTieBreakRound: over the tied.
OpenTieBreak ==
    /\ EventFree /\ TieToBreak
    /\ opened' = 2 /\ finalists' = [finalists EXCEPT ![2] = FirstPlace(1)]
    /\ UNCHANGED <<closedAt, published, ballots, audit, now, event, call>>

\* closeVotingRound: one update, which waits for the votes in flight and not
\* for the event.
StartClose(c, r) ==
    /\ IsOpen(r) /\ Stamp
    /\ Begin(c, [NoCall EXCEPT !.at = "closing", !.round = r, !.stamp = now + 1])
    /\ UNCHANGED <<final, ballots, audit, event>>
Close_WaitsForNone(c) ==
    /\ call[c].at = "closing" /\ IsOpen(call[c].round)
    /\ closedAt' = [closedAt EXCEPT ![call[c].round] = call[c].stamp]
    /\ End(c)
    /\ UNCHANGED <<opened, published, finalists, ballots, audit, now, event>>
Close(c) ==
    /\ call[c].at = "closing" /\ IsOpen(call[c].round) /\ InFlight(call[c].round) = {}
    /\ closedAt' = [closedAt EXCEPT ![call[c].round] = call[c].stamp]
    /\ End(c)
    /\ UNCHANGED <<opened, published, finalists, ballots, audit, now, event>>
CloseNotOpen(c) ==
    /\ call[c].at = "closing" /\ ~IsOpen(call[c].round)
    /\ End(c) /\ UNCHANGED <<final, ballots, audit, now, event>>

\* publishGrandFinalResult and hideGrandFinalResult.
Publish ==
    /\ EventFree /\ Publishable
    /\ published' = published \cup {opened}
    /\ UNCHANGED <<opened, closedAt, finalists, ballots, audit, now, event, call>>
Hide ==
    /\ EventFree /\ opened \in published
    /\ published' = published \ {opened}
    /\ UNCHANGED <<opened, closedAt, finalists, ballots, audit, now, event, call>>

-----------------------------------------------------------------------------
\* VOTES

\* createVoteCodeBatch, and voidVoteCodeBatch: one update, which waits for the
\* batch's votes in flight.
IssueBatch(b) ==
    /\ EventFree /\ batch[b] = "none"
    /\ batch' = [batch EXCEPT ![b] = "issued"]
    /\ UNCHANGED <<final, vote, audit, now, event, call>>
VoidBatch_WaitsForNone(b) ==
    /\ batch[b] = "issued"
    /\ batch' = [batch EXCEPT ![b] = "voided"]
    /\ UNCHANGED <<final, vote, audit, now, event, call>>
VoidBatch(b) ==
    /\ batch[b] = "issued" /\ InFlightOf(b) = {}
    /\ batch' = [batch EXCEPT ![b] = "voided"]
    /\ UNCHANGED <<final, vote, audit, now, event, call>>

\* castVote's insert: the rows it selects hold, or it inserts nothing.  An
\* insert of the same identity in flight makes it wait for how that one ends.
CodeCounts(v) == v \in Codes => batch[BatchOf[v]] = "issued"
Printed(v) == v \in Codes => batch[BatchOf[v]] # "none"
Countable(v, r, a) == IsOpen(r) /\ a \in finalists[r] /\ CodeCounts(v) /\ vote[r][v] = None
Waits(v, r) == \E d \in InFlight(r) : call[d].identity = v

CastVote(c, v, r, a) ==
    /\ r \in 1 .. opened /\ Printed(v)
    /\ ~(Countable(v, r, a) /\ Waits(v, r))
    /\ Begin(c, [NoCall EXCEPT !.at = IF Countable(v, r, a) THEN "voting" ELSE "explaining",
                               !.round = r, !.academy = a, !.identity = v])
    /\ UNCHANGED <<final, ballots, audit, now, event>>
CommitVote(c) ==
    /\ call[c].at = "voting"
    /\ vote' = [vote EXCEPT ![call[c].round][call[c].identity] = call[c].academy]
    /\ End(c) /\ UNCHANGED <<final, batch, audit, now, event>>

\* explainUncastVote, read after the insert that counted nothing.
Reason_NoVoided(c) ==
    LET v == call[c].identity IN
    IF ~IsOpen(call[c].round) THEN "round-closed"
    ELSE IF vote[call[c].round][v] # None THEN "already-voted"
    ELSE "not-finalist"
Reason(c) ==
    LET v == call[c].identity IN
    IF ~IsOpen(call[c].round) THEN "round-closed"
    ELSE IF vote[call[c].round][v] # None THEN "already-voted"
    ELSE IF v \in Codes /\ batch[BatchOf[v]] = "voided" THEN "voided-code"
    ELSE "not-finalist"
Explain(c) ==
    /\ call[c].at = "explaining"
    /\ End(c) /\ UNCHANGED <<final, ballots, audit, now, event>>

-----------------------------------------------------------------------------
\* AUDIT LINKS

\* createAuditLink: dated when its transaction starts, counted and inserted
\* with the event locked.
StartLink(c, l) ==
    /\ issuedAt[l] = Never /\ Stamp
    /\ \A d \in Calls : call[d].link # l
    /\ Begin(c, [NoCall EXCEPT !.at = "linking", !.link = l, !.stamp = now + 1])
    /\ UNCHANGED <<final, ballots, audit, event>>
HasRoom == Cardinality(LiveLinks) < MaxActiveAuditLinks
CountLinks_BesideTheEvent(c) ==
    /\ call[c].at = "linking"
    /\ event' = IF EventFree THEN c ELSE event
    /\ Go(c, [call[c] EXCEPT !.at = "inserting", !.room = HasRoom])
    /\ UNCHANGED <<final, ballots, audit, now>>
CountLinks(c) ==
    /\ call[c].at = "linking" /\ EventFree /\ event' = c
    /\ Go(c, [call[c] EXCEPT !.at = "inserting", !.room = HasRoom])
    /\ UNCHANGED <<final, ballots, audit, now>>
InsertLink(c) ==
    /\ call[c].at = "inserting"
    /\ issuedAt' = IF call[c].room THEN [issuedAt EXCEPT ![call[c].link] = call[c].stamp]
                   ELSE issuedAt
    /\ End(c) /\ event' = None
    /\ UNCHANGED <<final, ballots, revoked, now>>
RevokeLink(l) ==
    /\ issuedAt[l] # Never /\ l \notin revoked
    /\ revoked' = revoked \cup {l}
    /\ UNCHANGED <<final, ballots, issuedAt, now, event, call>>

\* The connection drops or the process dies: the transaction rolls back.
Abandon(c) ==
    /\ call[c].at \notin {"idle", "explaining"}
    /\ End(c) /\ event' = IF event = c THEN None ELSE event
    /\ UNCHANGED <<final, ballots, audit, now>>

-----------------------------------------------------------------------------
Next ==
    \/ \E c \in Calls : \/ Close(c) \/ CloseNotOpen(c) \/ CommitVote(c) \/ Explain(c)
                        \/ CountLinks(c) \/ InsertLink(c) \/ Abandon(c)
                        \/ \E r \in Rounds : StartClose(c, r)
                        \/ \E l \in Links : StartLink(c, l)
                        \/ \E v \in Identities, r \in Rounds, a \in Academies : CastVote(c, v, r, a)
    \/ \E ready \in SUBSET Academies : OpenVotingRound(ready)
    \/ OpenTieBreak \/ Publish \/ Hide
    \/ \E b \in Batches : IssueBatch(b) \/ VoidBatch(b)
    \/ \E l \in Links : RevokeLink(l)

Spec == Init /\ [][Next]_vars

-----------------------------------------------------------------------------
\* PROPERTIES

\* A vote counts once and for good: what an identity cast in a round is never
\* replaced, and none lands in a round that closed or from a batch of codes that
\* voidVoteCodeBatch answered was voided, so the tally that a result ranks,
\* publishes or breaks a tie over can no longer move (castVote's shares of the
\* round and the batch, which the close and the void wait for).
VotesAreFinal ==
    [][\A r \in Rounds, v \in Identities :
          vote'[r][v] # vote[r][v] =>
              /\ vote[r][v] = None /\ IsOpen(r)
              /\ v \in Codes => batch[BatchOf[v]] = "issued"]_vars

\* A voter refused for want of a finalist did name an academy the round does
\* not have: castVote reads why after the insert, in statements of their own,
\* and the rounds, codes and votes change in between.
RefusalIsTrue ==
    \A c \in Calls : call[c].at = "explaining" /\ Reason(c) = "not-finalist"
                       => call[c].academy \notin finalists[call[c].round]

\* What is public is the last round's, closed, with its first place decided:
\* no Desempate opens behind a published result and none is owed.
PublishedIsDecided ==
    \A r \in published : r = opened /\ IsClosed(r) /\ Outcome(r) # "tie"

\* Never more live links than auditors on stage, although rounds close, and
\* spend links, while others are being issued.
LinksWithinLimit == Cardinality(LiveLinks) <= MaxActiveAuditLinks
=============================================================================
