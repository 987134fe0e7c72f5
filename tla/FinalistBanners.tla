---------------------------- MODULE FinalistBanners ----------------------------
(***************************************************************************)
(* The banners of the grand final's finalists: judges' picks say who they  *)
(* are, administration saves an academy's banner as an object in storage   *)
(* and a row that names it, and a voting round copies the rows as they     *)
(* stand when it opens (GrandFinal says what the round then does).         *)
(*                                                                         *)
(* A save uploads its object, writes its row in a transaction and only     *)
(* then deletes the object it replaced; an opening locks the event, shares *)
(* the rows there are, reads and writes.  A save whose form posts the      *)
(* judges locks the event too, for their picks; one that posts none locks  *)
(* its academy's row alone.  They meet between any of these steps, and     *)
(* either may die at any of them.  The two slots of an academy behave      *)
(* alike: one stands for both.                                             *)
(*                                                                         *)
(* A definition named D_x above D is what D would be with one slip, x.     *)
(***************************************************************************)
EXTENDS Integers, FiniteSets

CONSTANTS
    Calls,          \* requests that may be running at one moment
    Academies,      \* academies with a choreography in the event
    MaxKeys,        \* bound: objects uploaded
    None            \* no academy, no call

Keys == 1 .. MaxKeys
Rounds == 1 .. 2

ASSUME NoneAssumption == None \notin Academies \cup Calls
ASSUME BoundAssumption == MaxKeys \in Nat

VARIABLES
    picked,       \* academies some judge picks in some modality
    banner,       \* rows of finalist_banner by academy: the object each names
    stored,       \* objects in storage
    keys,         \* keys handed out
    lost,         \* history: objects replaced beside the opening that copies them
    opened,       \* how many voting rounds the event has
    copied,       \* rows of voting_round_finalist: the object each names
    event,        \* the call that holds the event's row
    call          \* each call's place and local variables

tables == <<picked, banner, opened, copied>>
files == <<stored, keys, lost>>
vars == <<tables, files, event, call>>

-----------------------------------------------------------------------------
\* TYPES

NoRow == -1     \* of banner: never saved
Nothing == 0    \* of banner: names no object; of copied: not a finalist

\* academy, key: a save's, and the object it uploaded.  judges: whether its form
\* posted them.  shared: banner rows the opening locks; copy: what its round will
\* copy.  doomed: objects replaced.
NoCall == [at |-> "idle", academy |-> None, key |-> Nothing, judges |-> FALSE,
           shared |-> {}, copy |-> [a \in Academies |-> Nothing], doomed |-> {}]
Opening == {"sharing", "reading", "opening"}
HoldsEvent(c) == call[c].at \in Opening \/ (call[c].at = "writing" /\ call[c].judges)

TypeOK ==
    /\ picked \subseteq Academies
    /\ banner \in [Academies -> {NoRow, Nothing} \cup Keys]
    /\ keys \in 0 .. MaxKeys /\ stored \subseteq 1 .. keys /\ lost \subseteq Keys
    /\ opened \in 0 .. 2
    /\ copied \in [Rounds -> [Academies -> {Nothing} \cup Keys]]
    /\ event \in Calls \cup {None}
    /\ call \in [Calls -> [at : {"idle", "saving", "writing", "deleting"} \cup Opening,
                            academy : Academies \cup {None}, key : {Nothing} \cup Keys,
                            judges : BOOLEAN,
                            shared : SUBSET Academies, doomed : SUBSET Keys,
                            copy : [Academies -> {NoRow, Nothing} \cup Keys]]]
    /\ \A c \in Calls : event = c <=> HoldsEvent(c)

Init == /\ picked = {} /\ banner = [a \in Academies |-> NoRow]
        /\ stored = {} /\ keys = 0 /\ lost = {}
        /\ opened = 0 /\ copied = [r \in Rounds |-> [a \in Academies |-> Nothing]]
        /\ event = None
        /\ call = [c \in Calls |-> NoCall]

EventFree == event = None
Finalists(r) == {a \in Academies : copied[r][a] # Nothing}
Begin(c, fields) == call[c].at = "idle" /\ call' = [call EXCEPT ![c] = fields]
Go(c, fields) == call' = [call EXCEPT ![c] = fields]
End(c) == call' = [call EXCEPT ![c] = NoCall]
EventGivenUp(c) == event' = IF event = c THEN None ELSE event

-----------------------------------------------------------------------------
\* PICKS

\* Judges' picks moved onto a leave some academies bare; or a loses its own.
PicksMovedTo(a) == {(picked \ left) \cup {a} : left \in SUBSET (picked \ {a})}
PicksSetOn(a) == PicksMovedTo(a) \cup {picked \ {a}}

\* writeFinalistPick, a judge's own, and setAcademyFinalistPicks with no banner
\* changed.  Whether a qualifies, and the day's window, are read from elsewhere.
JudgePicks(a) ==
    /\ picked' \in PicksMovedTo(a)
    /\ UNCHANGED <<banner, opened, copied, files, event, call>>
AdministrationPicks(a) ==
    /\ EventFree /\ picked' \in PicksSetOn(a)
    /\ UNCHANGED <<banner, opened, copied, files, event, call>>

-----------------------------------------------------------------------------
\* saveFinalistBanners

\* Before the transaction: the academy is a finalist, the new object uploaded.
UploadBanner(c, a, judges) ==
    /\ a \in picked /\ keys < MaxKeys
    /\ Begin(c, [NoCall EXCEPT !.at = "saving", !.academy = a, !.key = keys + 1, !.judges = judges])
    /\ keys' = keys + 1 /\ stored' = stored \cup {keys + 1}
    /\ UNCHANGED <<tables, lost, event>>
AskRemoval(c, a, judges) ==
    /\ a \in picked /\ banner[a] \in Keys
    /\ Begin(c, [NoCall EXCEPT !.at = "saving", !.academy = a, !.judges = judges])
    /\ UNCHANGED <<tables, files, event>>

\* What the row stops naming, withoutRoundBanners.
RoundBanners == {copied[r][a] : r \in Rounds, a \in Academies}
Replaced(a, key) == {banner[a]} \ ({NoRow, Nothing, key} \cup RoundBanners)

\* The transaction: the event, for the picks of the same page, when the form posts
\* the judges (for no pick lockEvent locks no row); the academy's row, once no
\* opening shares it and no other save has it; and what the save replaces.
RowFree(a) == \A d \in Calls : a \notin call[d].shared /\ ~(call[d].at = "writing" /\ call[d].academy = a)
LockBanner_BesideTheEvent(c) ==
    /\ call[c].at = "saving" /\ RowFree(call[c].academy)
    /\ Go(c, [call[c] EXCEPT !.at = "writing", !.doomed = Replaced(call[c].academy, call[c].key)])
    /\ UNCHANGED <<tables, files, event>>
LockBanner(c) ==
    /\ call[c].at = "saving" /\ RowFree(call[c].academy)
    /\ call[c].judges => EventFree
    /\ event' = IF call[c].judges THEN c ELSE event
    /\ Go(c, [call[c] EXCEPT !.at = "writing", !.doomed = Replaced(call[c].academy, call[c].key)])
    /\ UNCHANGED <<tables, files>>

\* Its commit.  With no event held, an opening may be copying what it replaced.
Copying == {call[d].copy[a] : d \in Calls, a \in Academies}
WriteBanner(c) ==
    /\ call[c].at = "writing"
    /\ picked' \in IF call[c].judges THEN PicksSetOn(call[c].academy) ELSE {picked}
    /\ banner' = [banner EXCEPT ![call[c].academy] = call[c].key]
    /\ lost' = IF call[c].judges THEN lost
               ELSE lost \cup (call[c].doomed \cap (Copying \cup RoundBanners))
    /\ Go(c, [call[c] EXCEPT !.at = "deleting"]) /\ EventGivenUp(c)
    /\ UNCHANGED <<opened, copied, stored, keys>>

\* The picks were refused, or the transaction threw: what it uploaded goes.
RefuseBanner(c) ==
    /\ call[c].at \in {"saving", "writing"}
    /\ stored' = stored \ {call[c].key}
    /\ End(c) /\ EventGivenUp(c) /\ UNCHANGED <<tables, keys, lost>>

\* After the commit; a delete that fails leaves the object, as dying does.
DeleteReplaced(c) ==
    /\ call[c].at = "deleting"
    /\ stored' = stored \ call[c].doomed
    /\ End(c) /\ UNCHANGED <<tables, keys, lost, event>>

-----------------------------------------------------------------------------
\* openVotingRound AND openTieBreakRound

\* The event's row; the banner rows there are, shared; what it copies, read by
\* readOpenFacts, or a blocker; the round.
OpenLocks(c) ==
    /\ EventFree /\ event' = c
    /\ Begin(c, [NoCall EXCEPT !.at = "sharing"])
    /\ UNCHANGED <<tables, files>>
OpenShares(c) ==
    /\ call[c].at = "sharing"
    /\ \A a \in Academies : banner[a] # NoRow => RowFree(a)
    /\ Go(c, [call[c] EXCEPT !.at = "reading", !.shared = {a \in Academies : banner[a] # NoRow}])
    /\ UNCHANGED <<tables, files, event>>
Ready == opened = 0 /\ picked # {} /\ \A a \in picked : banner[a] \in Keys
OpenReads(c) ==
    /\ call[c].at = "reading" /\ Ready
    /\ Go(c, [call[c] EXCEPT !.at = "opening",
                  !.copy = [a \in Academies |-> IF a \in picked THEN banner[a] ELSE Nothing]])
    /\ UNCHANGED <<tables, files, event>>
OpenRefused(c) ==
    /\ call[c].at = "reading" /\ ~Ready
    /\ End(c) /\ event' = None
    /\ UNCHANGED <<tables, files>>
OpenWrites(c) ==
    /\ call[c].at = "opening"
    /\ opened' = 1 /\ copied' = [copied EXCEPT ![1] = call[c].copy]
    /\ End(c) /\ event' = None
    /\ UNCHANGED <<picked, banner, files>>

\* Over those tied in round 1, with the objects round 1 copied.
OpenTieBreak(tied) ==
    /\ EventFree /\ opened = 1
    /\ opened' = 2
    /\ copied' = [copied EXCEPT ![2] = [a \in Academies |-> IF a \in tied THEN copied[1][a] ELSE Nothing]]
    /\ UNCHANGED <<picked, banner, files, event, call>>

\* The connection drops or the process dies: the transaction rolls back, and an
\* object uploaded or replaced stays with nobody to delete it.
Abandon(c) ==
    /\ call[c].at # "idle"
    /\ End(c) /\ EventGivenUp(c)
    /\ UNCHANGED <<tables, files>>

-----------------------------------------------------------------------------
Next ==
    \/ \E a \in Academies : JudgePicks(a) \/ AdministrationPicks(a)
    \/ \E c \in Calls : \/ \E a \in Academies, judges \in BOOLEAN :
                              UploadBanner(c, a, judges) \/ AskRemoval(c, a, judges)
                        \/ LockBanner(c) \/ WriteBanner(c) \/ RefuseBanner(c) \/ DeleteReplaced(c)
                        \/ OpenLocks(c) \/ OpenShares(c) \/ OpenReads(c) \/ OpenRefused(c)
                        \/ OpenWrites(c) \/ Abandon(c)
    \/ \E tied \in SUBSET Finalists(1) : Cardinality(tied) > 1 /\ OpenTieBreak(tied)

Spec == Init /\ [][Next]_vars

-----------------------------------------------------------------------------
\* PROPERTIES

\* What is shown can be shown: each object an academy's row names, and each one
\* a round copied, is in storage, whoever saved, opened or died in between.  The
\* delete of a replaced object comes last and spares what rounds name, and a save
\* and an opening take turns on the event (saveFinalistBanners, openVotingRound).
\* Alone a save that posts no judges may take an object from under a round: it
\* locks the row and not the event, and an opening that found no row of the
\* academy to share has since read one.
OnlyASaveWithoutJudgesTakesABanner ==
    /\ \A a \in Academies : banner[a] \in Keys => banner[a] \in stored
    /\ \A r \in 1 .. opened : \A a \in Finalists(r) : copied[r][a] \in stored \cup lost
=============================================================================
