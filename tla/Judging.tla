------------------------------- MODULE Judging --------------------------------
(***************************************************************************)
(* The panel at work on a show day: judges save scores with an optional    *)
(* recorded take, administration edits, disqualifies, moves judges, and    *)
(* corrects what a presentation is: its sheet, its number, whether it      *)
(* takes part at all.                                                      *)
(*                                                                         *)
(* A judge's save locks the presentation and nothing else until it writes; *)
(* the others lock the choreography, the event, the judge's assignment or  *)
(* nothing, and read "evaluated" (a score or a disqualification) to know   *)
(* whether they still may.  Values are the sheet they were given on;       *)
(* presentations share one schedule; numbers are a permutation.            *)
(*                                                                         *)
(* A definition named D_x above D is what D would be with one slip, x.     *)
(***************************************************************************)
EXTENDS Integers, FiniteSets

CONSTANTS
    Calls,          \* requests that may be running at one moment
    Presentations,  \* numbered choreographies of one schedule
    Judges,
    Submodalities,
    MaxTakes,       \* bound: takes recorded
    MaxSheets,      \* bound: sheets of criteria a submodality has had
    None            \* no presentation, judge, submodality or value

ASSUME NoneAssumption == None \notin Presentations \cup Judges \cup Submodalities \cup Int
ASSUME BoundAssumption == MaxTakes \in Nat /\ MaxSheets \in Nat
ASSUME PresentationsAssumption == IsFiniteSet(Presentations)

Pairs == Presentations \X Judges
Takes == 1 .. MaxTakes
NoTake == 0
Single == 0                     \* the sheet of a submodality with no criteria
Sheets == 0 .. MaxSheets
Places == 1 .. Cardinality(Presentations)

VARIABLES
    stage,        \* each presentation: on, withdrawn or deleted
    disqualified, \* presentations disqualified
    number,       \* presentation.orderNumber
    submodality,  \* of each presentation's choreography
    criteria,     \* of each submodality: the sheet it is judged on
    sheets,       \* sheets written
    assigned,     \* rows of judge_assignment
    score,        \* rows of score, by assignment
    stored,       \* takes in storage
    takes,        \* takes uploaded
    call          \* each call's place and local variables

program == <<stage, disqualified, number, submodality, criteria, sheets>>
panel == <<assigned, score>>
files == <<stored, takes>>
vars == <<program, panel, files, call>>

-----------------------------------------------------------------------------
\* TYPES

\* value: NULL, or the sheet the number was given on.
NoScore == [row |-> FALSE, value |-> None, take |-> NoTake]
Scores == [row : BOOLEAN, value : Sheets \cup {None}, take : {NoTake} \cup Takes]

\* pair: a save's.  writes: what it will store.  before: the take it read.
\* on: presentations whose choreography it locks.  pairs: chosen for removal.
\* doomed: those of them it read as unscored.  module: a criteria edit's.  free:
\* presentations an ordering may move.
NoCall == [at |-> "idle", pair |-> <<None, None>>, writes |-> NoScore, before |-> NoTake,
           on |-> {}, pairs |-> {}, doomed |-> {}, module |-> None, free |-> {}]
Saving == {"preparing", "writing"}

TypeOK ==
    /\ stage \in [Presentations -> {"on", "withdrawn", "deleted"}]
    /\ disqualified \subseteq Presentations
    /\ number \in [Presentations -> Places]
    /\ submodality \in [Presentations -> Submodalities]
    /\ criteria \in [Submodalities -> Sheets] /\ sheets \in Sheets
    /\ assigned \subseteq Pairs /\ score \in [Pairs -> Scores]
    /\ takes \in 0 .. MaxTakes /\ stored \subseteq 1 .. takes
    /\ call \in [Calls -> [at : Saving \cup {"idle", "deleting", "choosing", "removing",
                                              "correcting", "replacing", "ordering"},
                           pair : Pairs \cup {<<None, None>>}, writes : Scores,
                           before : {NoTake} \cup Takes, on : SUBSET Presentations,
                           pairs : SUBSET Pairs, doomed : SUBSET Pairs,
                           module : Submodalities \cup {None}, free : SUBSET Presentations]]
    /\ \A p, q \in Presentations :
          p # q /\ "deleted" \notin {stage[p], stage[q]} => number[p] # number[q]

Init ==
    /\ stage = [p \in Presentations |-> "on"] /\ disqualified = {}
    /\ number \in [Presentations -> Places]
    /\ \A p, q \in Presentations : number[p] = number[q] => p = q
    /\ submodality \in [Presentations -> Submodalities]
    /\ criteria = [m \in Submodalities |-> Single] /\ sheets = 0
    /\ assigned = Pairs /\ score = [k \in Pairs |-> NoScore]
    /\ stored = {} /\ takes = 0
    /\ call = [c \in Calls |-> NoCall]

Begin(c, fields) == call[c].at = "idle" /\ call' = [call EXCEPT ![c] = fields]
Go(c, fields) == call' = [call EXCEPT ![c] = fields]
End(c) == call' = [call EXCEPT ![c] = NoCall]

\* Locks the calls hold.  The presentation's and the score's are a save's, and
\* so is the key share of the assignment its new score points at.
PresentationFree(p) == \A c \in Calls : call[c].at \in Saving => call[c].pair[1] # p
ChoreographyFree(p) == \A c \in Calls : p \notin call[c].on
EventFree == \A c \in Calls : call[c].at # "ordering"
ScoreFree(k) == \A c \in Calls : call[c].at = "writing" => call[c].pair # k
AssignmentFree(k) == \A c \in Calls : call[c].at = "removing" => k \notin call[c].pairs

Sheet(p) == criteria[submodality[p]]
IsScored(p) == \E j \in Judges : score[<<p, j>>].row
Evaluated(p) == p \in disqualified \/ IsScored(p)

-----------------------------------------------------------------------------
\* saveJudgeScore

\* What the form does with the stored take: keep it, remove it, or record anew.
TakesAfter(k) == {score[k].take, NoTake} \cup (IF takes < MaxTakes THEN {takes + 1} ELSE {})

\* prepareScoreWrite, under the presentation's lock: the assignment, the stamps
\* as they stand, the sheet read again, the take uploaded.  On any day but the
\* judging day the save is refused.  A disqualified presentation takes the take
\* and nothing else.
Prepare(c, k, take) ==
    /\ k \in assigned /\ stage[k[1]] = "on"
    /\ Begin(c, [NoCall EXCEPT
          !.at = "preparing", !.pair = k, !.before = score[k].take,
          !.writes = [row |-> \/ k[1] \notin disqualified \/ take # NoTake
                              \/ score[k].row,        \* carriesSomething
                      value |-> IF k[1] \in disqualified THEN None ELSE Sheet(k[1]),
                      take |-> take]])
    /\ takes' = IF take > takes THEN take ELSE takes
    /\ stored' = stored \cup (takes + 1 .. take)
    /\ UNCHANGED <<program, panel>>
PrepareSave_BesideThePresentation(c, k) == \E take \in TakesAfter(k) : Prepare(c, k, take)
PrepareSave(c, k) == PresentationFree(k[1]) /\ \E take \in TakesAfter(k) : Prepare(c, k, take)

\* writeScore: an upsert, and the lines of the sheet, still uncommitted.  A new
\* score needs its assignment, a line its criterion: otherwise it throws.
CriteriaStand(value) == value \in {None, Single} \/ \E m \in Submodalities : criteria[m] = value
WriteScore(c) ==
    /\ call[c].at = "preparing"
    /\ call[c].writes.row =>
          /\ ~score[call[c].pair].row => call[c].pair \in assigned /\ AssignmentFree(call[c].pair)
          /\ CriteriaStand(call[c].writes.value)
    /\ Go(c, [call[c] EXCEPT !.at = "writing"])
    /\ UNCHANGED <<program, panel, files>>

\* The commit; then the take it replaced goes.
Written(old, new) ==
    IF ~new.row THEN old
    ELSE [new EXCEPT !.value = IF new.value = None THEN old.value ELSE new.value]
CommitSave(c) ==
    /\ call[c].at = "writing"
    /\ score' = [score EXCEPT ![call[c].pair] = Written(@, call[c].writes)]
    /\ Go(c, [NoCall EXCEPT !.at = "deleting",
                 !.before = IF call[c].before = call[c].writes.take THEN NoTake ELSE call[c].before])
    /\ UNCHANGED <<program, assigned, files>>
DeleteTake(c) ==
    /\ call[c].at = "deleting"
    /\ stored' = stored \ {call[c].before}
    /\ End(c) /\ UNCHANGED <<program, panel, takes>>

\* editScore: the score's row locked, its sheet read and stored whole.
EditScore(k) ==
    /\ score[k].row /\ ScoreFree(k)
    /\ score' = [score EXCEPT ![k].value = Sheet(k[1])]
    /\ UNCHANGED <<program, assigned, files, call>>

\* setPresentationDisqualified
SetDisqualified_BesideThePresentation(p) ==
    /\ stage[p] = "on"
    /\ disqualified' \in {disqualified \cup {p}, disqualified \ {p}}
    /\ UNCHANGED <<stage, number, submodality, criteria, sheets, panel, files, call>>
SetDisqualified(p) ==
    /\ stage[p] = "on" /\ PresentationFree(p)
    /\ disqualified' \in {disqualified \cup {p}, disqualified \ {p}}
    /\ UNCHANGED <<stage, number, submodality, criteria, sheets, panel, files, call>>

-----------------------------------------------------------------------------
\* THE PANEL'S ASSIGNMENTS

\* assignJudges: an insert shares the presentation it points at.
AssignJudge(k) ==
    /\ stage[k[1]] = "on" /\ ChoreographyFree(k[1]) /\ PresentationFree(k[1])
    /\ assigned' = assigned \cup {k}
    /\ UNCHANGED <<program, score, files, call>>

\* removeJudges: the choreographies locked; the chosen pairs read with their
\* scores; the same statement then locks the assignments, once no uncommitted
\* score shares one, and does not read the scores again.
ChoosePairs(c, ks) ==
    /\ ks # {} /\ ks \subseteq assigned
    /\ \A k \in ks : stage[k[1]] = "on" /\ ChoreographyFree(k[1])
    /\ Begin(c, [NoCall EXCEPT !.at = "choosing", !.on = {k[1] : k \in ks}, !.pairs = ks,
                               !.doomed = {k \in ks : ~score[k].row}])
    /\ UNCHANGED <<program, panel, files>>
LockPairs(c) ==
    /\ call[c].at = "choosing"
    /\ \A d \in Calls : call[d].at = "writing" /\ call[d].writes.row
                           => (score[call[d].pair].row \/ call[d].pair \notin call[c].pairs)
    /\ Go(c, [call[c] EXCEPT !.at = "removing"])
    /\ UNCHANGED <<program, panel, files>>

\* The delete; a score's foreign key restricts it, and then nothing is removed.
DeletePairs(c) ==
    /\ call[c].at = "removing"
    /\ \A k \in call[c].doomed : ~score[k].row
    /\ assigned' = assigned \ call[c].doomed
    /\ End(c) /\ UNCHANGED <<program, score, files>>

-----------------------------------------------------------------------------
\* WHAT AN EVALUATION CLOSES

\* removeChoreography: event, choreography and presentation locked; refused once
\* evaluated.  Without evidence the rows go, with it the presentation stays.
RemoveChoreography_BesideThePresentation(p) ==
    /\ EventFree /\ ChoreographyFree(p)
    /\ stage[p] = "on" /\ ~Evaluated(p)
    /\ \/ /\ stage' = [stage EXCEPT ![p] = "withdrawn"]
          /\ UNCHANGED assigned
       \/ /\ stage' = [stage EXCEPT ![p] = "deleted"]
          /\ assigned' = assigned \ ({p} \X Judges)
    /\ UNCHANGED <<disqualified, number, submodality, criteria, sheets, score, files, call>>
RemoveChoreography(p) ==
    /\ EventFree /\ ChoreographyFree(p) /\ PresentationFree(p)
    /\ stage[p] = "on" /\ ~Evaluated(p)
    /\ \/ /\ stage' = [stage EXCEPT ![p] = "withdrawn"]
          /\ UNCHANGED assigned
       \/ /\ stage' = [stage EXCEPT ![p] = "deleted"]
          /\ assigned' = assigned \ ({p} \X Judges)
    /\ UNCHANGED <<disqualified, number, submodality, criteria, sheets, score, files, call>>

\* writeDraft: the choreography locked, refused once evaluated, written.
CheckDraft(c, p) ==
    /\ ChoreographyFree(p) /\ stage[p] = "on" /\ ~Evaluated(p)
    /\ Begin(c, [NoCall EXCEPT !.at = "correcting", !.on = {p}])
    /\ UNCHANGED <<program, panel, files>>
WriteDraft(c) ==
    /\ call[c].at = "correcting"
    /\ \E p \in call[c].on, m \in Submodalities : submodality' = [submodality EXCEPT ![p] = m]
    /\ End(c)
    /\ UNCHANGED <<stage, disqualified, number, criteria, sheets, panel, files>>

\* replaceSheetCriteria: refused once any of its choreographies has a score, read
\* before the transaction; then the criteria go, unless a line restricts it, and
\* others come, or none.
CheckCriteria(c, m) ==
    /\ \A p \in Presentations : submodality[p] = m => ~IsScored(p)
    /\ Begin(c, [NoCall EXCEPT !.at = "replacing", !.module = m])
    /\ UNCHANGED <<program, panel, files>>
ReplaceCriteria(c) ==
    LET m == call[c].module IN
    /\ call[c].at = "replacing"
    /\ criteria[m] # Single => \A k \in Pairs : score[k].value # criteria[m]
    /\ \/ /\ sheets < MaxSheets /\ sheets' = sheets + 1
          /\ criteria' = [criteria EXCEPT ![m] = sheets + 1]
       \/ /\ criteria' = [criteria EXCEPT ![m] = Single]
          /\ UNCHANGED sheets
    /\ End(c)
    /\ UNCHANGED <<stage, disqualified, number, submodality, panel, files>>

\* runAutomaticOrdering and movePresentation: the event locked, the frozen rows
\* read, the others handed the free places (which of them computeAutomaticOrder
\* or computeManualMove gives each is left open).
Frozen == IF \E p \in Presentations : stage[p] # "deleted" /\ Evaluated(p)
          THEN Presentations
          ELSE {p \in Presentations : stage[p] # "on"}
ReadOrder(c) ==
    /\ EventFree
    /\ Begin(c, [NoCall EXCEPT !.at = "ordering", !.free = Presentations \ Frozen])
    /\ UNCHANGED <<program, panel, files>>
WriteOrder_AroundTheFrozen(c) ==
    /\ call[c].at = "ordering"
    /\ number' \in [Presentations -> Places]
    /\ \A p \in Presentations : number'[p] # number[p] => p \in call[c].free /\ PresentationFree(p)
    /\ \A p, q \in call[c].free : p # q => number'[p] # number'[q]
    /\ End(c)
    /\ UNCHANGED <<stage, disqualified, submodality, criteria, sheets, panel, files>>
WriteOrder(c) ==
    /\ call[c].at = "ordering"
    /\ number' \in [Presentations -> Places]
    /\ \A p \in Presentations : number'[p] # number[p] => p \in call[c].free /\ PresentationFree(p)
    /\ \A p, q \in Presentations :
          p # q /\ "deleted" \notin {stage[p], stage[q]} => number'[p] # number'[q]
    /\ End(c)
    /\ UNCHANGED <<stage, disqualified, submodality, criteria, sheets, panel, files>>

\* It throws, or its connection drops or its process dies: nothing it wrote
\* stays, and a take it uploaded or replaced has nobody to delete it.
Abandon(c) ==
    /\ call[c].at # "idle"
    /\ End(c) /\ UNCHANGED <<program, panel, files>>

-----------------------------------------------------------------------------
Next ==
    \/ \E c \in Calls : \/ \E k \in Pairs : PrepareSave(c, k)
                        \/ WriteScore(c) \/ CommitSave(c) \/ DeleteTake(c)
                        \/ \E ks \in SUBSET Pairs : ChoosePairs(c, ks)
                        \/ LockPairs(c) \/ DeletePairs(c)
                        \/ \E p \in Presentations : CheckDraft(c, p)
                        \/ WriteDraft(c)
                        \/ \E m \in Submodalities : CheckCriteria(c, m)
                        \/ ReplaceCriteria(c) \/ ReadOrder(c) \/ WriteOrder(c)
                        \/ Abandon(c)
    \/ \E k \in Pairs : EditScore(k) \/ AssignJudge(k)
    \/ \E p \in Presentations : SetDisqualified(p) \/ RemoveChoreography(p)

Spec == Init /\ [][Next]_vars

-----------------------------------------------------------------------------
\* SAFETY

\* A score never names a take that storage has lost: a save that keeps the take
\* it read and one that replaces it do not both commit on what they read.
TakeIsStored == \A k \in Pairs : score[k].take # NoTake => score[k].take \in stored

\* Whatever a save was doing, a choreography withdrawn or deleted has neither a
\* score nor a disqualification: competitive history is never lost.
RemovedWasNeverJudged == \A p \in Presentations : stage[p] # "on" => ~Evaluated(p)

\* A save that commits on a disqualified presentation leaves the value exactly
\* as it stood, even when the disqualification came while it was being prepared:
\* reinstating brings the scores back as they were.
DisqualifiedKeepsItsValues ==
    [][\A c \in Calls : call[c].at = "writing" /\ call[c].pair[1] \in disqualified
          => score'[call[c].pair].value = score[call[c].pair].value]_vars
=============================================================================
