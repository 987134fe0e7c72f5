----------------------------- MODULE JudgingProofs -----------------------------
(***************************************************************************)
(* Proofs about Judging: for any panel, presentations and calls, the types *)
(* hold, a recorded take that a score names is in storage, what leaves the *)
(* program was never judged, and a disqualified presentation keeps the     *)
(* values it had.                                                          *)
(***************************************************************************)
EXTENDS Judging, TLAPS

-----------------------------------------------------------------------------
\* THE INDUCTIVE INVARIANT

Saver(c) == call[c].at \in Saving

\* The presentation's lock: one save at a time on each.
SavesAlone ==
    \A c, d \in Calls : c # d /\ Saver(c) /\ Saver(d) => call[c].pair[1] # call[d].pair[1]

\* A take has one score, and the score is a row.
OneOwner ==
    /\ \A k \in Pairs : score[k].take # NoTake => score[k].row
    /\ \A k, l \in Pairs : score[k].take # NoTake /\ score[k].take = score[l].take => k = l

\* Two saves never bring the same take.
TakesApart ==
    \A c, d \in Calls :
        c # d /\ Saver(c) /\ Saver(d) /\ call[c].writes.take # NoTake
           => call[c].writes.take # call[d].writes.take

\* What a save holds still: the presentation is on, the take it read is the
\* score's, and the one it brings is stored and its own.
SaveInv(c) ==
    Saver(c) =>
        /\ call[c].pair \in Pairs /\ stage[call[c].pair[1]] = "on"
        /\ call[c].pair[1] \in disqualified => call[c].writes.value = None
        /\ call[c].before = score[call[c].pair].take
        /\ ~call[c].writes.row => call[c].writes.take = NoTake /\ call[c].before = NoTake
        /\ call[c].writes.take # NoTake => call[c].writes.take \in stored
        /\ call[c].writes.take \notin {NoTake, call[c].before}
              => \A k \in Pairs : score[k].take # call[c].writes.take

\* What a save is about to delete nobody names any more.
DeleteInv(c) ==
    call[c].at = "deleting" /\ call[c].before # NoTake =>
        /\ call[c].before \in 1 .. takes
        /\ \A k \in Pairs : score[k].take # call[c].before
        /\ \A d \in Calls : Saver(d) => call[d].writes.take # call[c].before

SavesInv == /\ SavesAlone /\ OneOwner /\ TakesApart
            /\ \A c \in Calls : SaveInv(c) /\ DeleteInv(c)
IInv == TypeOK /\ TakeIsStored /\ RemovedWasNeverJudged /\ SavesInv

-----------------------------------------------------------------------------
\* TYPES

CallTypes == [at : Saving \cup {"idle", "deleting", "choosing", "removing",
                                "correcting", "replacing", "ordering"},
              pair : Pairs \cup {<<None, None>>}, writes : Scores,
              before : {NoTake} \cup Takes, on : SUBSET Presentations,
              pairs : SUBSET Pairs, doomed : SUBSET Pairs,
              module : Submodalities \cup {None}, free : SUBSET Presentations]

LEMMA NoCallType == NoCall \in CallTypes /\ NoScore \in Scores
BY DEF NoCall, CallTypes, NoScore, Scores, Sheets, NoTake

\* A call that gets fields of the right type leaves the calls well typed.
LEMMA GoType ==
    ASSUME TypeOK, NEW c \in Calls, NEW fields \in CallTypes, Go(c, fields)
    PROVE  call' \in [Calls -> CallTypes]
BY DEF TypeOK, CallTypes, Go

LEMMA EndType ==
    ASSUME TypeOK, NEW c \in Calls, End(c)
    PROVE  call' \in [Calls -> CallTypes]
BY NoCallType DEF TypeOK, CallTypes, End

\* When only the calls move.
LEMMA CallOnlyType ==
    ASSUME TypeOK, UNCHANGED <<program, panel, files>>, call' \in [Calls -> CallTypes]
    PROVE  TypeOK'
BY DEF TypeOK, CallTypes, program, panel, files

LEMMA PrepareType ==
    ASSUME TypeOK, NEW c \in Calls, NEW k \in Pairs, PrepareSave(c, k)
    PROVE  TypeOK'
<1>1. PICK take \in TakesAfter(k) : Prepare(c, k, take)
  BY DEF PrepareSave
<1> DEFINE writes == [row |-> \/ k[1] \notin disqualified \/ take # NoTake \/ score[k].row,
                      value |-> IF k[1] \in disqualified THEN None ELSE Sheet(k[1]),
                      take |-> take]
           fields == [NoCall EXCEPT !.at = "preparing", !.pair = k, !.before = score[k].take,
                                    !.writes = writes]
<1>2. take \in {NoTake} \cup Takes /\ score[k].take \in {NoTake} \cup Takes /\ takes \in Nat
  BY BoundAssumption DEF TypeOK, TakesAfter, Scores, Takes, NoTake
<1>3. Sheet(k[1]) \in Sheets
  BY DEF TypeOK, Sheet, Pairs
<1>4. writes \in Scores
  BY <1>2, <1>3 DEF Scores, TypeOK
<1>5. fields \in CallTypes
  <2> HIDE DEF writes
  <2> QED
    BY <1>2, <1>4, NoCallType DEF CallTypes, NoCall, Saving
<1>6. call' \in [Calls -> CallTypes]
  <2> HIDE DEF fields
  <2>1. call' = [call EXCEPT ![c] = fields]
    BY <1>1 DEF Prepare, Begin, fields
  <2> QED
    BY <1>5, <2>1, GoType DEF Go
<1>7. takes' \in 0 .. MaxTakes /\ stored' \subseteq 1 .. takes'
  BY <1>1, <1>2, BoundAssumption DEF Prepare, TypeOK, Takes, NoTake
<1>8. UNCHANGED <<program, panel>>
  BY <1>1 DEF Prepare
<1> QED
  BY <1>6, <1>7, <1>8 DEF TypeOK, CallTypes, program, panel

LEMMA CommitType ==
    ASSUME TypeOK, NEW c \in Calls, CommitSave(c)
    PROVE  TypeOK'
<1>1. call[c] \in CallTypes /\ score \in [Pairs -> Scores]
  BY DEF TypeOK, CallTypes
<1>2. score' \in [Pairs -> Scores]
  <2>1. \A k \in Pairs : Written(score[k], call[c].writes) \in Scores
    BY <1>1 DEF Written, CallTypes, Scores
  <2> QED
    BY <1>1, <2>1 DEF CommitSave
<1>3. call' \in [Calls -> CallTypes]
  <2> DEFINE fields == [NoCall EXCEPT !.at = "deleting",
                 !.before = IF call[c].before = call[c].writes.take THEN NoTake ELSE call[c].before]
  <2>1. fields \in CallTypes
    <3>1. call[c].before \in {NoTake} \cup Takes
      BY <1>1 DEF CallTypes
    <3> QED
      BY <3>1, NoCallType DEF CallTypes, NoCall
  <2>2. Go(c, fields)
    BY DEF CommitSave
  <2> HIDE DEF fields
  <2> QED
    BY <2>1, <2>2, GoType
<1> QED
  BY <1>2, <1>3 DEF CommitSave, TypeOK, CallTypes, program, files

\* Calls that only read, lock or end.
LEMMA ReadType ==
    ASSUME TypeOK, NEW c \in Calls,
           \/ WriteScore(c) \/ LockPairs(c) \/ ReadOrder(c) \/ Abandon(c)
           \/ \E ks \in SUBSET Pairs : ChoosePairs(c, ks)
           \/ \E p \in Presentations : CheckDraft(c, p)
           \/ \E m \in Submodalities : CheckCriteria(c, m)
    PROVE  TypeOK'
<1>1. UNCHANGED <<program, panel, files>>
  BY DEF WriteScore, LockPairs, ReadOrder, Abandon, ChoosePairs, CheckDraft, CheckCriteria
<1>2. call[c] \in CallTypes
  BY DEF TypeOK, CallTypes
<1>3. CASE WriteScore(c) \/ LockPairs(c)
  <2>1. PICK place \in {"writing", "removing"} : Go(c, [call[c] EXCEPT !.at = place])
    BY <1>3 DEF WriteScore, LockPairs
  <2>2. [call[c] EXCEPT !.at = place] \in CallTypes
    BY <1>2, <2>1 DEF CallTypes, Saving
  <2> QED
    BY <1>1, <2>1, <2>2, GoType, CallOnlyType
<1>4. CASE ReadOrder(c)
  <2> DEFINE fields == [NoCall EXCEPT !.at = "ordering", !.free = Presentations \ Frozen]
  <2>1. fields \in CallTypes /\ Go(c, fields)
    BY <1>4, NoCallType DEF CallTypes, NoCall, ReadOrder, Begin, Go
  <2> HIDE DEF fields
  <2> QED
    BY <1>1, <2>1, GoType, CallOnlyType
<1>5. CASE Abandon(c)
  BY <1>1, <1>5, EndType, CallOnlyType DEF Abandon
<1>6. CASE \E ks \in SUBSET Pairs : ChoosePairs(c, ks)
  <2>1. PICK ks \in SUBSET Pairs : ChoosePairs(c, ks)
    BY <1>6
  <2> DEFINE on == {k[1] : k \in ks}
             doomed == {k \in ks : ~score[k].row}
             fields == [NoCall EXCEPT !.at = "choosing", !.on = on, !.pairs = ks, !.doomed = doomed]
  <2>2. on \in SUBSET Presentations /\ doomed \in SUBSET Pairs
    BY DEF Pairs
  <2>3. Go(c, fields)
    BY <2>1 DEF ChoosePairs, Begin, Go
  <2> HIDE DEF on, doomed
  <2>4. fields \in CallTypes
    BY <2>2, NoCallType DEF CallTypes, NoCall
  <2> HIDE DEF fields
  <2> QED
    BY <1>1, <2>3, <2>4, GoType, CallOnlyType
<1>7. CASE \E p \in Presentations : CheckDraft(c, p)
  <2>1. PICK p \in Presentations : Go(c, [NoCall EXCEPT !.at = "correcting", !.on = {p}])
    BY <1>7 DEF CheckDraft, Begin, Go
  <2>2. [NoCall EXCEPT !.at = "correcting", !.on = {p}] \in CallTypes
    BY <2>1, NoCallType DEF CallTypes, NoCall
  <2> QED
    BY <1>1, <2>1, <2>2, GoType, CallOnlyType
<1>8. CASE \E m \in Submodalities : CheckCriteria(c, m)
  <2>1. PICK m \in Submodalities : Go(c, [NoCall EXCEPT !.at = "replacing", !.module = m])
    BY <1>8 DEF CheckCriteria, Begin, Go
  <2>2. [NoCall EXCEPT !.at = "replacing", !.module = m] \in CallTypes
    BY <2>1, NoCallType DEF CallTypes, NoCall
  <2> QED
    BY <1>1, <2>1, <2>2, GoType, CallOnlyType
<1> QED
  BY <1>3, <1>4, <1>5, <1>6, <1>7, <1>8

\* Calls that end with a write of their own.
LEMMA EndingType ==
    ASSUME TypeOK, NEW c \in Calls,
           DeleteTake(c) \/ DeletePairs(c) \/ WriteDraft(c) \/ ReplaceCriteria(c) \/ WriteOrder(c)
    PROVE  TypeOK'
<1>1. call' \in [Calls -> CallTypes]
  BY EndType DEF DeleteTake, DeletePairs, WriteDraft, ReplaceCriteria, WriteOrder
<1>2. CASE DeleteTake(c)
  BY <1>1, <1>2 DEF DeleteTake, TypeOK, CallTypes, program, panel
<1>3. CASE DeletePairs(c)
  BY <1>1, <1>3 DEF DeletePairs, TypeOK, CallTypes, program, files
<1>4. CASE WriteDraft(c)
  BY <1>1, <1>4 DEF WriteDraft, TypeOK, CallTypes, panel, files
<1>5. CASE ReplaceCriteria(c)
  <2>1. criteria' \in [Submodalities -> Sheets] /\ sheets' \in Sheets
    BY <1>5, BoundAssumption DEF ReplaceCriteria, TypeOK, Sheets, Single
  <2> QED
    BY <1>1, <1>5, <2>1 DEF ReplaceCriteria, TypeOK, CallTypes, panel, files
<1>6. CASE WriteOrder(c)
  BY <1>1, <1>6 DEF WriteOrder, TypeOK, CallTypes, panel, files
<1> QED
  BY <1>2, <1>3, <1>4, <1>5, <1>6

\* Requests of one step.
LEMMA RequestType ==
    ASSUME TypeOK,
           \/ \E k \in Pairs : EditScore(k) \/ AssignJudge(k)
           \/ \E p \in Presentations : SetDisqualified(p) \/ RemoveChoreography(p)
    PROVE  TypeOK'
<1>1. CASE \E k \in Pairs : EditScore(k)
  <2>1. PICK k \in Pairs : EditScore(k)
    BY <1>1
  <2>2. score[k] \in Scores /\ Sheet(k[1]) \in Sheets
    BY DEF TypeOK, Sheet, Pairs
  <2>3. [score[k] EXCEPT !.value = Sheet(k[1])] \in Scores
    BY <2>2 DEF Scores
  <2> QED
    BY <2>1, <2>3 DEF EditScore, TypeOK, CallTypes, program, files
<1>2. CASE \E k \in Pairs : AssignJudge(k)
  BY <1>2 DEF AssignJudge, TypeOK, CallTypes, program, files
<1>3. CASE \E p \in Presentations : SetDisqualified(p)
  BY <1>3 DEF SetDisqualified, TypeOK, CallTypes, panel, files
<1>4. CASE \E p \in Presentations : RemoveChoreography(p)
  BY <1>4 DEF RemoveChoreography, TypeOK, CallTypes, files
<1> QED
  BY <1>1, <1>2, <1>3, <1>4

LEMMA TypeStep ==
    ASSUME TypeOK, [Next]_vars
    PROVE  TypeOK'
<1>1. CASE UNCHANGED vars
  BY <1>1 DEF vars, TypeOK, CallTypes, program, panel, files
<1>2. CASE Next
  BY <1>2, PrepareType, CommitType, ReadType, EndingType, RequestType DEF Next
<1> QED
  BY <1>1, <1>2

-----------------------------------------------------------------------------
\* SAVES

Kernel == <<stage, disqualified, score, stored, takes>>

\* A step that leaves what a save holds still alone, and moves no call into a
\* save or a delete.
LEMMA QuietStep ==
    ASSUME IInv, UNCHANGED Kernel,
           \A c \in Calls :
              /\ Saver(c)' => /\ Saver(c) /\ call'[c].pair = call[c].pair
                              /\ call'[c].writes = call[c].writes /\ call'[c].before = call[c].before
              /\ call'[c].at = "deleting" => call[c].at = "deleting" /\ call'[c].before = call[c].before
    PROVE  TakeIsStored' /\ RemovedWasNeverJudged' /\ SavesInv'
<1>1. TakeIsStored' /\ RemovedWasNeverJudged' /\ OneOwner'
  BY DEF IInv, SavesInv, TakeIsStored, RemovedWasNeverJudged, Evaluated, IsScored, OneOwner, Kernel
<1>2. SavesAlone' /\ TakesApart'
  BY DEF IInv, SavesInv, SavesAlone, TakesApart
<1>3. ASSUME NEW c \in Calls
      PROVE  SaveInv(c)' /\ DeleteInv(c)'
  <2>1. SaveInv(c) /\ DeleteInv(c)
    BY DEF IInv, SavesInv
  <2>2. SaveInv(c)'
    BY <2>1 DEF SaveInv, Kernel
  <2>3. DeleteInv(c)'
    BY <2>1 DEF DeleteInv, Kernel
  <2> QED
    BY <2>2, <2>3
<1> QED
  BY <1>1, <1>2, <1>3 DEF SavesInv

\* A call that goes elsewhere than into a save or a delete.
LEMMA LeaveStep ==
    ASSUME IInv, UNCHANGED Kernel, NEW c \in Calls, NEW fields, Go(c, fields),
           fields.at \notin Saving \cup {"deleting"}
    PROVE  TakeIsStored' /\ RemovedWasNeverJudged' /\ SavesInv'
<1>1. \A d \in Calls : call'[d] = IF d = c THEN fields ELSE call[d]
  BY DEF Go, IInv, TypeOK
<1>2. \A d \in Calls :
        /\ Saver(d)' => /\ Saver(d) /\ call'[d].pair = call[d].pair
                        /\ call'[d].writes = call[d].writes /\ call'[d].before = call[d].before
        /\ call'[d].at = "deleting" => call[d].at = "deleting" /\ call'[d].before = call[d].before
  BY <1>1 DEF Saver
<1> QED
  BY <1>2, QuietStep

LEMMA PrepareStep ==
    ASSUME IInv, NEW c \in Calls, NEW k \in Pairs, PrepareSave(c, k)
    PROVE  TakeIsStored' /\ RemovedWasNeverJudged' /\ SavesInv'
<1>1. PICK take \in TakesAfter(k) : Prepare(c, k, take)
  BY DEF PrepareSave
<1> DEFINE writes == [row |-> \/ k[1] \notin disqualified \/ take # NoTake \/ score[k].row,
                      value |-> IF k[1] \in disqualified THEN None ELSE Sheet(k[1]),
                      take |-> take]
<1>2. /\ call[c].at = "idle" /\ stage[k[1]] = "on"
      /\ \A d \in Calls : Saver(d) => call[d].pair[1] # k[1]
  BY <1>1 DEF PrepareSave, PresentationFree, Prepare, Begin, Saver
<1>3. /\ call'[c].at = "preparing" /\ call'[c].pair = k /\ call'[c].before = score[k].take
      /\ call'[c].writes = writes
      /\ \A d \in Calls \ {c} : call'[d] = call[d]
  <2> HIDE DEF writes
  <2>1. call' = [call EXCEPT ![c] = [NoCall EXCEPT !.at = "preparing", !.pair = k,
                                            !.before = score[k].take, !.writes = writes]]
    BY <1>1 DEF Prepare, Begin, writes
  <2> QED
    BY <2>1 DEF NoCall, IInv, TypeOK
<1>4. /\ UNCHANGED <<stage, disqualified, score>>
      /\ takes' = (IF take > takes THEN take ELSE takes)
      /\ stored' = stored \cup (takes + 1 .. take)
  BY <1>1 DEF Prepare, program, panel
<1>5. /\ takes \in Nat /\ stored \subseteq 1 .. takes
      /\ take \in {score[k].take, NoTake, takes + 1}
      /\ \A l \in Pairs : score[l].take \in {NoTake} \cup (1 .. takes)
  <2>1. takes \in Nat /\ stored \subseteq 1 .. takes
    BY BoundAssumption DEF IInv, TypeOK
  <2>2. take \in {score[k].take, NoTake, takes + 1}
    BY DEF TakesAfter
  <2>3. \A l \in Pairs : score[l].take \in {NoTake} \cup (1 .. takes)
    BY <2>1 DEF IInv, TakeIsStored
  <2> QED
    BY <2>1, <2>2, <2>3
<1>6. TakeIsStored' /\ RemovedWasNeverJudged' /\ OneOwner'
  BY <1>4 DEF IInv, SavesInv, TakeIsStored, RemovedWasNeverJudged, Evaluated, IsScored, OneOwner
<1>7. Saver(c)' /\ ~Saver(c) /\ \A d \in Calls \ {c} : Saver(d)' = Saver(d)
  BY <1>2, <1>3 DEF Saver, Saving
<1>8. SavesAlone'
  BY <1>2, <1>3, <1>7 DEF IInv, SavesInv, SavesAlone
<1>9. take # NoTake => take \in stored'
  BY <1>4, <1>5, <1>6 DEF IInv, TakeIsStored, NoTake
<1>10. ASSUME NEW d \in Calls \ {c}, Saver(d), take # NoTake
       PROVE  call[d].writes.take # take
  <2>1. call[d].pair \in Pairs /\ call[d].pair # k /\ SaveInv(d) /\ OneOwner
    BY <1>2, <1>10 DEF IInv, SavesInv, SaveInv
  <2>2. CASE take = score[k].take
    <3>1. call[d].before # take
      BY <1>10, <2>1, <2>2 DEF SaveInv, OneOwner
    <3> QED
      BY <1>10, <2>1, <2>2, <3>1 DEF SaveInv
  <2>3. CASE take = takes + 1
    BY <1>5, <1>10, <2>1, <2>3 DEF SaveInv
  <2> QED
    BY <1>5, <1>10, <2>2, <2>3
<1>11. TakesApart'
  BY <1>3, <1>7, <1>10 DEF IInv, SavesInv, TakesApart
<1>12. SaveInv(c)'
  <2>1. writes.row = (k[1] \notin disqualified \/ take # NoTake \/ score[k].row) /\ writes.take = take
        /\ writes.value = (IF k[1] \in disqualified THEN None ELSE Sheet(k[1]))
    OBVIOUS
  <2>2. ~writes.row => take = NoTake /\ score[k].take = NoTake
    BY <2>1 DEF IInv, SavesInv, OneOwner
  <2>3. take \notin {NoTake, score[k].take} => \A l \in Pairs : score[l].take # take
    BY <1>5 DEF NoTake
  <2> HIDE DEF writes
  <2> QED
    BY <1>2, <1>3, <1>4, <1>9, <2>1, <2>2, <2>3 DEF SaveInv
<1>13. DeleteInv(c)'
  BY <1>3 DEF DeleteInv
<1>14. ASSUME NEW d \in Calls \ {c}
       PROVE  SaveInv(d)' /\ DeleteInv(d)'
  <2>1. SaveInv(d) /\ DeleteInv(d) /\ call'[d] = call[d]
    BY <1>3 DEF IInv, SavesInv
  <2>2. SaveInv(d)'
    BY <1>4, <1>7, <2>1 DEF SaveInv
  <2>3. ASSUME call[d].at = "deleting", call[d].before # NoTake
        PROVE  take # call[d].before /\ call[d].before \in 1 .. takes'
    BY <1>4, <1>5, <2>1, <2>3 DEF DeleteInv, NoTake
  <2>4. DeleteInv(d)'
    BY <1>3, <1>4, <1>7, <2>1, <2>3 DEF DeleteInv
  <2> QED
    BY <2>2, <2>4
<1> QED
  BY <1>6, <1>8, <1>11, <1>12, <1>13, <1>14 DEF SavesInv

\* Nothing the save holds still changes while it writes.
LEMMA WriteScoreStep ==
    ASSUME IInv, NEW c \in Calls, WriteScore(c)
    PROVE  TakeIsStored' /\ RemovedWasNeverJudged' /\ SavesInv'
<1>1. UNCHANGED Kernel /\ Go(c, [call[c] EXCEPT !.at = "writing"]) /\ Saver(c)
  BY DEF WriteScore, Kernel, program, panel, files, Saver, Saving
<1>2. call[c] \in CallTypes /\ call \in [Calls -> CallTypes]
  BY DEF IInv, TypeOK, CallTypes
<1>3. /\ call'[c].at = "writing" /\ call'[c].pair = call[c].pair /\ call'[c].writes = call[c].writes
      /\ call'[c].before = call[c].before
      /\ \A d \in Calls \ {c} : call'[d] = call[d]
  BY <1>1, <1>2 DEF Go, CallTypes
<1>4. \A d \in Calls :
        /\ Saver(d)' => /\ Saver(d) /\ call'[d].pair = call[d].pair
                        /\ call'[d].writes = call[d].writes /\ call'[d].before = call[d].before
        /\ call'[d].at = "deleting" => call[d].at = "deleting" /\ call'[d].before = call[d].before
  BY <1>1, <1>3 DEF Saver
<1> QED
  BY <1>1, <1>4, QuietStep

\* The score gets the take that nobody else has, and loses the one it had.
LEMMA CommitSaveStep ==
    ASSUME IInv, NEW c \in Calls, CommitSave(c)
    PROVE  TakeIsStored' /\ RemovedWasNeverJudged' /\ SavesInv'
<1> DEFINE k == call[c].pair
           new == call[c].writes
           old == call[c].before
           doomed == IF old = new.take THEN NoTake ELSE old
<1>1. /\ Saver(c) /\ SaveInv(c) /\ OneOwner /\ TakesApart /\ SavesAlone /\ k \in Pairs
      /\ old = score[k].take /\ call[c] \in CallTypes /\ call \in [Calls -> CallTypes]
      /\ score \in [Pairs -> Scores] /\ stored \subseteq 1 .. takes
  BY DEF CommitSave, IInv, SavesInv, Saver, Saving, SaveInv, TypeOK, CallTypes
<1>2. UNCHANGED <<stage, disqualified, stored, takes>>
  BY DEF CommitSave, program, files
<1>3. /\ \A l \in Pairs : l # k => score'[l] = score[l]
      /\ score'[k].row = (new.row \/ score[k].row)
      /\ score'[k].take = (IF new.row THEN new.take ELSE score[k].take)
  <2>1. score' = [score EXCEPT ![k] = Written(@, new)]
    BY DEF CommitSave
  <2>2. /\ Written(score[k], new).row = (new.row \/ score[k].row)
        /\ Written(score[k], new).take = (IF new.row THEN new.take ELSE score[k].take)
    BY <1>1 DEF Written, CallTypes, Scores
  <2> QED
    BY <1>1, <2>1, <2>2
<1>4. /\ call'[c].at = "deleting" /\ call'[c].before = doomed
      /\ \A d \in Calls \ {c} : call'[d] = call[d]
  <2> HIDE DEF doomed
  <2>1. call' = [call EXCEPT ![c] = [NoCall EXCEPT !.at = "deleting", !.before = doomed]]
    BY DEF CommitSave, Go, doomed
  <2> QED
    BY <1>1, <2>1 DEF NoCall
<1>5. ~Saver(c)' /\ \A d \in Calls \ {c} : Saver(d)' = Saver(d)
  BY <1>4 DEF Saver, Saving
<1>6. score'[k].take \in {NoTake, old, new.take} /\ (score'[k].take = old \/ new.row)
  BY <1>1, <1>3
<1>7. TakeIsStored'
  <2>1. old # NoTake => old \in stored
    BY <1>1 DEF IInv, TakeIsStored
  <2>2. new.take # NoTake => new.take \in stored
    BY <1>1 DEF SaveInv
  <2> QED
    BY <1>2, <1>3, <1>6, <2>1, <2>2 DEF IInv, TakeIsStored
<1>8. RemovedWasNeverJudged'
  <2>1. stage[k[1]] = "on"
    BY <1>1 DEF SaveInv
  <2>2. \A p \in Presentations : stage[p] # "on" => \A j \in Judges : <<p, j>> # k
    BY <2>1
  <2> QED
    BY <1>2, <1>3, <2>2 DEF IInv, RemovedWasNeverJudged, Evaluated, IsScored, Pairs
<1>9. \A l \in Pairs : l # k /\ score'[k].take # NoTake => score[l].take # score'[k].take
  <2>1. CASE score'[k].take = old
    BY <1>1, <2>1 DEF OneOwner
  <2>2. CASE score'[k].take # old
    BY <1>1, <1>6, <2>2 DEF SaveInv
  <2> QED
    BY <2>1, <2>2
<1>10. OneOwner'
  <2>1. \A l \in Pairs : score'[l].take # NoTake => score'[l].row
    BY <1>1, <1>3 DEF OneOwner
  <2>2. ASSUME NEW l \in Pairs, NEW m \in Pairs, score'[l].take # NoTake, score'[l].take = score'[m].take
        PROVE  l = m
    BY <1>1, <1>3, <1>9, <2>2 DEF OneOwner
  <2> QED
    BY <2>1, <2>2 DEF OneOwner
<1>11. SavesAlone' /\ TakesApart'
  BY <1>1, <1>4, <1>5 DEF SavesAlone, TakesApart
<1>12. SaveInv(c)'
  BY <1>5 DEF SaveInv
\* Another save is on another presentation, and its take is not this one's.
<1>13. ASSUME NEW d \in Calls \ {c}, Saver(d)
       PROVE  /\ call[d].pair \in Pairs /\ call[d].pair # k /\ SaveInv(d)
              /\ old # NoTake => call[d].writes.take # old /\ call[d].before # old
              /\ new.take # NoTake => call[d].writes.take # new.take
  <2>1. SaveInv(d) /\ call[d].pair \in Pairs /\ call[d].pair # k
    BY <1>1, <1>13 DEF IInv, SavesInv, SaveInv, SavesAlone
  <2>2. old # NoTake => call[d].before # old
    BY <1>1, <1>13, <2>1 DEF SaveInv, OneOwner
  <2>3. old # NoTake => call[d].writes.take # old
    BY <1>1, <1>13, <2>1, <2>2 DEF SaveInv
  <2>4. new.take # NoTake => call[d].writes.take # new.take
    BY <1>1, <1>13 DEF TakesApart
  <2> QED
    BY <2>1, <2>2, <2>3, <2>4
<1>14. DeleteInv(c)'
  <2> SUFFICES ASSUME doomed # NoTake
               PROVE  /\ old \in 1 .. takes /\ old # new.take
                      /\ \A l \in Pairs : score'[l].take # old
                      /\ \A d \in Calls : Saver(d)' => call'[d].writes.take # old
    BY <1>2, <1>4 DEF DeleteInv
  <2>1. old # NoTake /\ old # new.take /\ new.row
    BY <1>1 DEF SaveInv
  <2>2. old \in 1 .. takes
    BY <1>1, <2>1 DEF IInv, TakeIsStored
  <2>3. \A l \in Pairs : score'[l].take # old
    BY <1>1, <1>3, <2>1 DEF OneOwner
  <2>4. \A d \in Calls : Saver(d)' => call'[d].writes.take # old
    BY <1>4, <1>5, <1>13, <2>1
  <2> QED
    BY <2>1, <2>2, <2>3, <2>4
<1>15. ASSUME NEW d \in Calls \ {c}
       PROVE  SaveInv(d)' /\ DeleteInv(d)'
  <2>1. DeleteInv(d) /\ call'[d] = call[d] /\ Saver(d)' = Saver(d)
    BY <1>4, <1>5 DEF IInv, SavesInv
  <2>2. SaveInv(d)'
    <3> SUFFICES ASSUME Saver(d)
                 PROVE  SaveInv(d)'
      BY <2>1 DEF SaveInv
    <3>1. /\ call[d].pair # k /\ SaveInv(d) /\ score'[call[d].pair] = score[call[d].pair]
          /\ call[d].writes.take # NoTake => call[d].writes.take # score'[k].take \/ score'[k].take = old
      BY <1>3, <1>6, <1>13
    <3>2. call[d].writes.take \notin {NoTake, call[d].before}
             => \A l \in Pairs : score'[l].take # call[d].writes.take
      <4> SUFFICES ASSUME NEW l \in Pairs, call[d].writes.take \notin {NoTake, call[d].before}
                   PROVE  score'[l].take # call[d].writes.take
        OBVIOUS
      <4>1. \A m \in Pairs : score[m].take # call[d].writes.take
        BY <2>1, <3>1 DEF SaveInv
      <4>2. CASE l = k
        BY <1>1, <3>1, <4>1, <4>2
      <4>3. CASE l # k
        BY <1>3, <4>1, <4>3
      <4> QED
        BY <4>2, <4>3
    <3> QED
      BY <1>2, <2>1, <3>1, <3>2 DEF SaveInv
  <2>3. DeleteInv(d)'
    <3> SUFFICES ASSUME call[d].at = "deleting", call[d].before # NoTake
                 PROVE  DeleteInv(d)'
      BY <2>1 DEF DeleteInv
    <3>1. new.take # call[d].before /\ \A l \in Pairs : score[l].take # call[d].before
      BY <1>1, <2>1 DEF DeleteInv
    <3>2. \A l \in Pairs : score'[l].take # call[d].before
      BY <1>1, <1>3, <1>6, <3>1
    <3>3. \A e \in Calls : Saver(e)' => call'[e].writes.take # call[d].before
      BY <1>4, <1>5, <2>1 DEF DeleteInv
    <3> QED
      BY <1>2, <2>1, <3>2, <3>3 DEF DeleteInv
  <2> QED
    BY <2>2, <2>3
<1> QED
  BY <1>7, <1>8, <1>10, <1>11, <1>12, <1>14, <1>15 DEF SavesInv

LEMMA DeleteTakeStep ==
    ASSUME IInv, NEW c \in Calls, DeleteTake(c)
    PROVE  TakeIsStored' /\ RemovedWasNeverJudged' /\ SavesInv'
<1>1. /\ call[c].at = "deleting" /\ stored' = stored \ {call[c].before}
      /\ UNCHANGED <<stage, disqualified, score, takes>> /\ DeleteInv(c)
      /\ call' = [call EXCEPT ![c] = NoCall] /\ call \in [Calls -> CallTypes]
      /\ stored \subseteq 1 .. takes
  BY DEF DeleteTake, End, program, panel, IInv, SavesInv, TypeOK, CallTypes
<1>2. call'[c] = NoCall /\ ~Saver(c)' /\ \A d \in Calls \ {c} : call'[d] = call[d] /\ Saver(d)' = Saver(d)
  BY <1>1 DEF Saver, Saving, NoCall
<1>3. RemovedWasNeverJudged' /\ OneOwner'
  BY <1>1 DEF IInv, SavesInv, RemovedWasNeverJudged, Evaluated, IsScored, OneOwner
<1>4. TakeIsStored'
  <2>1. \A l \in Pairs : score[l].take # NoTake => score[l].take # call[c].before
    BY <1>1 DEF DeleteInv
  <2> QED
    BY <1>1, <2>1 DEF IInv, TakeIsStored
<1>5. SavesAlone' /\ TakesApart'
  BY <1>2 DEF IInv, SavesInv, SavesAlone, TakesApart
<1>6. SaveInv(c)' /\ DeleteInv(c)'
  BY <1>2 DEF SaveInv, DeleteInv, NoCall
<1>7. ASSUME NEW d \in Calls \ {c}
      PROVE  SaveInv(d)' /\ DeleteInv(d)'
  <2>1. SaveInv(d) /\ DeleteInv(d) /\ call'[d] = call[d] /\ Saver(d)' = Saver(d)
    BY <1>2 DEF IInv, SavesInv
  <2>2. Saver(d) /\ call[d].writes.take # NoTake => call[d].writes.take # call[c].before
    BY <1>1 DEF DeleteInv
  <2>3. SaveInv(d)'
    BY <1>1, <2>1, <2>2 DEF SaveInv
  <2>4. DeleteInv(d)'
    BY <1>1, <1>2, <2>1 DEF DeleteInv
  <2> QED
    BY <2>3, <2>4
<1> QED
  BY <1>3, <1>4, <1>5, <1>6, <1>7 DEF SavesInv

\* Requests of one step: a value edited, a disqualification, a removal.
LEMMA RequestStep ==
    ASSUME IInv,
           \/ \E k \in Pairs : EditScore(k) \/ AssignJudge(k)
           \/ \E p \in Presentations : SetDisqualified(p) \/ RemoveChoreography(p)
    PROVE  TakeIsStored' /\ RemovedWasNeverJudged' /\ SavesInv'
<1>1. CASE \E k \in Pairs : EditScore(k)
  <2>1. PICK k \in Pairs : EditScore(k)
    BY <1>1
  <2>2. /\ \A l \in Pairs : score'[l].row = score[l].row /\ score'[l].take = score[l].take
        /\ UNCHANGED <<stage, disqualified, stored, takes, call>>
    BY <2>1 DEF EditScore, program, files, IInv, TypeOK, Scores
  <2>3. TakeIsStored' /\ RemovedWasNeverJudged' /\ OneOwner' /\ SavesAlone' /\ TakesApart'
    BY <2>2 DEF IInv, SavesInv, TakeIsStored, RemovedWasNeverJudged, Evaluated, IsScored, Pairs, OneOwner,
       SavesAlone, TakesApart, Saver
  <2>4. \A c \in Calls : SaveInv(c)' /\ DeleteInv(c)'
    BY <2>2 DEF IInv, SavesInv, SaveInv, DeleteInv, Saver
  <2> QED
    BY <2>3, <2>4 DEF SavesInv
<1>2. CASE \E k \in Pairs : AssignJudge(k)
  BY <1>2, QuietStep DEF AssignJudge, Kernel, program, files, Saver
<1>3. CASE \E p \in Presentations : SetDisqualified(p)
  <2>1. PICK p \in Presentations : SetDisqualified(p)
    BY <1>3
  <2>2. /\ stage[p] = "on" /\ \A q : q # p => (q \in disqualified' <=> q \in disqualified)
        /\ UNCHANGED <<stage, score, stored, takes, call>>
        /\ \A c \in Calls : Saver(c) => call[c].pair[1] # p
    BY <2>1 DEF SetDisqualified, panel, files, PresentationFree, Saver
  <2>3. TakeIsStored' /\ RemovedWasNeverJudged' /\ OneOwner' /\ SavesAlone' /\ TakesApart'
    BY <2>2 DEF IInv, SavesInv, TakeIsStored, RemovedWasNeverJudged, Evaluated, IsScored, OneOwner,
       SavesAlone, TakesApart, Saver
  <2>4. \A c \in Calls : SaveInv(c)' /\ DeleteInv(c)'
    BY <2>2 DEF IInv, SavesInv, SaveInv, DeleteInv, Saver
  <2> QED
    BY <2>3, <2>4 DEF SavesInv
<1>4. CASE \E p \in Presentations : RemoveChoreography(p)
  <2>1. PICK p \in Presentations : RemoveChoreography(p)
    BY <1>4
  <2>2. /\ ~Evaluated(p) /\ \A q \in Presentations : q # p => stage'[q] = stage[q]
        /\ UNCHANGED <<disqualified, score, stored, takes, call>>
        /\ \A c \in Calls : Saver(c) => call[c].pair[1] # p
    BY <2>1 DEF RemoveChoreography, files, PresentationFree, Saver, IInv, TypeOK
  <2>3. TakeIsStored' /\ RemovedWasNeverJudged' /\ OneOwner' /\ SavesAlone' /\ TakesApart'
    BY <2>2 DEF IInv, SavesInv, TakeIsStored, RemovedWasNeverJudged, Evaluated, IsScored, OneOwner,
       SavesAlone, TakesApart, Saver
  <2>4. \A c \in Calls : SaveInv(c)' /\ DeleteInv(c)'
    BY <2>2 DEF IInv, SavesInv, SaveInv, DeleteInv, Saver, Pairs
  <2> QED
    BY <2>3, <2>4 DEF SavesInv
<1> QED
  BY <1>1, <1>2, <1>3, <1>4

LEMMA OtherStep ==
    ASSUME IInv, NEW c \in Calls,
           \/ \E ks \in SUBSET Pairs : ChoosePairs(c, ks)
           \/ LockPairs(c) \/ DeletePairs(c)
           \/ \E p \in Presentations : CheckDraft(c, p)
           \/ WriteDraft(c)
           \/ \E m \in Submodalities : CheckCriteria(c, m)
           \/ ReplaceCriteria(c) \/ ReadOrder(c) \/ WriteOrder(c) \/ Abandon(c)
    PROVE  TakeIsStored' /\ RemovedWasNeverJudged' /\ SavesInv'
<1>1. UNCHANGED Kernel
  BY DEF ChoosePairs, LockPairs, DeletePairs, CheckDraft, WriteDraft, CheckCriteria, ReplaceCriteria,
     ReadOrder, WriteOrder, Abandon, Kernel, program, panel, files
<1>2. call[c] \in CallTypes
  BY DEF IInv, TypeOK, CallTypes
<1>3. CASE LockPairs(c)
  <2>1. Go(c, [call[c] EXCEPT !.at = "removing"]) /\ [call[c] EXCEPT !.at = "removing"].at = "removing"
    BY <1>2, <1>3 DEF LockPairs, CallTypes
  <2> QED
    BY <1>1, <2>1, LeaveStep DEF Saving
<1>4. CASE DeletePairs(c) \/ WriteDraft(c) \/ ReplaceCriteria(c) \/ WriteOrder(c) \/ Abandon(c)
  <2>1. Go(c, NoCall)
    BY <1>4 DEF DeletePairs, WriteDraft, ReplaceCriteria, WriteOrder, Abandon, End, Go
  <2>2. NoCall.at \notin Saving \cup {"deleting"}
    BY DEF NoCall, Saving
  <2> QED
    BY <1>1, <2>1, <2>2, LeaveStep
<1>5. CASE \E ks \in SUBSET Pairs : ChoosePairs(c, ks)
  <2>1. PICK ks \in SUBSET Pairs : ChoosePairs(c, ks)
    BY <1>5
  <2> DEFINE on == {k[1] : k \in ks}
             doomed == {k \in ks : ~score[k].row}
             fields == [NoCall EXCEPT !.at = "choosing", !.on = on, !.pairs = ks, !.doomed = doomed]
  <2>2. Go(c, fields)
    BY <2>1 DEF ChoosePairs, Begin, Go
  <2> HIDE DEF on, doomed
  <2>3. fields.at \notin Saving \cup {"deleting"}
    BY DEF NoCall, Saving
  <2> HIDE DEF fields
  <2> QED
    BY <1>1, <2>2, <2>3, LeaveStep
<1>6. CASE \E p \in Presentations : CheckDraft(c, p)
  <2>1. PICK on : Go(c, [NoCall EXCEPT !.at = "correcting", !.on = on])
    BY <1>6 DEF CheckDraft, Begin, Go
  <2>2. [NoCall EXCEPT !.at = "correcting", !.on = on].at \notin Saving \cup {"deleting"}
    BY DEF NoCall, Saving
  <2> QED
    BY <1>1, <2>1, <2>2, LeaveStep
<1>7. CASE \E m \in Submodalities : CheckCriteria(c, m)
  <2>1. PICK m : Go(c, [NoCall EXCEPT !.at = "replacing", !.module = m])
    BY <1>7 DEF CheckCriteria, Begin, Go
  <2>2. [NoCall EXCEPT !.at = "replacing", !.module = m].at \notin Saving \cup {"deleting"}
    BY DEF NoCall, Saving
  <2> QED
    BY <1>1, <2>1, <2>2, LeaveStep
<1>8. CASE ReadOrder(c)
  <2>1. PICK free : Go(c, [NoCall EXCEPT !.at = "ordering", !.free = free])
    BY <1>8 DEF ReadOrder, Begin, Go
  <2>2. [NoCall EXCEPT !.at = "ordering", !.free = free].at \notin Saving \cup {"deleting"}
    BY DEF NoCall, Saving
  <2> QED
    BY <1>1, <2>1, <2>2, LeaveStep
<1> QED
  BY <1>3, <1>4, <1>5, <1>6, <1>7, <1>8

\* The invariant holds in every state, however the calls and their steps interleave.
THEOREM Inductive == Spec => []IInv
<1>1. Init => IInv
  <2> SUFFICES ASSUME Init
               PROVE  IInv
    OBVIOUS
  <2>1. TypeOK
    <3>1. number \in [Presentations -> Places]
          /\ \A p, q \in Presentations : p # q => number[p] # number[q]
      BY DEF Init
    <3> QED
      BY <3>1, NoCallType, BoundAssumption DEF Init, TypeOK, CallTypes, Sheets, Single
  <2>2. TakeIsStored /\ RemovedWasNeverJudged
    BY DEF Init, TakeIsStored, RemovedWasNeverJudged, NoScore, NoTake
  <2>3. SavesInv
    BY DEF Init, SavesInv, SavesAlone, OneOwner, TakesApart, SaveInv, DeleteInv, Saver, Saving, NoCall,
       NoScore, NoTake
  <2> QED
    BY <2>1, <2>2, <2>3 DEF IInv
<1>2. IInv /\ [Next]_vars => IInv'
  <2> SUFFICES ASSUME IInv, [Next]_vars
               PROVE  TakeIsStored' /\ RemovedWasNeverJudged' /\ SavesInv'
    BY TypeStep DEF IInv
  <2>1. CASE UNCHANGED vars
    <3>1. UNCHANGED Kernel /\ call' = call
      BY <2>1 DEF vars, Kernel, program, panel, files
    <3> QED
      BY <3>1, QuietStep DEF Saver
  <2>2. CASE Next
    BY <2>2, PrepareStep, WriteScoreStep, CommitSaveStep, DeleteTakeStep, RequestStep, OtherStep DEF Next
  <2> QED
    BY <2>1, <2>2
<1> QED
  BY <1>1, <1>2, PTL DEF Spec

-----------------------------------------------------------------------------
\* THE THEOREMS

\* Type correctness, for any panel, schedule and calls.
THEOREM TypeCorrect == Spec => []TypeOK
<1>1. IInv => TypeOK
  BY DEF IInv
<1> QED
  BY <1>1, Inductive, PTL

\* A score never names a take that storage has lost, whatever saves of the same
\* score overlap, fail or die (saveJudgeScore).
THEOREM TakesAreStored == Spec => []TakeIsStored
<1>1. IInv => TakeIsStored
  BY DEF IInv
<1> QED
  BY <1>1, Inductive, PTL

\* Nothing that leaves the program had been judged, whatever save was on its way
\* (removeChoreography).
THEOREM RemovedNeverJudged == Spec => []RemovedWasNeverJudged
<1>1. IInv => RemovedWasNeverJudged
  BY DEF IInv
<1> QED
  BY <1>1, Inductive, PTL

\* A save that ends on a disqualified presentation leaves the value as it was,
\* whatever else is edited meanwhile (saveJudgeScore, setPresentationDisqualified).
THEOREM ValuesOutliveDisqualification == Spec => DisqualifiedKeepsItsValues
<1>1. ASSUME IInv, [Next]_vars, NEW c \in Calls, call[c].at = "writing",
             call[c].pair[1] \in disqualified
      PROVE  score'[call[c].pair].value = score[call[c].pair].value
  <2> DEFINE k == call[c].pair
  <2>1. Saver(c) /\ SaveInv(c) /\ k \in Pairs /\ call[c].writes.value = None
        /\ score \in [Pairs -> Scores]
    BY <1>1 DEF IInv, SavesInv, Saver, Saving, SaveInv, TypeOK
  <2>2. CASE \E d \in Calls : CommitSave(d)
    <3>1. PICK d \in Calls : CommitSave(d)
      BY <2>2
    <3>2. score' = [score EXCEPT ![call[d].pair] = Written(@, call[d].writes)] /\ Saver(d)
      BY <3>1 DEF CommitSave, Saver, Saving
    <3>3. CASE d = c
      <4>1. Written(score[k], call[c].writes).value = score[k].value
        BY <1>1, <2>1 DEF Written, IInv, TypeOK, Scores
      <4> QED
        BY <2>1, <3>2, <3>3, <4>1
    <3>4. CASE d # c
      <4>1. call[d].pair # k
        BY <1>1, <2>1, <3>2, <3>4 DEF IInv, SavesInv, SavesAlone
      <4> QED
        BY <2>1, <3>2, <4>1
    <3> QED
      BY <3>3, <3>4
  <2>3. CASE \E l \in Pairs : EditScore(l)
    BY <1>1, <2>1, <2>3 DEF EditScore, ScoreFree
  <2>4. CASE score' = score
    BY <2>4
  <2>5. (\E d \in Calls : CommitSave(d)) \/ (\E l \in Pairs : EditScore(l)) \/ score' = score
    BY <1>1 DEF Next, vars, program, panel, files, PrepareSave, Prepare, WriteScore, DeleteTake, ChoosePairs,
       LockPairs, DeletePairs, CheckDraft, WriteDraft, CheckCriteria, ReplaceCriteria, ReadOrder, WriteOrder,
       Abandon, AssignJudge, SetDisqualified, RemoveChoreography
  <2> QED
    BY <2>2, <2>3, <2>4, <2>5
<1>2. IInv /\ [Next]_vars => [\A c \in Calls : call[c].at = "writing" /\ call[c].pair[1] \in disqualified
          => score'[call[c].pair].value = score[call[c].pair].value]_vars
  BY <1>1
<1> QED
  BY <1>2, Inductive, PTL DEF Spec, DisqualifiedKeepsItsValues
=============================================================================
