-------------------------- MODULE ScheduleCapacity --------------------------
(***************************************************************************)
(* Who occupies the schedules of an event: registrations, draft saves that *)
(* move a choreography or change what it is, corrections of a birth date,  *)
(* which do so to all the choreographies of one dancer at once, removals,  *)
(* and the administration editing a schedule or its entry of capacity.     *)
(*                                                                         *)
(* A write takes one lock at a time and decides on what is committed then; *)
(* options are read before any lock.  A correction knows a choreography    *)
(* only as it read it; a draft save locks its row.                         *)
(*                                                                         *)
(* A kind is a category; the modality, which a schedule accepts or not in  *)
(* the same way and no correction touches, is the same for all.            *)
(* There is one group type, so a schedule has at most one entry.           *)
(* A definition named D_x above D is what D would be with one slip, x.     *)
(***************************************************************************)
EXTENDS Integers, FiniteSets, Functions

CONSTANTS
    Calls,          \* requests that may be running at one moment
    Choreographies, \* bound: choreographies ever registered at a time
    Schedules,
    Kinds,
    Plans,          \* what a schedule may be given: <<total, accepted kinds, entry>>
    Capacities,     \* what its entry alone may be given; 0 is no entry
    Null            \* no schedule, no kind

ASSUME NullAssumption == Null \notin Schedules \cup Kinds
ASSUME CallsAssumption == Schedules \cap Choreographies = {}
ASSUME ChoreographiesAssumption == IsFiniteSet(Choreographies)
ASSUME PlansAssumption ==
    /\ Plans \subseteq (Nat \X (SUBSET Kinds) \X Nat)
    /\ \A plan \in Plans : plan[3] <= plan[1]
    /\ Capacities \subseteq Nat

VARIABLES
    total,    \* schedule.totalCapacity
    accepts,  \* schedule_category; without rows, all of them
    entry,    \* the capacity of its schedule_capacity row, 0 when there is none
    row,      \* the choreographies
    call      \* each call's place and local variables

bases == <<total, accepts, entry>>
vars == <<bases, row, call>>

-----------------------------------------------------------------------------
\* TYPES

\* slot: the schedule whose entry it points at, Null when it uses the total.
\* NoRow: not registered, or withdrawn, which holds no place and is final.
NoRow == [kind |-> Null, at |-> Null, slot |-> Null]
Rows == [kind : Kinds, at : Schedules, slot : Schedules \cup {Null}]

\* read: the rows a call decides on.  writes: what it will leave in them.  next:
\* the choreography and the row a correction is about to ask a place for.
\* becomes: the kinds a correction gives.  held: the schedules and the choreographies
\* a call has locked.
\* plan, size: the schedule, what it or its entry is given, and whether it had an
\* entry when it was read.
NoCall == [at |-> "idle", read |-> <<>>, writes |-> <<>>, next |-> <<>>,
           held |-> {}, becomes |-> <<>>, plan |-> <<>>, size |-> <<>>]
Places == {"idle", "registering", "saving", "placing", "correcting", "asking",
           "editing", "sizing", "writing"}

TypeOK ==
    /\ total \in [Schedules -> Nat]
    /\ accepts \in [Schedules -> SUBSET Kinds]
    /\ entry \in [Schedules -> Nat]
    /\ row \in [Choreographies -> Rows \cup {NoRow}]
    /\ \A c \in Calls :
        /\ call[c].at \in Places
        /\ DOMAIN call[c].writes \subseteq Choreographies
        /\ call[c].held \subseteq Schedules \cup Choreographies

Init ==
    /\ \E plan \in [Schedules -> Plans] :
        /\ total = [s \in Schedules |-> plan[s][1]]
        /\ accepts = [s \in Schedules |-> plan[s][2]]
        /\ entry = [s \in Schedules |-> plan[s][3]]
    /\ row = [x \in Choreographies |-> NoRow]
    /\ call = [c \in Calls |-> NoCall]

-----------------------------------------------------------------------------
\* PLACES

Occupies(x) == row[x] # NoRow
On(s) == {x \in Choreographies : Occupies(x) /\ row[x].at = s}
InEntry(s) == {x \in Choreographies : Occupies(x) /\ row[x].slot = s}
Misplaced(x) == Occupies(x) /\ row[x].kind \notin accepts[row[x].at]

\* The option a compatible schedule offers: its entry, or its total without one.
SlotOf(s) == IF entry[s] > 0 THEN s ELSE Null
Compatible(kind) == {s \in Schedules : kind \in accepts[s]}
Place(kind, s) == [kind |-> kind, at |-> s, slot |-> SlotOf(s)]

\* Room for this row of x, beside those the same correction has granted.
HasRoom_GrantsUncounted(x, place, granted) ==
    /\ place.slot # Null => Cardinality(InEntry(place.slot) \ {x}) < entry[place.slot]
    /\ Cardinality(On(place.at) \ {x}) < total[place.at]
HasRoom(x, place, granted) ==
    LET grantedTo(s) == {y \in DOMAIN granted : granted[y].at = s}
        grantedIn(s) == {y \in DOMAIN granted : granted[y].slot = s}
    IN  /\ place.slot # Null =>
            Cardinality(InEntry(place.slot) \ {x}) + Cardinality(grantedIn(place.slot))
                < entry[place.slot]
        /\ Cardinality(On(place.at) \ {x}) + Cardinality(grantedTo(place.at))
                < total[place.at]

-----------------------------------------------------------------------------
\* CALLS AND LOCKS

Free(c, key) == \A d \in Calls \ {c} : key \notin call[d].held

\* Whose place a call changes, of those it decided on.
Moves(c) ==
    {x \in DOMAIN call[c].writes :
        x \in DOMAIN call[c].read =>
            <<call[c].writes[x].at, call[c].writes[x].slot>> # <<call[c].read[x].at, call[c].read[x].slot>>}

\* The entry's row is locked with its schedule's, by who is granted a place in it.
EntryFree(s) ==
    \A c \in Calls : s \in call[c].held => \A x \in Moves(c) : call[c].writes[x].slot # s

Go(c, to) == call' = [call EXCEPT ![c] = to]
End(c) == Go(c, NoCall)
Only(x, place) == [y \in {x} |-> place]
And(writes, x, place) == [y \in DOMAIN writes \cup {x} |-> IF y = x THEN place ELSE writes[y]]

\* A rollback, a refusal, a deadlock that Postgres breaks, or a crash.
Abandon(c) ==
    /\ call[c].at # "idle"
    /\ End(c)
    /\ UNCHANGED <<bases, row>>

-----------------------------------------------------------------------------
\* REGISTRATION

ReadRegistration(c, x, kind, s) ==
    /\ call[c].at = "idle"
    /\ row[x] = NoRow
    /\ \A d \in Calls : x \notin DOMAIN call[d].writes \cup DOMAIN call[d].read
    /\ s \in Compatible(kind)
    /\ Go(c, [call[c] EXCEPT !.at = "registering", !.writes = Only(x, Place(kind, s))])
    /\ UNCHANGED <<bases, row>>

\* The schedule's row, and whether it takes the choreography: what the lock of
\* an assignment answers.
Grant(c, x, place, granted) ==
    /\ Free(c, place.at)
    /\ place.kind \in accepts[place.at]
    /\ HasRoom(x, place, granted)

LockRegistration(c) ==
    /\ call[c].at = "registering"
    /\ \E x \in DOMAIN call[c].writes :
        LET place == call[c].writes[x]
        IN  /\ Grant(c, x, place, <<>>)
            /\ Go(c, [call[c] EXCEPT !.at = "writing", !.held = {place.at}])
    /\ UNCHANGED <<bases, row>>

-----------------------------------------------------------------------------
\* DRAFT SAVE

\* The draft's kind, and the option picked for it.
ReadDraft(c, x, kind, s) ==
    /\ call[c].at = "idle"
    /\ Occupies(x)
    /\ s \in Compatible(kind)
    /\ Place(kind, s) # row[x]
    /\ Go(c, [call[c] EXCEPT !.at = "saving", !.read = Only(x, row[x]),
                             !.writes = Only(x, Place(kind, s))])
    /\ UNCHANGED <<bases, row>>

\* The choreography's row; a save decided on another one is refused.
Current_AsRead(c, x) == Occupies(x)
Current(c, x) == row[x] = call[c].read[x]
LockDraft(c) ==
    /\ call[c].at = "saving"
    /\ \E x \in DOMAIN call[c].read :
        /\ Free(c, x)
        /\ Current(c, x)
        /\ Go(c, [call[c] EXCEPT !.at = "placing", !.held = {x}])
    /\ UNCHANGED <<bases, row>>

\* A new place is granted; a new kind on the place it has only has to be accepted.
SettlePlace_StaysAsked(c, x, place) ==
    IF <<place.at, place.slot>> # <<row[x].at, row[x].slot>>
    THEN Grant(c, x, place, <<>>)
    ELSE TRUE
SettlePlace(c, x, place) ==
    IF <<place.at, place.slot>> # <<row[x].at, row[x].slot>>
    THEN Grant(c, x, place, <<>>)
    ELSE Free(c, place.at) /\ place.kind \in accepts[place.at]

PlaceDraft(c) ==
    /\ call[c].at = "placing"
    /\ \E x \in DOMAIN call[c].read :
        LET place == call[c].writes[x]
        IN  /\ SettlePlace(c, x, place)
            /\ Go(c, [call[c] EXCEPT !.at = "writing", !.held = {x, place.at}])
    /\ UNCHANGED <<bases, row>>

-----------------------------------------------------------------------------
\* CORRECTION OF A BIRTH DATE

\* The choreographies it gives another kind, of those not withdrawn.  One that it
\* leaves in its category, with another age or level, is left out: see the README.
ReadCorrection(c, becomes) ==
    /\ call[c].at = "idle"
    /\ DOMAIN becomes # {}
    /\ \A x \in DOMAIN becomes : Occupies(x) /\ becomes[x] # row[x].kind
    /\ Go(c, [call[c] EXCEPT !.at = "correcting",
                !.read = [x \in DOMAIN becomes |-> row[x]],
                !.becomes = becomes])
    /\ UNCHANGED <<bases, row>>

Stays(c, x) == call[c].read[x].at \in Compatible(call[c].becomes[x])

\* The next choreography stays where its new kind is accepted, or has one other
\* schedule to go to; without either the correction is refused whole.
ResolveCorrection(c, x) ==
    /\ call[c].at = "correcting"
    /\ x \in DOMAIN call[c].read \ DOMAIN call[c].writes
    /\ LET kind == call[c].becomes[x]
       IN  \E s \in Schedules :
            /\ IF Stays(c, x) THEN s = call[c].read[x].at ELSE Compatible(kind) = {s}
            /\ Go(c, [call[c] EXCEPT !.at = "asking",
                        !.next = <<x, IF Stays(c, x) THEN [call[c].read[x] EXCEPT !.kind = kind]
                                                     ELSE Place(kind, s)>>])
    /\ UNCHANGED <<bases, row>>

\* What it has granted so far, which is in no row yet.
Granted(c) == Restrict(call[c].writes, Moves(c))

LockCorrection(c) ==
    /\ call[c].at = "asking"
    /\ LET x == call[c].next[1]
           place == call[c].next[2]
           writes == And(call[c].writes, x, place)
       IN  /\ IF place.at = call[c].read[x].at
              THEN Free(c, place.at) /\ place.kind \in accepts[place.at]
              ELSE Grant(c, x, place, Granted(c))
           /\ Go(c, [call[c] EXCEPT !.writes = writes, !.next = <<>>,
                        !.held = @ \cup {place.at},
                        !.at = IF DOMAIN writes = DOMAIN call[c].read
                               THEN "writing" ELSE "correcting"])
    /\ UNCHANGED <<bases, row>>

-----------------------------------------------------------------------------
\* THE WRITE

\* A registration and a save write the row they decided on.
Placed(c) ==
    [x \in Choreographies |-> IF x \in DOMAIN call[c].writes THEN call[c].writes[x] ELSE row[x]]

WritePlaced(c) ==
    /\ call[c].at = "writing" /\ call[c].becomes = <<>>
    /\ row' = Placed(c)
    /\ End(c)
    /\ UNCHANGED bases

\* A correction writes the kind into whatever the row is by now, and the pair of
\* schedule and entry only where it moves it.
Corrected_ByHalves(c, x) ==
    IF x \in Moves(c)
    THEN [row[x] EXCEPT !.kind = call[c].writes[x].kind, !.at = call[c].writes[x].at]
    ELSE [row[x] EXCEPT !.kind = call[c].writes[x].kind]
Corrected(c, x) ==
    IF x \in Moves(c)
    THEN call[c].writes[x]
    ELSE [row[x] EXCEPT !.kind = call[c].writes[x].kind]

WriteCorrection(c) ==
    /\ call[c].at = "writing" /\ call[c].becomes # <<>>
    /\ \A x \in DOMAIN call[c].writes : Free(c, x)
    /\ row' = [x \in Choreographies |->
                IF x \in DOMAIN call[c].writes /\ Occupies(x)
                THEN Corrected(c, x) ELSE row[x]]
    /\ End(c)
    /\ UNCHANGED bases

-----------------------------------------------------------------------------
\* REMOVAL

\* Deleted, or withdrawn when there is evidence to keep.
RemoveChoreography(x) ==
    /\ Occupies(x)
    /\ \A c \in Calls : x \notin call[c].held
    /\ row' = [row EXCEPT ![x] = NoRow]
    /\ UNCHANGED <<bases, call>>

-----------------------------------------------------------------------------
\* SCHEDULES

\* The entry is judged before any lock: its capacity moves freely above what
\* occupies it, and it goes when nothing does.
EntryAllowed(s, capacity) ==
    entry[s] > 0 /\ capacity # entry[s] => Cardinality(InEntry(s)) <= capacity

\* What an edit does to the entry it read: a foreign key refuses to delete one a
\* choreography occupies, a unique index to create a second one.
EntryWritable(s, had, capacity) ==
    /\ had /\ capacity = 0 => InEntry(s) = {}
    /\ ~had /\ capacity > 0 => entry[s] = 0
EntryAfter(s, had, capacity) ==
    [entry EXCEPT ![s] = IF had = (@ > 0) THEN capacity ELSE @]

ReadEdit(c, s, plan) ==
    /\ call[c].at = "idle"
    /\ EntryAllowed(s, plan[3])
    /\ Go(c, [call[c] EXCEPT !.at = "editing", !.plan = <<s, plan, entry[s] > 0>>])
    /\ UNCHANGED <<bases, row>>

\* Under the schedule's lock: it still accepts and holds what occupies it.
EditAllowed_BeforeTheLock(s, plan) == TRUE
EditAllowed(s, plan) ==
    /\ \A x \in On(s) : row[x].kind \in plan[2]
    /\ plan[1] = total[s] \/ Cardinality(On(s)) <= plan[1]

Edit(c) ==
    /\ call[c].at = "editing"
    /\ LET s == call[c].plan[1]
           plan == call[c].plan[2]
           had == call[c].plan[3]
       IN  /\ \A d \in Calls : s \notin call[d].held
           /\ EditAllowed(s, plan)
           /\ EntryWritable(s, had, plan[3])
           /\ total' = [total EXCEPT ![s] = plan[1]]
           /\ accepts' = [accepts EXCEPT ![s] = plan[2]]
           /\ entry' = EntryAfter(s, had, plan[3])
    /\ End(c)
    /\ UNCHANGED row

\* createScheduleCapacity, updateScheduleCapacity, deleteScheduleCapacity.
ReadSize(c, s, capacity) ==
    /\ call[c].at = "idle"
    /\ entry[s] > 0 \/ capacity > 0
    /\ capacity <= total[s]
    /\ EntryAllowed(s, capacity)
    /\ Go(c, [call[c] EXCEPT !.at = "sizing", !.size = <<s, capacity, entry[s] > 0>>])
    /\ UNCHANGED <<bases, row>>

\* A new entry's foreign key waits for the schedule's lock.
WriteSize(c) ==
    /\ call[c].at = "sizing"
    /\ LET s == call[c].size[1]
           capacity == call[c].size[2]
           had == call[c].size[3]
       IN  /\ IF had THEN EntryFree(s) ELSE \A d \in Calls : s \notin call[d].held
           /\ EntryWritable(s, had, capacity)
           /\ entry' = EntryAfter(s, had, capacity)
    /\ End(c)
    /\ UNCHANGED <<total, accepts, row>>

-----------------------------------------------------------------------------

Next ==
    \/ \E c \in Calls :
        \/ Abandon(c) \/ LockRegistration(c) \/ LockDraft(c) \/ PlaceDraft(c)
        \/ LockCorrection(c) \/ WritePlaced(c) \/ WriteCorrection(c)
        \/ Edit(c) \/ WriteSize(c)
        \/ \E x \in Choreographies :
            \/ ResolveCorrection(c, x)
            \/ \E kind \in Kinds, s \in Schedules :
                ReadRegistration(c, x, kind, s) \/ ReadDraft(c, x, kind, s)
        \/ \E cast \in SUBSET Choreographies : \E becomes \in [cast -> Kinds] :
            ReadCorrection(c, becomes)
        \/ \E s \in Schedules :
            \/ \E plan \in Plans : ReadEdit(c, s, plan)
            \/ \E capacity \in Capacities : ReadSize(c, s, capacity)
    \/ \E x \in Choreographies : RemoveChoreography(x)

Spec == Init /\ [][Next]_vars

-----------------------------------------------------------------------------
\* PROPERTIES

\* No schedule is occupied above its total, whatever registers, moves, corrects
\* or edits at once, and whoever holds a place in its entry is one of them
\* (lockScheduleCapacityForAssignment with its reserved places,
\* validateStructuralScheduleChangesLocked).
TotalHoldsItsOccupants ==
    \A s \in Schedules : Cardinality(On(s)) <= total[s] /\ InEntry(s) \subseteq On(s)

\* No choreography ever goes into an entry above the entry's capacity; only an
\* edit of the entry, judged before any lock, may leave it above
\* (lockSpecificScheduleCapacity).
NobodyEntersAFullEntry ==
    [][\A s \in Schedules :
        Cardinality(InEntry(s))' > Cardinality(InEntry(s)) => Cardinality(InEntry(s))' <= entry'[s]]_vars

\* A choreography comes to be on a schedule that does not accept it in one way only:
\* a correction that had read it on another schedule, or as another kind, before a
\* save moved it (findScheduleIncompatibility, listExcludedOccupiedModalities).
OnlyAStaleCorrectionMisplaces ==
    [][\A x \in Choreographies :
        Misplaced(x)' /\ ~Misplaced(x) =>
            \E c \in Calls :
                /\ call[c].at = "writing" /\ call'[c] = NoCall
                /\ x \in DOMAIN call[c].becomes /\ call[c].read[x] # row[x]]_vars
=============================================================================
