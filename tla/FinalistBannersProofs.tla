------------------------- MODULE FinalistBannersProofs -------------------------
(***************************************************************************)
(* Proofs about FinalistBanners: for any academies, saves and openings,    *)
(* the types hold, every banner a row names is in storage, and every one a *)
(* round copied is, unless a save without judges took it from under it.    *)
(***************************************************************************)
EXTENDS FinalistBanners, TLAPS

-----------------------------------------------------------------------------
\* THE INDUCTIVE INVARIANT

Saver(c) == call[c].at \in {"saving", "writing"}
Writer(c) == call[c].at = "writing"
Uncopied(k) == /\ \A r \in Rounds, a \in Academies : copied[r][a] # k
               /\ \A d \in Calls, a \in Academies : call[d].copy[a] # k
Unnamed(k) == \A a \in Academies : banner[a] # k
Unused(k) == Unnamed(k) /\ (k \in lost \/ Uncopied(k))

\* What rows name is stored, and no two rows name one object.  What rounds copied
\* is stored or was lost.
NamedAreStored ==
    /\ \A a \in Academies : banner[a] \in Keys => banner[a] \in stored
    /\ \A r \in Rounds, a \in Academies : copied[r][a] # Nothing => copied[r][a] \in stored \cup lost
OneRowEach == \A a, b \in Academies : banner[a] \in Keys /\ banner[a] = banner[b] => a = b

\* A save's object is its own until its row names it.
SaveInv(c) ==
    Saver(c) =>
        /\ call[c].academy \in Academies
        /\ call[c].key # Nothing =>
              /\ call[c].key \in stored /\ Unused(call[c].key)
              /\ \A d \in Calls \ {c} : Saver(d) => call[d].key # call[c].key

\* What an opening read is stored until it writes, or was lost.
CopyInv(c) ==
    \A a \in Academies : call[c].copy[a] # Nothing =>
        /\ call[c].at = "opening" /\ call[c].copy[a] \in Keys
        /\ call[c].copy[a] \in stored \cup lost

\* A write has its row to itself, and with the event no round comes to name
\* what the row did.
RowInv(c) ==
    Writer(c) =>
        /\ \A d \in Calls \ {c} : Writer(d) => call[d].academy # call[c].academy
        /\ \A k \in call[c].doomed :
              /\ k \in Keys /\ k = banner[call[c].academy] /\ k # call[c].key
              /\ call[c].judges => \A r \in Rounds, a \in Academies : copied[r][a] # k

\* What a save replaced nobody names again.
DoomInv(c) ==
    call[c].at = "deleting" =>
        \A k \in call[c].doomed : /\ k \in 1 .. keys /\ Unused(k)
                                  /\ \A d \in Calls : Saver(d) => call[d].key # k

CallInv(c) == SaveInv(c) /\ CopyInv(c) /\ RowInv(c) /\ DoomInv(c)
UseInv == NamedAreStored /\ OneRowEach /\ \A c \in Calls : CallInv(c)
IInv == TypeOK /\ UseInv

-----------------------------------------------------------------------------
\* TYPES

Objects == {NoRow, Nothing} \cup Keys
CallTypes == [at : {"idle", "saving", "writing", "deleting"} \cup Opening,
              academy : Academies \cup {None}, key : {Nothing} \cup Keys, judges : BOOLEAN,
              shared : SUBSET Academies, doomed : SUBSET Keys,
              copy : [Academies -> {NoRow, Nothing} \cup Keys]]
Holds(fields) == fields.at \in Opening \/ (fields.at = "writing" /\ fields.judges)
HeldBy == \A c \in Calls : event = c <=> HoldsEvent(c)

LEMMA NoCallType == NoCall \in CallTypes
BY DEF NoCall, CallTypes, Nothing, NoRow

\* A call that gets fields of the right type, and the event's holder with it.
LEMMA GoType ==
    ASSUME TypeOK, NEW c \in Calls, NEW fields \in CallTypes, Go(c, fields),
           \/ event' = event /\ (Holds(fields) <=> HoldsEvent(c))
           \/ event = None /\ event' = c /\ Holds(fields)
           \/ ~Holds(fields) /\ EventGivenUp(c)
    PROVE  call' \in [Calls -> CallTypes] /\ event' \in Calls \cup {None} /\ HeldBy'
<1>1. /\ call \in [Calls -> CallTypes] /\ event \in Calls \cup {None} /\ HeldBy
      /\ call' = [call EXCEPT ![c] = fields]
  BY DEF TypeOK, CallTypes, HeldBy, Go
<1> QED
  BY <1>1, NoneAssumption DEF HeldBy, HoldsEvent, Holds, EventGivenUp

LEMMA RestType ==
    ASSUME TypeOK, call' \in [Calls -> CallTypes], event' \in Calls \cup {None}, HeldBy',
           picked' \subseteq Academies, banner' \in [Academies -> Objects],
           keys' \in 0 .. MaxKeys, stored' \subseteq 1 .. keys', lost' \subseteq Keys, opened' \in 0 .. 2,
           copied' \in [Rounds -> [Academies -> {Nothing} \cup Keys]]
    PROVE  TypeOK'
BY DEF TypeOK, CallTypes, HeldBy, Objects

\* The tables' types, as the steps below use them.
LEMMA Types ==
    ASSUME TypeOK
    PROVE  /\ picked \subseteq Academies /\ banner \in [Academies -> Objects]
           /\ keys \in 0 .. MaxKeys /\ stored \subseteq 1 .. keys /\ lost \subseteq Keys /\ opened \in 0 .. 2
           /\ copied \in [Rounds -> [Academies -> {Nothing} \cup Keys]]
           /\ call \in [Calls -> CallTypes] /\ event \in Calls \cup {None} /\ HeldBy
BY DEF TypeOK, CallTypes, HeldBy, Objects

LEMMA SaveType ==
    ASSUME IInv, NEW c \in Calls,
           \/ \E a \in Academies, judges \in BOOLEAN : UploadBanner(c, a, judges) \/ AskRemoval(c, a, judges)
           \/ LockBanner(c) \/ WriteBanner(c) \/ RefuseBanner(c) \/ DeleteReplaced(c)
    PROVE  TypeOK'
<1> USE Types DEF IInv
<1>1. CASE \E a \in Academies, judges \in BOOLEAN : UploadBanner(c, a, judges)
  <2>1. PICK a \in Academies, judges \in BOOLEAN : UploadBanner(c, a, judges)
    BY <1>1
  <2> DEFINE fields == [NoCall EXCEPT !.at = "saving", !.academy = a, !.key = keys + 1, !.judges = judges]
  <2>2. keys + 1 \in Keys /\ keys' = keys + 1 /\ stored' \subseteq 1 .. keys' /\ keys' \in 0 .. MaxKeys
    <3>1. /\ keys \in 0 .. MaxKeys /\ stored \subseteq 1 .. keys /\ keys < MaxKeys
          /\ keys' = keys + 1 /\ stored' = stored \cup {keys + 1}
      BY <2>1 DEF UploadBanner
    <3> QED
      BY <3>1, BoundAssumption DEF Keys
  <2>3. fields \in CallTypes /\ fields.at = "saving"
    BY <2>2, NoCallType DEF CallTypes, NoCall
  <2>4. Go(c, fields) /\ call[c].at = "idle" /\ UNCHANGED <<tables, lost, event>>
    BY <2>1 DEF UploadBanner, Begin, Go
  <2> HIDE DEF fields
  <2>5. ~Holds(fields) /\ ~HoldsEvent(c)
    BY <2>3, <2>4 DEF Holds, HoldsEvent, Opening
  <2>6. call' \in [Calls -> CallTypes] /\ event' \in Calls \cup {None} /\ HeldBy'
    BY <2>3, <2>4, <2>5, GoType
  <2> QED
    BY <2>2, <2>4, <2>6, RestType DEF tables
<1>2. CASE \E a \in Academies, judges \in BOOLEAN : AskRemoval(c, a, judges)
  <2>1. PICK a \in Academies, judges \in BOOLEAN : AskRemoval(c, a, judges)
    BY <1>2
  <2> DEFINE fields == [NoCall EXCEPT !.at = "saving", !.academy = a, !.judges = judges]
  <2>2. fields \in CallTypes /\ fields.at = "saving"
    BY NoCallType DEF CallTypes, NoCall
  <2>3. Go(c, fields) /\ call[c].at = "idle" /\ UNCHANGED <<tables, files, event>>
    BY <2>1 DEF AskRemoval, Begin, Go
  <2> HIDE DEF fields
  <2>4. ~Holds(fields) /\ ~HoldsEvent(c)
    BY <2>2, <2>3 DEF Holds, HoldsEvent, Opening
  <2>5. call' \in [Calls -> CallTypes] /\ event' \in Calls \cup {None} /\ HeldBy'
    BY <2>2, <2>3, <2>4, GoType
  <2> QED
    BY <2>3, <2>5, RestType DEF tables, files
<1>3. CASE LockBanner(c)
  <2> DEFINE doomed == Replaced(call[c].academy, call[c].key)
             fields == [call[c] EXCEPT !.at = "writing", !.doomed = doomed]
  <2>1. call[c].academy \in Academies /\ call[c].at = "saving" /\ call[c].judges \in BOOLEAN
    BY <1>3 DEF LockBanner, UseInv, CallInv, SaveInv, Saver, CallTypes
  <2>2. doomed \in SUBSET Keys
    BY <2>1 DEF Replaced, Objects
  <2>3. /\ Go(c, fields) /\ UNCHANGED <<tables, files>>
        /\ call[c].judges => event = None /\ event' = c
        /\ ~call[c].judges => event' = event
    BY <1>3 DEF LockBanner, EventFree
  <2> HIDE DEF doomed
  <2>4. fields \in CallTypes /\ fields.at = "writing" /\ fields.judges = call[c].judges
    BY <2>2 DEF CallTypes
  <2> HIDE DEF fields
  <2>5. ~HoldsEvent(c) /\ (Holds(fields) <=> call[c].judges)
    BY <2>1, <2>4 DEF Holds, HoldsEvent, Opening
  <2>6. call' \in [Calls -> CallTypes] /\ event' \in Calls \cup {None} /\ HeldBy'
    <3>1. CASE call[c].judges
      BY <2>3, <2>4, <2>5, <3>1, GoType
    <3>2. CASE ~call[c].judges
      BY <2>3, <2>4, <2>5, <3>2, GoType
    <3> QED
      BY <3>1, <3>2
  <2> QED
    BY <2>3, <2>6, RestType DEF tables, files
<1>4. CASE WriteBanner(c)
  <2> DEFINE a == call[c].academy
             fields == [call[c] EXCEPT !.at = "deleting"]
  <2>1. a \in Academies /\ call[c].key \in {Nothing} \cup Keys /\ call[c].doomed \subseteq Keys
    BY <1>4 DEF WriteBanner, UseInv, CallInv, SaveInv, Saver, CallTypes
  <2>2. /\ Go(c, fields) /\ EventGivenUp(c) /\ UNCHANGED <<opened, copied, stored, keys>>
        /\ picked' \in (PicksSetOn(a) \cup {picked}) /\ banner' = [banner EXCEPT ![a] = call[c].key]
        /\ lost' \subseteq lost \cup call[c].doomed
    BY <1>4 DEF WriteBanner
  <2>3. fields \in CallTypes /\ fields.at = "deleting"
    BY DEF CallTypes
  <2> HIDE DEF fields
  <2>4. ~Holds(fields)
    BY <2>3 DEF Holds, Opening
  <2>5. call' \in [Calls -> CallTypes] /\ event' \in Calls \cup {None} /\ HeldBy'
    BY <2>2, <2>3, <2>4, GoType
  <2>6. picked' \subseteq Academies /\ banner' \in [Academies -> Objects] /\ lost' \subseteq Keys
    BY <2>1, <2>2 DEF PicksSetOn, PicksMovedTo, Objects
  <2> QED
    BY <2>2, <2>5, <2>6, RestType
<1>5. CASE RefuseBanner(c)
  <2>1. Go(c, NoCall) /\ EventGivenUp(c) /\ stored' \subseteq stored /\ UNCHANGED <<tables, keys, lost>>
    BY <1>5 DEF RefuseBanner, End, Go
  <2>2. ~Holds(NoCall)
    BY DEF Holds, NoCall, Opening
  <2>3. call' \in [Calls -> CallTypes] /\ event' \in Calls \cup {None} /\ HeldBy'
    BY <2>1, <2>2, NoCallType, GoType
  <2> QED
    BY <2>1, <2>3, RestType DEF tables
<1>6. CASE DeleteReplaced(c)
  <2>1. /\ Go(c, NoCall) /\ call[c].at = "deleting" /\ stored' \subseteq stored
        /\ UNCHANGED <<tables, keys, lost, event>>
    BY <1>6 DEF DeleteReplaced, End, Go
  <2>2. ~Holds(NoCall) /\ ~HoldsEvent(c)
    BY <2>1 DEF Holds, HoldsEvent, NoCall, Opening
  <2>3. call' \in [Calls -> CallTypes] /\ event' \in Calls \cup {None} /\ HeldBy'
    BY <2>1, <2>2, NoCallType, GoType
  <2> QED
    BY <2>1, <2>3, RestType DEF tables
<1> QED
  BY <1>1, <1>2, <1>3, <1>4, <1>5, <1>6

LEMMA OpenType ==
    ASSUME IInv, NEW c \in Calls,
           \/ OpenLocks(c) \/ OpenShares(c) \/ OpenReads(c) \/ OpenRefused(c)
           \/ OpenWrites(c) \/ Abandon(c)
    PROVE  TypeOK'
<1> USE Types DEF IInv
<1>1. CASE OpenLocks(c)
  <2> DEFINE fields == [NoCall EXCEPT !.at = "sharing"]
  <2>1. fields \in CallTypes /\ fields.at = "sharing"
    BY NoCallType DEF CallTypes, NoCall, Opening
  <2>2. Go(c, fields) /\ event = None /\ event' = c /\ UNCHANGED <<tables, files>>
    BY <1>1 DEF OpenLocks, EventFree, Begin, Go
  <2> HIDE DEF fields
  <2>3. Holds(fields)
    BY <2>1 DEF Holds, Opening
  <2>4. call' \in [Calls -> CallTypes] /\ event' \in Calls \cup {None} /\ HeldBy'
    BY <2>1, <2>2, <2>3, GoType
  <2> QED
    BY <2>2, <2>4, RestType DEF tables, files
<1>2. CASE OpenShares(c)
  <2> DEFINE shared == {a \in Academies : banner[a] # NoRow}
             fields == [call[c] EXCEPT !.at = "reading", !.shared = shared]
  <2>1. shared \in SUBSET Academies
    OBVIOUS
  <2>2. Go(c, fields) /\ call[c].at = "sharing" /\ UNCHANGED <<tables, files, event>>
    BY <1>2 DEF OpenShares
  <2> HIDE DEF shared
  <2>3. fields \in CallTypes /\ fields.at = "reading"
    BY <2>1, ZenonT(40) DEF CallTypes, Opening
  <2> HIDE DEF fields
  <2>4. Holds(fields) /\ HoldsEvent(c)
    BY <2>2, <2>3 DEF Holds, HoldsEvent, Opening
  <2>5. call' \in [Calls -> CallTypes] /\ event' \in Calls \cup {None} /\ HeldBy'
    BY <2>2, <2>3, <2>4, GoType
  <2> QED
    BY <2>2, <2>5, RestType DEF tables, files
<1>3. CASE OpenReads(c)
  <2> DEFINE copy == [a \in Academies |-> IF a \in picked THEN banner[a] ELSE Nothing]
             fields == [call[c] EXCEPT !.at = "opening", !.copy = copy]
  <2>1. copy \in [Academies -> {NoRow, Nothing} \cup Keys]
    BY DEF Objects
  <2>2. Go(c, fields) /\ call[c].at = "reading" /\ UNCHANGED <<tables, files, event>>
    BY <1>3 DEF OpenReads
  <2> HIDE DEF copy
  <2>3. fields \in CallTypes /\ fields.at = "opening"
    BY <2>1 DEF CallTypes, Opening
  <2> HIDE DEF fields
  <2>4. Holds(fields) /\ HoldsEvent(c)
    BY <2>2, <2>3 DEF Holds, HoldsEvent, Opening
  <2>5. call' \in [Calls -> CallTypes] /\ event' \in Calls \cup {None} /\ HeldBy'
    BY <2>2, <2>3, <2>4, GoType
  <2> QED
    BY <2>2, <2>5, RestType DEF tables, files
<1>4. CASE OpenRefused(c) \/ OpenWrites(c) \/ Abandon(c)
  <2>1. Go(c, NoCall) /\ UNCHANGED <<picked, banner, files>>
    BY <1>4 DEF OpenRefused, OpenWrites, Abandon, End, Go, tables
  <2>2. EventGivenUp(c)
    <3>1. CASE Abandon(c)
      BY <3>1 DEF Abandon
    <3>2. CASE OpenRefused(c) \/ OpenWrites(c)
      <4>1. HoldsEvent(c) /\ event' = None
        BY <3>2 DEF OpenRefused, OpenWrites, HoldsEvent, Opening
      <4> QED
        BY <4>1 DEF HeldBy, EventGivenUp
    <3> QED
      BY <1>4, <3>1, <3>2
  <2>3. ~Holds(NoCall)
    BY DEF Holds, NoCall, Opening
  <2>4. call' \in [Calls -> CallTypes] /\ event' \in Calls \cup {None} /\ HeldBy'
    BY <2>1, <2>2, <2>3, NoCallType, GoType
  <2>5. opened' \in 0 .. 2 /\ copied' \in [Rounds -> [Academies -> {Nothing} \cup Keys]]
    <3>1. CASE OpenWrites(c)
      <4>1. call[c].copy \in [Academies -> {Nothing} \cup Keys]
        BY DEF UseInv, CallInv, CopyInv, CallTypes
      <4> QED
        BY <3>1, <4>1 DEF OpenWrites, Rounds
    <3>2. CASE ~OpenWrites(c)
      BY <1>4, <3>2 DEF OpenRefused, Abandon, tables
    <3> QED
      BY <3>1, <3>2
  <2> QED
    BY <2>1, <2>4, <2>5, RestType DEF files
<1> QED
  BY <1>1, <1>2, <1>3, <1>4

LEMMA TypeStep ==
    ASSUME IInv, [Next]_vars
    PROVE  TypeOK'
<1>1. CASE UNCHANGED vars
  BY <1>1 DEF IInv, vars, TypeOK, tables, files, HoldsEvent
<1>2. CASE \E a \in Academies : JudgePicks(a) \/ AdministrationPicks(a)
  BY <1>2 DEF IInv, JudgePicks, AdministrationPicks, PicksMovedTo, PicksSetOn, TypeOK, files, HoldsEvent
<1>3. CASE \E tied \in SUBSET Finalists(1) : OpenTieBreak(tied)
  BY <1>3, Types, RestType DEF IInv, OpenTieBreak, Rounds, files, HeldBy, HoldsEvent
<1> QED
  BY <1>1, <1>2, <1>3, SaveType, OpenType DEF Next

-----------------------------------------------------------------------------
\* OBJECTS IN USE

\* What a call keeps of itself over a step in which it starts nothing: no object
\* copied, written or to delete that it did not have.
Keeps(c) ==
    /\ Saver(c)' => Saver(c) /\ call'[c].academy = call[c].academy /\ call'[c].key = call[c].key
    /\ \A a \in Academies : call'[c].copy[a] # Nothing => call'[c].copy = call[c].copy /\ call'[c].at = call[c].at
    /\ Writer(c)' => Writer(c) /\ call'[c].doomed = call[c].doomed /\ call'[c].judges = call[c].judges
    /\ call'[c].at = "deleting" => call[c].at = "deleting" /\ call'[c].doomed = call[c].doomed

LEMMA UnusedStays ==
    ASSUME UNCHANGED <<banner, copied, lost>>, NEW k, k # Nothing, Unused(k),
           \A d \in Calls, a \in Academies : call'[d].copy[a] \in {Nothing, call[d].copy[a]}
    PROVE  Unused(k)'
BY DEF Unused, Unnamed, Uncopied

\* A step that writes no row and no object.
LEMMA QuietStep ==
    ASSUME IInv, UNCHANGED <<banner, copied, files>>, \A c \in Calls : Keeps(c)
    PROVE  UseInv'
<1>1. NamedAreStored' /\ OneRowEach'
  BY DEF IInv, UseInv, NamedAreStored, OneRowEach, files
<1>2. ASSUME NEW k, k # Nothing, Unused(k)
      PROVE  Unused(k)'
  BY <1>2, UnusedStays DEF Keeps, files
<1>3. ASSUME NEW c \in Calls
      PROVE  CallInv(c)'
  <2>1. CallInv(c) /\ Keeps(c) /\ \A d \in Calls : Saver(d)' => Saver(d) /\ call'[d].key = call[d].key
    BY DEF IInv, UseInv, Keeps
  <2>2. SaveInv(c)'
    <3> SUFFICES ASSUME Saver(c)'
                 PROVE  SaveInv(c)'
      BY DEF SaveInv
    <3>1. SaveInv(c) /\ Saver(c) /\ call'[c].academy = call[c].academy /\ call'[c].key = call[c].key
      BY <2>1 DEF CallInv, Keeps
    <3>2. call[c].key # Nothing => Unused(call[c].key)'
      BY <1>2, <3>1 DEF SaveInv
    <3> QED
      BY <2>1, <3>1, <3>2 DEF SaveInv, files
  <2>3. CopyInv(c)'
    BY <2>1 DEF CallInv, CopyInv, Keeps, files
  <2>4. RowInv(c)'
    <3>1. \A d \in Calls : Writer(d)' => Writer(d) /\ call'[d].academy = call[d].academy
      BY DEF Keeps, Writer, Saver
    <3> QED
      BY <2>1, <3>1 DEF CallInv, RowInv, Keeps, Writer, Saver
  <2>5. DoomInv(c)'
    <3> SUFFICES ASSUME call'[c].at = "deleting", NEW k \in call'[c].doomed
                 PROVE  k \in 1 .. keys /\ Unused(k)' /\ \A d \in Calls : Saver(d)' => call'[d].key # k
      BY DEF DoomInv, files
    <3>1. k \in call[c].doomed /\ DoomInv(c) /\ call[c].at = "deleting"
      BY <2>1 DEF CallInv, Keeps
    <3>2. k \in 1 .. keys /\ Unused(k) /\ \A d \in Calls : Saver(d) => call[d].key # k
      BY <3>1 DEF DoomInv
    <3>3. k # Nothing
      BY <3>2 DEF Nothing
    <3> QED
      BY <1>2, <2>1, <3>2, <3>3
  <2> QED
    BY <2>2, <2>3, <2>4, <2>5 DEF CallInv
<1> QED
  BY <1>1, <1>3 DEF UseInv

\* A call alone moves, and writes no row and no object.
LEMMA LeaveStep ==
    ASSUME IInv, NEW c \in Calls, NEW fields, Go(c, fields), UNCHANGED <<banner, copied, files>>,
           fields.at \notin {"saving", "writing", "opening", "deleting"},
           \A a \in Academies : fields.copy[a] = Nothing
    PROVE  UseInv'
<1>1. \A d \in Calls : call'[d] = IF d = c THEN fields ELSE call[d]
  BY Types DEF Go, IInv
<1>2. \A d \in Calls : Keeps(d)
  BY <1>1 DEF Keeps, Saver, Writer
<1> QED
  BY <1>2, QuietStep

\* What a round's number or an object's key may be.
LEMMA Known ==
    ASSUME IInv
    PROVE  /\ \A a \in Academies : banner[a] \in Keys => banner[a] \in 1 .. keys
           /\ \A k \in Nat : k > keys => Unnamed(k) /\ k \notin stored
           /\ keys \in Nat /\ stored \subseteq Keys /\ stored \subseteq 1 .. keys
<1>1. keys \in Nat /\ stored \subseteq 1 .. keys /\ stored \subseteq Keys /\ NamedAreStored
  BY Types, BoundAssumption DEF IInv, UseInv, Keys
<1>2. \A a \in Academies : banner[a] \in Keys => banner[a] \in 1 .. keys
  BY <1>1 DEF NamedAreStored
<1>3. ASSUME NEW k \in Nat, k > keys
      PROVE  Unnamed(k) /\ k \notin stored
  <2>1. k # Nothing /\ k # NoRow /\ k \notin 1 .. keys
    BY <1>1, <1>3 DEF Nothing, NoRow
  <2>2. \A a \in Academies : banner[a] \in {NoRow, Nothing} \/ banner[a] \in Keys
    BY Types DEF IInv, Objects
  <2> QED
    BY <1>1, <1>2, <2>1, <2>2 DEF Unnamed
<1> QED
  BY <1>1, <1>2, <1>3

\* An object not yet uploaded is in no table and in nobody's hands.
LEMMA FreshKey ==
    ASSUME IInv, NEW k \in Nat, k > keys
    PROVE  Unused(k) /\ k # Nothing /\ \A d \in Calls : Saver(d) => call[d].key # k
<1>1. Unnamed(k) /\ k \notin stored /\ k # Nothing
  BY Known DEF Nothing
<1>2. k \in lost \/ Uncopied(k)
  <2> SUFFICES ASSUME k \notin lost
               PROVE  Uncopied(k)
    OBVIOUS
  <2>1. \A r \in Rounds, a \in Academies : copied[r][a] # k
    BY <1>1 DEF IInv, UseInv, NamedAreStored
  <2>2. \A d \in Calls, a \in Academies : call[d].copy[a] # k
    BY <1>1 DEF IInv, UseInv, CallInv, CopyInv
  <2> QED
    BY <2>1, <2>2 DEF Uncopied
<1>3. \A d \in Calls : Saver(d) => call[d].key # k
  BY <1>1 DEF IInv, UseInv, CallInv, SaveInv
<1> QED
  BY <1>1, <1>2, <1>3 DEF Unused

\* A save begins: the object it uploads is nobody else's.
LEMMA BeginSaveStep ==
    ASSUME IInv, NEW c \in Calls, NEW a \in Academies, NEW judges \in BOOLEAN,
           UploadBanner(c, a, judges) \/ AskRemoval(c, a, judges)
    PROVE  UseInv'
<1>1. PICK key \in {Nothing, keys + 1} :
        /\ call'[c].at = "saving" /\ call'[c].academy = a /\ call'[c].key = key
        /\ \A b \in Academies : call'[c].copy[b] = Nothing
        /\ \A d \in Calls \ {c} : call'[d] = call[d]
        /\ key # Nothing => stored' = stored \cup {keys + 1} /\ keys' = keys + 1
        /\ key = Nothing => stored' = stored /\ keys' = keys
  <2>0. keys + 1 # Nothing
    BY Known DEF Nothing
  <2>1. CASE UploadBanner(c, a, judges)
    <3>1. /\ call' = [call EXCEPT ![c] = [NoCall EXCEPT !.at = "saving", !.academy = a, !.key = keys + 1,
                                                       !.judges = judges]]
          /\ stored' = stored \cup {keys + 1} /\ keys' = keys + 1
      BY <2>1 DEF UploadBanner, Begin
    <3>2. /\ call'[c].at = "saving" /\ call'[c].academy = a /\ call'[c].key = keys + 1
          /\ \A b \in Academies : call'[c].copy[b] = Nothing
          /\ \A d \in Calls \ {c} : call'[d] = call[d]
      BY <3>1, Types DEF IInv, NoCall
    <3> QED
      BY <2>0, <3>1, <3>2
  <2>2. CASE AskRemoval(c, a, judges)
    <3>1. /\ call' = [call EXCEPT ![c] = [NoCall EXCEPT !.at = "saving", !.academy = a, !.judges = judges]]
          /\ stored' = stored /\ keys' = keys
      BY <2>2 DEF AskRemoval, Begin, files
    <3>2. /\ call'[c].at = "saving" /\ call'[c].academy = a /\ call'[c].key = Nothing
          /\ \A b \in Academies : call'[c].copy[b] = Nothing
          /\ \A d \in Calls \ {c} : call'[d] = call[d]
      BY <3>1, Types DEF IInv, NoCall
    <3> QED
      BY <2>0, <3>1, <3>2
  <2> QED
    BY <2>1, <2>2
<1>2. UNCHANGED <<banner, copied, lost>>
  BY DEF UploadBanner, AskRemoval, tables, files
<1>3. /\ call'[c].at = "saving" /\ call'[c].academy = a /\ call'[c].key = key
      /\ \A b \in Academies : call'[c].copy[b] = Nothing
      /\ \A d \in Calls \ {c} : call'[d] = call[d]
  BY <1>1
<1>4. /\ stored \subseteq stored' /\ keys \in Nat /\ keys' \in Nat /\ keys <= keys'
      /\ key # Nothing => key \in stored' /\ key = keys + 1
  BY <1>1, Known
<1>5. NamedAreStored' /\ OneRowEach'
  BY <1>2, <1>4 DEF IInv, UseInv, NamedAreStored, OneRowEach
<1>6. ASSUME NEW k, k # Nothing, Unused(k)
      PROVE  Unused(k)'
  BY <1>2, <1>3, <1>6, UnusedStays
<1>7. key # Nothing => Unused(key) /\ \A d \in Calls : Saver(d) => call[d].key # key
  <2> SUFFICES ASSUME key # Nothing
               PROVE  Unused(key) /\ \A d \in Calls : Saver(d) => call[d].key # key
    OBVIOUS
  <2>1. key \in Nat /\ key > keys
    BY <1>4
  <2> QED
    BY <2>1, FreshKey
<1>8. CallInv(c)'
  <2>1. key # Nothing => Unused(key)'
    BY <1>6, <1>7
  <2>2. SaveInv(c)'
    BY <1>3, <1>4, <1>7, <2>1 DEF SaveInv, Saver
  <2>3. CopyInv(c)' /\ RowInv(c)' /\ DoomInv(c)'
    BY <1>3 DEF CopyInv, RowInv, DoomInv, Writer
  <2> QED
    BY <2>2, <2>3 DEF CallInv
<1>9. ASSUME NEW d \in Calls \ {c}
      PROVE  CallInv(d)'
  <2>1. CallInv(d) /\ call'[d] = call[d]
    BY <1>3 DEF IInv, UseInv
  <2>2. SaveInv(d)'
    <3>1. Saver(d) /\ call[d].key # Nothing => call[d].key # key
      BY <1>7, <2>1 DEF CallInv, SaveInv
    <3>2. SaveInv(d)
      BY <2>1 DEF CallInv
    <3>3. Saver(d) /\ call[d].key # Nothing => Unused(call[d].key)'
      BY <1>6, <2>1, <3>2 DEF SaveInv
    <3> QED
      BY <1>3, <1>4, <2>1, <3>1, <3>2, <3>3 DEF SaveInv, Saver
  <2>3. CopyInv(d)'
    BY <1>2, <1>4, <2>1 DEF CallInv, CopyInv
  <2>4. RowInv(d)'
    BY <1>2, <1>3, <2>1 DEF CallInv, RowInv, Writer
  <2>5. DoomInv(d)'
    <3> SUFFICES ASSUME call[d].at = "deleting", NEW k \in call[d].doomed
                 PROVE  k \in 1 .. keys' /\ Unused(k)' /\ \A e \in Calls : Saver(e)' => call'[e].key # k
      BY <2>1 DEF DoomInv
    <3>1. k \in 1 .. keys /\ Unused(k) /\ \A e \in Calls : Saver(e) => call[e].key # k
      BY <2>1 DEF CallInv, DoomInv
    <3>2. k # Nothing /\ k # key /\ k \in 1 .. keys'
      BY <1>4, <1>1, <3>1 DEF Nothing
    <3> QED
      BY <1>3, <1>6, <3>1, <3>2 DEF Saver
  <2> QED
    BY <2>2, <2>3, <2>4, <2>5 DEF CallInv
<1> QED
  BY <1>5, <1>8, <1>9 DEF UseInv

\* The write takes the academy's row from any other, and what the row names with it.
LEMMA LockBannerStep ==
    ASSUME IInv, NEW c \in Calls, LockBanner(c)
    PROVE  UseInv'
<1> DEFINE a == call[c].academy
           key == call[c].key
           doomed == Replaced(a, key)
<1>1. /\ Saver(c) /\ SaveInv(c) /\ CopyInv(c) /\ a \in Academies /\ NamedAreStored /\ OneRowEach
      /\ banner \in [Academies -> Objects] /\ call \in [Calls -> CallTypes]
      /\ call[c].at = "saving" /\ RowFree(a) /\ UNCHANGED <<banner, copied, stored, keys, lost>>
  BY Types DEF LockBanner, IInv, UseInv, CallInv, SaveInv, Saver, tables, files
<1>2. /\ call'[c].at = "writing" /\ call'[c].academy = a /\ call'[c].key = key /\ call'[c].doomed = doomed
      /\ call'[c].copy = call[c].copy /\ \A d \in Calls \ {c} : call'[d] = call[d]
  <2>1. call' = [call EXCEPT ![c] = [call[c] EXCEPT !.at = "writing", !.doomed = doomed]]
    BY DEF LockBanner, Go
  <2> HIDE DEF doomed
  <2> QED
    BY <1>1, <2>1 DEF CallTypes
<1>3. \A k \in doomed : /\ k = banner[a] /\ k \in Keys /\ k # key
                        /\ \A r \in Rounds, b \in Academies : copied[r][b] # k
  <2> TAKE k \in doomed
  <2>1. k = banner[a] /\ k \notin {NoRow, Nothing, key} \cup RoundBanners
    BY DEF Replaced
  <2>2. k \in Keys
    BY <1>1, <2>1 DEF Objects
  <2> QED
    BY <1>1, <2>1, <2>2 DEF RoundBanners
<1>4. \A b \in Academies : call[c].copy[b] = Nothing
  BY <1>1 DEF CopyInv
<1> HIDE DEF doomed
<1>5. \A d \in Calls : Saver(d)' = Saver(d) /\ call'[d].academy = call[d].academy /\ call'[d].key = call[d].key
  BY <1>1, <1>2 DEF Saver
<1>6. ASSUME NEW k, k # Nothing, Unused(k)
      PROVE  Unused(k)'
  BY <1>1, <1>2, <1>6, UnusedStays
<1>7. NamedAreStored' /\ OneRowEach'
  BY <1>1 DEF NamedAreStored, OneRowEach
<1>8. \A d \in Calls \ {c} : Writer(d) => call[d].academy # a
  BY <1>1 DEF RowFree, Writer
<1>9. ASSUME NEW d \in Calls
      PROVE  CallInv(d)'
  <2>1. CallInv(d)
    BY DEF IInv, UseInv
  <2>2. SaveInv(d)'
    <3>1. Saver(d) /\ call[d].key # Nothing => Unused(call[d].key)'
      BY <1>5, <1>6, <2>1 DEF CallInv, SaveInv
    <3> QED
      BY <1>1, <1>5, <2>1, <3>1 DEF CallInv, SaveInv
  <2>3. CopyInv(d)'
    BY <1>1, <1>2, <1>4, <2>1 DEF CallInv, CopyInv
  <2>4. RowInv(d)'
    <3>1. CASE d = c
      BY <1>1, <1>2, <1>3, <1>8, <3>1 DEF RowInv, Writer
    <3>2. CASE d # c
      <4>1. RowInv(d) /\ call'[d] = call[d]
        BY <1>2, <2>1, <3>2 DEF CallInv
      <4>2. \A e \in Calls \ {d} : Writer(d) /\ Writer(e)' => call'[e].academy # call[d].academy
        BY <1>2, <1>5, <1>8, <3>2, <4>1 DEF RowInv, Writer
      <4> QED
        BY <1>1, <4>1, <4>2 DEF RowInv, Writer
    <3> QED
      BY <3>1, <3>2
  <2>5. DoomInv(d)'
    <3> SUFFICES ASSUME call'[d].at = "deleting", NEW k \in call'[d].doomed
                 PROVE  k \in 1 .. keys /\ Unused(k)' /\ \A e \in Calls : Saver(e)' => call'[e].key # k
      BY <1>1 DEF DoomInv
    <3>1. call[d].at = "deleting" /\ k \in call[d].doomed
      BY <1>2
    <3>2. k \in 1 .. keys /\ Unused(k) /\ \A e \in Calls : Saver(e) => call[e].key # k
      BY <2>1, <3>1 DEF CallInv, DoomInv
    <3>3. k # Nothing
      BY <3>2 DEF Nothing
    <3> QED
      BY <1>5, <1>6, <3>2, <3>3
  <2> QED
    BY <2>2, <2>3, <2>4, <2>5 DEF CallInv
<1> QED
  BY <1>7, <1>9 DEF UseInv

\* The row names the object of its save; what it named before is named nowhere,
\* or is copied by an opening beside, and then lost.
LEMMA WriteBannerStep ==
    ASSUME IInv, NEW c \in Calls, WriteBanner(c)
    PROVE  UseInv'
<1> DEFINE a == call[c].academy
           key == call[c].key
<1>1. /\ Saver(c) /\ SaveInv(c) /\ CopyInv(c) /\ RowInv(c) /\ Writer(c) /\ a \in Academies
      /\ key \in {Nothing} \cup Keys /\ NamedAreStored /\ OneRowEach /\ banner \in [Academies -> Objects]
      /\ call \in [Calls -> CallTypes]
  BY Types DEF WriteBanner, IInv, UseInv, CallInv, SaveInv, Saver, Writer, CallTypes
<1>2. /\ UNCHANGED <<copied, stored, keys>> /\ banner' = [banner EXCEPT ![a] = key]
      /\ lost \subseteq lost'
  BY DEF WriteBanner
<1>3. /\ call'[c].at = "deleting" /\ call'[c].doomed = call[c].doomed /\ call'[c].copy = call[c].copy
      /\ \A d \in Calls \ {c} : call'[d] = call[d]
  <2>1. call' = [call EXCEPT ![c] = [call[c] EXCEPT !.at = "deleting"]]
    BY DEF WriteBanner, Go
  <2> QED
    BY <1>1, <2>1 DEF CallTypes
<1>4. \A b \in Academies : call[c].copy[b] = Nothing
  BY <1>1 DEF CopyInv, Writer
<1>5. ~Saver(c)' /\ ~Writer(c)' /\ \A d \in Calls \ {c} : Saver(d)' = Saver(d) /\ Writer(d)' = Writer(d)
  BY <1>3 DEF Saver, Writer
<1>6. ASSUME NEW k, k # key, Unnamed(k)
      PROVE  Unnamed(k)'
  BY <1>1, <1>2, <1>6 DEF Unnamed
<1>7. ASSUME NEW k, k # Nothing, k \in lost \/ Uncopied(k)
      PROVE  k \in lost' \/ Uncopied(k)'
  BY <1>2, <1>3, <1>7 DEF Uncopied
<1>8. NamedAreStored'
  BY <1>1, <1>2 DEF NamedAreStored, SaveInv, Keys, Nothing
<1>9. OneRowEach'
  <2>1. key \in Keys => \A b \in Academies : banner[b] # key
    BY <1>1 DEF SaveInv, Unused, Unnamed, Keys, Nothing
  <2> QED
    BY <1>1, <1>2, <2>1 DEF OneRowEach
<1>10. ASSUME NEW k \in call[c].doomed
       PROVE  k \in lost' \/ Uncopied(k)
  <2>1. k \in Keys /\ k = banner[a] /\ k # Nothing
    BY <1>1 DEF RowInv, Keys, Nothing
  <2>2. CASE call[c].judges
    <3>1. \A r \in Rounds, b \in Academies : copied[r][b] # k
      BY <1>1, <2>2 DEF RowInv
    <3>2. event = c
      BY <1>1, <2>2, Types DEF IInv, HeldBy, HoldsEvent, Writer
    <3>3. \A d \in Calls : call[d].at # "opening"
      BY <1>1, <3>2, Types DEF IInv, HeldBy, HoldsEvent, Opening, Writer
    <3>4. \A d \in Calls, b \in Academies : call[d].copy[b] # k
      BY <2>1, <3>3 DEF IInv, UseInv, CallInv, CopyInv
    <3> QED
      BY <3>1, <3>4 DEF Uncopied
  <2>3. CASE ~call[c].judges
    <3>1. k \in Copying \cup RoundBanners => k \in lost'
      BY <2>3 DEF WriteBanner
    <3> QED
      BY <3>1 DEF Uncopied, Copying, RoundBanners
  <2> QED
    BY <2>2, <2>3
<1>11. CallInv(c)'
  <2>1. SaveInv(c)' /\ RowInv(c)'
    BY <1>5 DEF SaveInv, RowInv
  <2>2. CopyInv(c)'
    BY <1>3, <1>4 DEF CopyInv
  <2>3. DoomInv(c)'
    <3> SUFFICES ASSUME NEW k \in call[c].doomed
                 PROVE  k \in 1 .. keys /\ Unused(k)' /\ \A d \in Calls : Saver(d)' => call'[d].key # k
      BY <1>2, <1>3 DEF DoomInv
    <3>1. k \in Keys /\ k = banner[a] /\ k # key /\ k # Nothing /\ k \in 1 .. keys
      BY <1>1, Known DEF RowInv, Keys, Nothing
    <3>2. Unnamed(k)'
      BY <1>1, <1>2, <3>1 DEF Unnamed, OneRowEach
    <3>3. k \in lost' \/ Uncopied(k)'
      BY <1>7, <1>10, <1>2, <1>3, <3>1 DEF Uncopied
    <3>4. \A d \in Calls \ {c} : Saver(d) => call[d].key # k
      BY <1>1, <3>1 DEF IInv, UseInv, CallInv, SaveInv, Unused, Unnamed
    <3> QED
      BY <1>3, <1>5, <3>1, <3>2, <3>3, <3>4 DEF Unused
  <2> QED
    BY <2>1, <2>2, <2>3 DEF CallInv
<1>12. ASSUME NEW d \in Calls \ {c}
       PROVE  CallInv(d)'
  <2>1. CallInv(d) /\ call'[d] = call[d]
    BY <1>3 DEF IInv, UseInv
  <2>2. SaveInv(d)'
    <3>1. SaveInv(d)
      BY <2>1 DEF CallInv
    <3>2. Saver(d) /\ call[d].key # Nothing => call[d].key # key
      BY <1>1, <3>1 DEF SaveInv
    <3>3. Saver(d) /\ call[d].key # Nothing => Unused(call[d].key)'
      BY <1>6, <1>7, <2>1, <3>1, <3>2 DEF SaveInv, Unused
    <3> QED
      BY <1>2, <1>3, <1>5, <2>1, <3>1, <3>3 DEF SaveInv
  <2>3. CopyInv(d)'
    BY <1>2, <2>1 DEF CallInv, CopyInv
  <2>4. RowInv(d)'
    <3>1. Writer(d) => banner'[call[d].academy] = banner[call[d].academy]
      BY <1>1, <1>2 DEF RowInv, Writer
    <3> QED
      BY <1>2, <1>3, <1>5, <2>1, <3>1 DEF CallInv, RowInv
  <2>5. DoomInv(d)'
    <3> SUFFICES ASSUME call[d].at = "deleting", NEW k \in call[d].doomed
                 PROVE  k \in 1 .. keys /\ Unused(k)' /\ \A e \in Calls : Saver(e)' => call'[e].key # k
      BY <1>2, <2>1 DEF DoomInv
    <3>1. k \in 1 .. keys /\ Unused(k) /\ \A e \in Calls : Saver(e) => call[e].key # k
      BY <2>1 DEF CallInv, DoomInv
    <3>2. k # Nothing /\ k # key
      BY <1>1, <3>1 DEF Nothing
    <3> QED
      BY <1>3, <1>5, <1>6, <1>7, <3>1, <3>2 DEF Unused
  <2> QED
    BY <2>2, <2>3, <2>4, <2>5 DEF CallInv
<1> QED
  BY <1>8, <1>9, <1>11, <1>12 DEF UseInv

\* Objects go that no row, no round and no save names.
LEMMA GoneStep ==
    ASSUME IInv, NEW c \in Calls, NEW gone, End(c), stored' = stored \ gone,
           UNCHANGED <<banner, copied, keys, lost>>,
           \A k \in gone : k \in Keys => Unused(k) /\ \A d \in Calls \ {c} : Saver(d) => call[d].key # k
    PROVE  UseInv'
<1>1. call' = [call EXCEPT ![c] = NoCall] /\ call \in [Calls -> CallTypes] /\ stored \subseteq Keys
  BY Types, Known DEF End, IInv
<1>2. call'[c] = NoCall /\ \A d \in Calls \ {c} : call'[d] = call[d]
  BY <1>1
<1>3. ~Saver(c)' /\ ~Writer(c)' /\ \A d \in Calls \ {c} : Saver(d)' = Saver(d) /\ Writer(d)' = Writer(d)
  BY <1>2 DEF NoCall, Saver, Writer
<1>4. ASSUME NEW k, k # Nothing, Unused(k)
      PROVE  Unused(k)'
  <2>1. \A d \in Calls, a \in Academies : call'[d].copy[a] \in {Nothing, call[d].copy[a]}
    BY <1>2 DEF NoCall
  <2> QED
    BY <1>4, <2>1, UnusedStays
<1>5. ASSUME NEW k \in stored, Unused(k) => FALSE
      PROVE  k \in stored'
  BY <1>1, <1>5
<1>6. NamedAreStored' /\ OneRowEach'
  <2>1. OneRowEach'
    BY DEF IInv, UseInv, OneRowEach
  <2>2. \A a \in Academies : banner[a] \in Keys => banner[a] \in stored'
    BY <1>5 DEF IInv, UseInv, NamedAreStored, Unused, Unnamed
  <2>3. \A r \in Rounds, a \in Academies : copied[r][a] # Nothing => copied[r][a] \in stored' \cup lost
    BY <1>5 DEF IInv, UseInv, NamedAreStored, Unused, Uncopied
  <2> QED
    BY <2>1, <2>2, <2>3 DEF NamedAreStored
<1>7. CallInv(c)'
  BY <1>2 DEF CallInv, SaveInv, CopyInv, RowInv, DoomInv, Saver, Writer, NoCall
<1>8. ASSUME NEW d \in Calls \ {c}
      PROVE  CallInv(d)'
  <2>1. CallInv(d) /\ call'[d] = call[d]
    BY <1>2 DEF IInv, UseInv
  <2>2. SaveInv(d)'
    <3>1. SaveInv(d)
      BY <2>1 DEF CallInv
    <3>2. Saver(d) /\ call[d].key # Nothing => call[d].key \in stored' /\ Unused(call[d].key)'
      BY <1>1, <1>4, <3>1 DEF SaveInv
    <3> QED
      BY <1>2, <1>3, <2>1, <3>1, <3>2 DEF SaveInv
  <2>3. CopyInv(d)'
    BY <1>5, <2>1 DEF CallInv, CopyInv, Unused, Uncopied
  <2>4. RowInv(d)'
    BY <1>2, <1>3, <2>1 DEF CallInv, RowInv
  <2>5. DoomInv(d)'
    <3> SUFFICES ASSUME call[d].at = "deleting", NEW k \in call[d].doomed
                 PROVE  k \in 1 .. keys /\ Unused(k)' /\ \A e \in Calls : Saver(e)' => call'[e].key # k
      BY <2>1 DEF DoomInv
    <3>1. k \in 1 .. keys /\ Unused(k) /\ \A e \in Calls : Saver(e) => call[e].key # k
      BY <2>1 DEF CallInv, DoomInv
    <3>2. k # Nothing
      BY <3>1 DEF Nothing
    <3> QED
      BY <1>2, <1>3, <1>4, <3>1, <3>2
  <2> QED
    BY <2>2, <2>3, <2>4, <2>5 DEF CallInv
<1> QED
  BY <1>6, <1>7, <1>8 DEF UseInv

LEMMA DeleteStep ==
    ASSUME IInv, NEW c \in Calls, RefuseBanner(c) \/ DeleteReplaced(c)
    PROVE  UseInv'
<1>1. CASE RefuseBanner(c)
  <2> DEFINE gone == {call[c].key}
  <2>1. /\ stored' = stored \ gone /\ UNCHANGED <<banner, copied, keys, lost>> /\ Saver(c) /\ End(c)
    BY <1>1 DEF RefuseBanner, tables, Saver
  <2>2. call[c].key \in Keys => /\ Unused(call[c].key)
                                /\ \A d \in Calls \ {c} : Saver(d) => call[d].key # call[c].key
    BY <2>1 DEF IInv, UseInv, CallInv, SaveInv, Keys, Nothing
  <2>3. \A k \in gone : k \in Keys => Unused(k) /\ \A d \in Calls \ {c} : Saver(d) => call[d].key # k
    BY <2>2
  <2> HIDE DEF gone
  <2> QED
    BY <2>1, <2>3, GoneStep
<1>2. CASE DeleteReplaced(c)
  <2>1. /\ stored' = stored \ call[c].doomed /\ UNCHANGED <<banner, copied, keys, lost>>
        /\ call[c].at = "deleting" /\ End(c)
    BY <1>2 DEF DeleteReplaced, tables
  <2>2. \A k \in call[c].doomed : Unused(k) /\ \A d \in Calls \ {c} : Saver(d) => call[d].key # k
    BY <2>1 DEF IInv, UseInv, CallInv, DoomInv
  <2> QED
    BY <2>1, <2>2, GoneStep
<1> QED
  BY <1>1, <1>2

\* An opening reads the rows: what it will copy is named, so nobody deletes it yet.
LEMMA OpenReadsStep ==
    ASSUME IInv, NEW c \in Calls, OpenReads(c)
    PROVE  UseInv'
<1> DEFINE copy == [a \in Academies |-> IF a \in picked THEN banner[a] ELSE Nothing]
<1>1. /\ UNCHANGED <<banner, copied, stored, keys, lost>> /\ \A a \in picked : banner[a] \in Keys
      /\ call[c].at = "reading"
  BY DEF OpenReads, Ready, tables, files
<1>2. /\ call'[c].at = "opening" /\ call'[c].copy = copy
      /\ \A d \in Calls \ {c} : call'[d] = call[d]
  <2>1. call' = [call EXCEPT ![c] = [call[c] EXCEPT !.at = "opening", !.copy = copy]]
    BY DEF OpenReads, Go
  <2> HIDE DEF copy
  <2> QED
    BY <2>1, Types DEF IInv, CallTypes
<1>3. \A a \in Academies : copy[a] # Nothing => copy[a] \in Keys /\ copy[a] = banner[a]
  BY <1>1
<1> HIDE DEF copy
<1>4. ~Saver(c)' /\ ~Writer(c)' /\ \A d \in Calls \ {c} : Saver(d)' = Saver(d) /\ Writer(d)' = Writer(d)
  BY <1>2 DEF Saver, Writer
<1>5. NamedAreStored' /\ OneRowEach'
  BY <1>1 DEF IInv, UseInv, NamedAreStored, OneRowEach
<1>6. ASSUME NEW k, k # Nothing, Unused(k)
      PROVE  Unused(k)'
  BY <1>1, <1>2, <1>3, <1>6 DEF Unused, Unnamed, Uncopied
<1>7. CallInv(c)'
  <2>1. CopyInv(c)'
    BY <1>1, <1>2, <1>3 DEF CopyInv, IInv, UseInv, NamedAreStored
  <2>2. SaveInv(c)' /\ RowInv(c)' /\ DoomInv(c)'
    BY <1>2, <1>4 DEF SaveInv, RowInv, DoomInv
  <2> QED
    BY <2>1, <2>2 DEF CallInv
<1>8. ASSUME NEW d \in Calls \ {c}
      PROVE  CallInv(d)'
  <2>1. CallInv(d) /\ call'[d] = call[d]
    BY <1>2 DEF IInv, UseInv
  <2>2. SaveInv(d)'
    <3>1. SaveInv(d)
      BY <2>1 DEF CallInv
    <3>2. Saver(d) /\ call[d].key # Nothing => Unused(call[d].key)'
      BY <1>6, <2>1, <3>1 DEF SaveInv
    <3> QED
      BY <1>1, <1>2, <1>4, <2>1, <3>1, <3>2 DEF SaveInv
  <2>3. CopyInv(d)'
    BY <1>1, <2>1 DEF CallInv, CopyInv
  <2>4. RowInv(d)'
    BY <1>1, <1>2, <1>4, <2>1 DEF CallInv, RowInv
  <2>5. DoomInv(d)'
    <3> SUFFICES ASSUME call[d].at = "deleting", NEW k \in call[d].doomed
                 PROVE  k \in 1 .. keys /\ Unused(k)' /\ \A e \in Calls : Saver(e)' => call'[e].key # k
      BY <1>1, <2>1 DEF DoomInv
    <3>1. k \in 1 .. keys /\ Unused(k) /\ \A e \in Calls : Saver(e) => call[e].key # k
      BY <2>1 DEF CallInv, DoomInv
    <3>2. k # Nothing
      BY <3>1 DEF Nothing
    <3> QED
      BY <1>2, <1>4, <1>6, <3>1, <3>2
  <2> QED
    BY <2>2, <2>3, <2>4, <2>5 DEF CallInv
<1> QED
  BY <1>5, <1>7, <1>8 DEF UseInv

\* A round copies what its opening read, or what round 1 copied; no save that holds
\* the event is writing.
LEMMA CopyStep ==
    ASSUME IInv, UNCHANGED <<banner, files>>,
           \A r \in Rounds, a \in Academies : copied'[r][a] # Nothing =>
              copied'[r][a] \in stored \cup lost /\ ~Uncopied(copied'[r][a]),
           \A c \in Calls : call'[c] = call[c] \/ call'[c] = NoCall,
           \A c \in Calls : Writer(c)' => ~call[c].judges
    PROVE  UseInv'
<1>1. ASSUME NEW k, k # Nothing, Unused(k)
      PROVE  Unused(k)'
  <2>1. Unnamed(k)' /\ (k \in lost => k \in lost')
    BY <1>1 DEF Unused, Unnamed, files
  <2>2. ASSUME Uncopied(k)
        PROVE  Uncopied(k)'
    <3>1. \A r \in Rounds, a \in Academies : copied'[r][a] # k
      BY <1>1, <2>2
    <3>2. \A d \in Calls, a \in Academies : call'[d].copy[a] # k
      BY <1>1, <2>2 DEF Uncopied, NoCall
    <3> QED
      BY <3>1, <3>2 DEF Uncopied
  <2> QED
    BY <1>1, <2>1, <2>2 DEF Unused
<1>2. NamedAreStored' /\ OneRowEach'
  BY DEF IInv, UseInv, NamedAreStored, OneRowEach, files
<1>3. \A e \in Calls : (Saver(e)' => Saver(e) /\ call'[e] = call[e]) /\ (Writer(e)' => Writer(e) /\ call'[e] = call[e])
  BY DEF Saver, Writer, NoCall
<1>4. ASSUME NEW d \in Calls
      PROVE  CallInv(d)'
  <2>1. CASE call'[d] = NoCall
    BY <2>1 DEF CallInv, SaveInv, CopyInv, RowInv, DoomInv, Saver, Writer, NoCall
  <2>2. CASE call'[d] = call[d]
    <3>1. CallInv(d)
      BY DEF IInv, UseInv
    <3>2. SaveInv(d)'
      <4>1. Saver(d) /\ call[d].key # Nothing => Unused(call[d].key)'
        BY <1>1, <2>2, <3>1 DEF CallInv, SaveInv
      <4> QED
        BY <1>3, <2>2, <3>1, <4>1 DEF CallInv, SaveInv, files
    <3>3. CopyInv(d)'
      BY <2>2, <3>1 DEF CallInv, CopyInv, files
    <3>4. RowInv(d)'
      BY <1>3, <2>2, <3>1 DEF CallInv, RowInv
    <3>5. DoomInv(d)'
      <4> SUFFICES ASSUME call[d].at = "deleting", NEW k \in call[d].doomed
                   PROVE  k \in 1 .. keys /\ Unused(k)' /\ \A e \in Calls : Saver(e)' => call'[e].key # k
        BY <2>2 DEF DoomInv, files
      <4>1. k \in 1 .. keys /\ Unused(k) /\ \A e \in Calls : Saver(e) => call[e].key # k
        BY <3>1 DEF CallInv, DoomInv
      <4>2. k # Nothing
        BY <4>1 DEF Nothing
      <4> QED
        BY <1>1, <1>3, <4>1, <4>2
    <3> QED
      BY <3>2, <3>3, <3>4, <3>5 DEF CallInv
  <2> QED
    BY <2>1, <2>2
<1> QED
  BY <1>2, <1>4 DEF UseInv

LEMMA OpenWritesStep ==
    ASSUME IInv, NEW c \in Calls, OpenWrites(c)
    PROVE  UseInv'
<1>1. /\ copied' = [copied EXCEPT ![1] = call[c].copy] /\ UNCHANGED <<banner, files>>
      /\ call' = [call EXCEPT ![c] = NoCall] /\ CopyInv(c) /\ call[c].at = "opening"
      /\ copied \in [Rounds -> [Academies -> {Nothing} \cup Keys]] /\ call \in [Calls -> CallTypes]
  BY Types DEF OpenWrites, End, IInv, UseInv, CallInv
<1>2. ASSUME NEW r \in Rounds, NEW a \in Academies, copied'[r][a] # Nothing
      PROVE  copied'[r][a] \in stored \cup lost /\ ~Uncopied(copied'[r][a])
  <2>1. CASE r = 1
    BY <1>1, <1>2, <2>1 DEF CopyInv, Uncopied
  <2>2. CASE r # 1
    BY <1>1, <1>2, <2>2 DEF Uncopied, IInv, UseInv, NamedAreStored
  <2> QED
    BY <2>1, <2>2
<1>3. event = c
  BY <1>1, Types DEF IInv, HeldBy, HoldsEvent, Opening
<1>4. \A d \in Calls : Writer(d)' => ~call[d].judges
  <2>1. \A d \in Calls : Writer(d) /\ call[d].judges => d = c
    BY <1>3, Types DEF IInv, HeldBy, HoldsEvent, Writer
  <2> QED
    BY <1>1, <2>1 DEF Writer, NoCall
<1>5. \A d \in Calls : call'[d] = call[d] \/ call'[d] = NoCall
  BY <1>1
<1> QED
  BY <1>1, <1>2, <1>4, <1>5, CopyStep

LEMMA TieBreakStep ==
    ASSUME IInv, NEW tied, OpenTieBreak(tied)
    PROVE  UseInv'
<1>1. /\ copied' = [copied EXCEPT ![2] = [a \in Academies |-> IF a \in tied THEN copied[1][a] ELSE Nothing]]
      /\ UNCHANGED <<banner, files, call>> /\ copied \in [Rounds -> [Academies -> {Nothing} \cup Keys]]
  BY Types DEF OpenTieBreak, IInv
<1>2. ASSUME NEW r \in Rounds, NEW a \in Academies, copied'[r][a] # Nothing
      PROVE  copied'[r][a] \in stored \cup lost /\ ~Uncopied(copied'[r][a])
  <2>1. 1 \in Rounds /\ copied'[r][a] \in {copied[r][a], copied[1][a]}
    BY <1>1, <1>2 DEF Rounds
  <2> QED
    BY <1>1, <1>2, <2>1 DEF Uncopied, IInv, UseInv, NamedAreStored
<1>3. \A d \in Calls : Writer(d)' => ~call[d].judges
  BY <1>1, Types, NoneAssumption DEF IInv, OpenTieBreak, EventFree, HeldBy, HoldsEvent, Writer
<1> QED
  BY <1>1, <1>2, <1>3, CopyStep

\* Locks, refusals and deaths.
LEMMA OtherStep ==
    ASSUME IInv, NEW c \in Calls,
           OpenLocks(c) \/ OpenShares(c) \/ OpenRefused(c) \/ Abandon(c)
    PROVE  UseInv'
<1>1. CASE OpenLocks(c)
  <2> DEFINE fields == [NoCall EXCEPT !.at = "sharing"]
  <2>1. fields.at = "sharing" /\ \A a \in Academies : fields.copy[a] = Nothing
    BY DEF NoCall
  <2>2. Go(c, fields) /\ UNCHANGED <<banner, copied, files>>
    BY <1>1 DEF OpenLocks, Begin, Go, tables
  <2> HIDE DEF fields
  <2> QED
    BY <2>1, <2>2, LeaveStep
<1>2. CASE OpenShares(c)
  <2> DEFINE shared == {a \in Academies : banner[a] # NoRow}
             fields == [call[c] EXCEPT !.at = "reading", !.shared = shared]
  <2>1. Go(c, fields) /\ call[c] \in CallTypes /\ call[c].at = "sharing" /\ UNCHANGED <<banner, copied, files>>
    BY <1>2, Types DEF OpenShares, IInv, tables
  <2> HIDE DEF shared
  <2>2. fields.at = "reading" /\ fields.copy = call[c].copy
    BY <2>1 DEF CallTypes
  <2>3. \A a \in Academies : call[c].copy[a] = Nothing
    BY <2>1 DEF IInv, UseInv, CallInv, CopyInv
  <2> HIDE DEF fields
  <2> QED
    BY <2>1, <2>2, <2>3, LeaveStep
<1>3. CASE OpenRefused(c) \/ Abandon(c)
  <2>1. Go(c, NoCall) /\ UNCHANGED <<banner, copied, files>>
    BY <1>3 DEF OpenRefused, Abandon, End, Go, tables
  <2>2. NoCall.at = "idle" /\ \A a \in Academies : NoCall.copy[a] = Nothing
    BY DEF NoCall
  <2> QED
    BY <2>1, <2>2, LeaveStep
<1> QED
  BY <1>1, <1>2, <1>3

\* The invariant holds in every state, however the calls and their steps interleave.
THEOREM Inductive == Spec => []IInv
<1>1. Init => IInv
  <2> SUFFICES ASSUME Init
               PROVE  IInv
    OBVIOUS
  <2>1. TypeOK
    <3>1. /\ picked = {} /\ banner = [a \in Academies |-> NoRow] /\ stored = {} /\ keys = 0 /\ lost = {}
          /\ opened = 0 /\ copied = [r \in Rounds |-> [a \in Academies |-> Nothing]]
          /\ event = None /\ call = [c \in Calls |-> NoCall]
      BY DEF Init
    <3> QED
      BY <3>1, NoCallType, NoneAssumption, BoundAssumption DEF TypeOK, CallTypes, NoCall, Opening, HoldsEvent
  <2>2. UseInv
    BY DEF Init, UseInv, CallInv, NamedAreStored, OneRowEach, SaveInv, CopyInv, RowInv, DoomInv, Saver, Writer,
       NoCall, NoRow, Nothing, Keys
  <2> QED
    BY <2>1, <2>2 DEF IInv
<1>2. IInv /\ [Next]_vars => IInv'
  <2> SUFFICES ASSUME IInv, [Next]_vars
               PROVE  UseInv'
    BY TypeStep DEF IInv
  <2>1. CASE UNCHANGED <<banner, copied, files, call>>
    <3>1. \A c \in Calls : Keeps(c)
      BY <2>1 DEF Keeps, Saver, Writer
    <3> QED
      BY <2>1, <3>1, QuietStep
  <2>2. CASE UNCHANGED vars
    BY <2>1, <2>2 DEF vars, tables
  <2>3. CASE \E a \in Academies : JudgePicks(a) \/ AdministrationPicks(a)
    BY <2>1, <2>3 DEF JudgePicks, AdministrationPicks
  <2> QED
    BY <2>2, <2>3, BeginSaveStep, LockBannerStep, WriteBannerStep, DeleteStep, OpenReadsStep, OpenWritesStep,
       TieBreakStep, OtherStep DEF Next
<1> QED
  BY <1>1, <1>2, PTL DEF Spec

-----------------------------------------------------------------------------
\* THE THEOREMS

\* Type correctness, with the event held by the one call that is opening or that
\* writes a banner with its picks.
THEOREM TypeCorrect == Spec => []TypeOK
<1>1. IInv => TypeOK
  BY DEF IInv
<1> QED
  BY <1>1, Inductive, PTL

\* Every object that an academy's row names is in storage, and so is every one a
\* round copied but those a save without judges took from under its opening,
\* whoever saves, opens or dies in between (saveFinalistBanners,
\* openVotingRound, openTieBreakRound).
THEOREM BannersStored == Spec => []OnlyASaveWithoutJudgesTakesABanner
<1>1. IInv => OnlyASaveWithoutJudgesTakesABanner
  <2> SUFFICES ASSUME IInv
               PROVE  OnlyASaveWithoutJudgesTakesABanner
    OBVIOUS
  <2>1. opened \in 0 .. 2 /\ \A r \in 1 .. opened : r \in Rounds
    BY Types DEF IInv, Rounds
  <2> QED
    BY <2>1 DEF IInv, UseInv, NamedAreStored, OnlyASaveWithoutJudgesTakesABanner, Finalists
<1> QED
  BY <1>1, Inductive, PTL
=============================================================================
