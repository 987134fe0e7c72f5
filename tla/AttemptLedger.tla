--------------------------- MODULE AttemptLedger ---------------------------
(***************************************************************************)
(* What an emission promises of each attempt, whatever happens to the      *)
(* calls, the answers and the process: the attempt is live from before     *)
(* ARCA can authorize it until it is either recorded, which only an        *)
(* authorized one is, or closed, which no authorized one is, and after     *)
(* that ARCA never authorizes it.                                          *)
(***************************************************************************)
CONSTANT Attempts

VARIABLES
    stage,       \* how far the application took each attempt
    authorized   \* the attempts ARCA holds a document of

Init ==
    /\ stage = [x \in Attempts |-> "planned"]
    /\ authorized = {}

TypeOK ==
    /\ stage \in [Attempts -> {"planned", "live", "recorded", "closed"}]
    /\ authorized \subseteq Attempts

\* The attempt's number is committed as a reservation.
Reserve(x) ==
    /\ stage[x] = "planned"
    /\ stage' = [stage EXCEPT ![x] = "live"]
    /\ UNCHANGED authorized

\* ARCA authorizes its document.
Authorize(x) ==
    /\ stage[x] = "live"
    /\ x \notin authorized
    /\ authorized' = authorized \cup {x}
    /\ UNCHANGED stage

\* Its document is recorded as a comprobante and its reservation retired.
Record(x) ==
    /\ stage[x] = "live"
    /\ x \in authorized
    /\ stage' = [stage EXCEPT ![x] = "recorded"]
    /\ UNCHANGED authorized

\* It comes to nothing: refused before it was reserved, or rejected, not
\* emitted or abandoned after.
Close(x) ==
    /\ stage[x] \in {"planned", "live"}
    /\ x \notin authorized
    /\ stage' = [stage EXCEPT ![x] = "closed"]
    /\ UNCHANGED authorized

Next == \E x \in Attempts : Reserve(x) \/ Authorize(x) \/ Record(x) \/ Close(x)

Spec == Init /\ [][Next]_<<stage, authorized>>
=============================================================================
