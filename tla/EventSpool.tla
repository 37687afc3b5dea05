----------------------------- MODULE EventSpool -----------------------------
(***************************************************************************)
(* What the retry queue promises to the sender, without files, clocks and  *)
(* claims: an event is parked, taken by one process at a time, given back  *)
(* or gone for good; an event whose taker died is parked again, and that   *)
(* happens only when nobody holds it any more.                             *)
(***************************************************************************)
CONSTANTS Procs, Events, NoEvent

VARIABLES
    stage,  \* stage[e]: where event e stands
    holds   \* holds[p]: the event process p is delivering, or NoEvent

spoolVars == <<stage, holds>>

Stages == {"new", "parked", "taken", "gone"}

Holders(e) == {p \in Procs : holds[p] = e}

SpoolInit ==
    /\ stage = [e \in Events |-> "new"]
    /\ holds = [p \in Procs |-> NoEvent]

Park(e) ==
    /\ stage[e] = "new"
    /\ stage' = [stage EXCEPT ![e] = "parked"]
    /\ UNCHANGED holds

Take(p, e) ==
    /\ stage[e] = "parked" /\ holds[p] = NoEvent
    /\ stage' = [stage EXCEPT ![e] = "taken"]
    /\ holds' = [holds EXCEPT ![p] = e]

GiveBack(p, e) ==
    /\ stage[e] = "taken" /\ holds[p] = e
    /\ stage' = [stage EXCEPT ![e] = "parked"]
    /\ holds' = [holds EXCEPT ![p] = NoEvent]

\* Delivered, refused, expired, capped or discarded: never seen again.
Finish(e) ==
    /\ stage[e] # "gone"
    /\ stage' = [stage EXCEPT ![e] = "gone"]
    /\ holds' = [p \in Procs |-> IF holds[p] = e THEN NoEvent ELSE holds[p]]

Abandon(p) ==
    /\ holds[p] # NoEvent
    /\ holds' = [holds EXCEPT ![p] = NoEvent]
    /\ UNCHANGED stage

Recover(e) ==
    /\ stage[e] = "taken" /\ Holders(e) = {}
    /\ stage' = [stage EXCEPT ![e] = "parked"]
    /\ UNCHANGED holds

SpoolNext ==
    \/ \E e \in Events : Park(e) \/ Finish(e) \/ Recover(e)
    \/ \E p \in Procs, e \in Events : Take(p, e) \/ GiveBack(p, e)
    \/ \E p \in Procs : Abandon(p)

SpoolSpec == SpoolInit /\ [][SpoolNext]_spoolVars

=============================================================================
