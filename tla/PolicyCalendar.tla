--------------------------- MODULE PolicyCalendar ---------------------------
(***************************************************************************)
(* What activation promises for one academic year and scope: each day has  *)
(* at most one policy version.  A version takes days that are free, in one *)
(* step and without gaps, and it is only ever its own days that it gives   *)
(* back, from some day on.                                                 *)
(***************************************************************************)
EXTENDS Naturals

CONSTANTS
    Versions,
    Days,
    Never  \* later than any day

VARIABLE calendar  \* calendar[d]: the versions in force on day d

Init == calendar = [d \in Days |-> {}]

\* v takes the days from first up to, but not including, last.
Take(v, first, last) ==
    /\ first < last
    /\ \A d \in Days : first <= d /\ d < last => calendar[d] = {}
    /\ calendar' = [d \in Days |-> IF first <= d /\ d < last THEN {v} ELSE calendar[d]]

GiveBack(v, day) ==
    calendar' = [d \in Days |-> IF day <= d /\ calendar[d] = {v} THEN {} ELSE calendar[d]]

Next == \E v \in Versions, day \in Days :
    \/ \E last \in Days \cup {Never} : Take(v, day, last)
    \/ GiveBack(v, day)

Spec == Init /\ [][Next]_calendar
=============================================================================
