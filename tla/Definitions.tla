---------------------------- MODULE Definitions ----------------------------
(***************************************************************************)
(* What the database promises of definitions and their items, requirement  *)
(* versions with criteria and members and policy versions with rules: an   *)
(* item only sets out for a definition that is not frozen.  An item that   *)
(* set out before may still arrive after.  A requirement version stays     *)
(* frozen; a policy version is frozen as long as its status says so.       *)
(***************************************************************************)
CONSTANTS
    Items,       \* everything an item can be
    Parent,      \* Parent[i]: the definition of an item
    Reopenable   \* the definitions that may become open again

VARIABLES
    items,     \* the items that have arrived
    entering,  \* those that have set out
    frozen     \* the frozen definitions

Init ==
    /\ items = {}
    /\ entering = {}
    /\ frozen = {}

SetOut(i) ==
    /\ i \notin items \cup entering
    /\ Parent[i] \notin frozen
    /\ entering' = entering \cup {i}
    /\ UNCHANGED <<items, frozen>>

Arrive(i) ==
    /\ i \in entering
    /\ entering' = entering \ {i}
    /\ items' = items \cup {i}
    /\ UNCHANGED frozen

TurnBack(i) ==
    /\ i \in entering
    /\ entering' = entering \ {i}
    /\ UNCHANGED <<items, frozen>>

Freeze(d) ==
    /\ frozen' = frozen \cup {d}
    /\ UNCHANGED <<items, entering>>

Reopen(d) ==
    /\ d \in frozen \cap Reopenable
    /\ frozen' = frozen \ {d}
    /\ UNCHANGED <<items, entering>>

Next ==
    \/ \E i \in Items : SetOut(i) \/ Arrive(i) \/ TurnBack(i)
    \/ \E i \in Items : Freeze(Parent[i]) \/ Reopen(Parent[i])

Spec == Init /\ [][Next]_<<items, entering, frozen>>

\* Frozen, and with nothing on its way, a definition is final, until it is reopened.
Final(d) ==
    /\ d \in frozen
    /\ \A i \in entering : Parent[i] # d
=============================================================================
