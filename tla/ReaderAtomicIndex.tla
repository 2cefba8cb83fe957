------------------------- MODULE ReaderAtomicIndex -------------------------
(***************************************************************************)
(* What index generation promises to readers: a binding shows nothing at   *)
(* first and from then on one completed run of its own, replaced in one    *)
(* step.  A reader never finds a chunk of another run, and finds every     *)
(* chunk of the run shown but the exposed ones, which an upsert of another *)
(* generation may have taken from it.                                      *)
(***************************************************************************)
CONSTANTS Runs, Bindings, BindingOf, ChunksOf, Completed

VARIABLES
    shown,     \* shown[b]: the run that binding b shows, as a set of at most one
    readable,  \* readable[b]: the chunks a reader of binding b can find
    exposed    \* the chunks that another generation may take over

vars == <<shown, readable, exposed>>

Content(b) == UNION {ChunksOf[r] : r \in shown[b]}

\* What can be read is what is shown, up to exposed chunks.
Faithful ==
    \A b \in Bindings : /\ readable[b] \subseteq Content(b)
                        /\ Content(b) \ exposed \subseteq readable[b]

Init ==
    /\ shown = [b \in Bindings |-> {}]
    /\ Faithful

Replace(r) ==
    /\ r \in Completed
    /\ ChunksOf[r] # {}
    /\ shown' = [shown EXCEPT ![BindingOf[r]] = {r}]
    /\ Faithful'

\* Points change under the runs that are shown.
Disturb == shown' = shown /\ Faithful'

Next == Disturb \/ \E r \in Runs : Replace(r)

Spec == Init /\ [][Next]_vars
=============================================================================
