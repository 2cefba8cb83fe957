------------------------ MODULE MCBindingLifecycle ------------------------
(***************************************************************************)
(* The instance of BindingLifecycle for TLC.  The request ids bound the    *)
(* histories: every event takes one.                                       *)
(***************************************************************************)
EXTENDS BindingLifecycle, TLC

CONSTANTS c1, c2, k1, k2, s1, q1, q2, q3, q4, a1, a2

\* One source bound to two policy versions.
TwoKeys == k1 :> s1 @@ k2 :> s1

SomeAsked ==
    ({k1} \X {"PROPOSED"} \X {q1, q2, q4} \X {a1})
        \cup ({k1} \X {"APPROVED"} \X {q2, q3} \X {a1})
        \cup ({k1} \X {"REVOKED"} \X {q1, q3} \X {a1})
        \cup {<<k1, "PROPOSED", q1, a2>>, <<k2, "PROPOSED", q4, a1>>}
=============================================================================
