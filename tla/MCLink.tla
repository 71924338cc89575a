------------------------------- MODULE MCLink -------------------------------
(* An instance of Link for TLC. *)
EXTENDS Link

\* No delay at all, a maximum below the initial delay, a curve that reaches its cap.
Configured == {<<0, 0>>, <<7, 3>>, <<5, 30>>}

Lookups == {<<>>, <<"v6", "v4">>}

=============================================================================
