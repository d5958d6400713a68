------------------------------- MODULE Steps --------------------------------
(* Steps done one after the other to a state that is a value. *)

\* Step(_) done to the state s that the steps before it left.  It is Step(s);
\* the set makes TLC compute s once, however often Step uses it.
Then(s, Step(_)) == CHOOSE n \in {Step(k) : k \in {s}} : TRUE
=============================================================================
