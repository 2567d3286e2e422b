------------------------------- MODULE MCNames -------------------------------
(* An instance of Names for TLC. *)
EXTENDS Names

\* One id begins with the other, and "a" is the beginning of both.
BeginsMC == {<<"ab", "a">>, <<"abc", "a">>, <<"ab", "ab">>, <<"abc", "ab">>, <<"abc", "abc">>}
==============================================================================
