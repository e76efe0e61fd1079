---------------------------- MODULE MCOverrides ----------------------------
(***************************************************************************)
(* Overrides with the values of config.h, and the characters of a run.     *)
(***************************************************************************)
EXTENDS Overrides

\* Enough of each kind to take an override from limit to limit.
MixedCharacters ==
  ({"feed"} \X {"RESET", "COARSE_PLUS", "COARSE_MINUS", "FINE_MINUS"})
    \cup {<<"rapid", "LOW">>, <<"spindle", "COARSE_MINUS">>}
=============================================================================
