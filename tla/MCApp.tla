------------------------------- MODULE MCApp -------------------------------
(* A small instance of App for TLC: an election, or a launch, or a few     *)
(* pages, within MaxClicks clicks.                                         *)
EXTENDS App
=============================================================================
