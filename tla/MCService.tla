------------------------------- MODULE MCService -------------------------------
(***************************************************************************)
(* Service with two apps that the handlers cannot tell apart except by the *)
(* lists they are on.                                                      *)
(***************************************************************************)
EXTENDS Service, TLC

AppSymmetry == Permutations(Apps)
================================================================================
