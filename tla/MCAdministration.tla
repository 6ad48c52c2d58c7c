-------------------------- MODULE MCAdministration --------------------------
(***************************************************************************)
(* An instance of Administration for TLC.  The specification treats all    *)
(* channels alike, and FirstRoundIsInA only removes renamings of the same  *)
(* behaviour.                                                              *)
(***************************************************************************)
EXTENDS Administration

CONSTANT a

FirstRoundIsInA == rounds # << >> => rounds[1] = a
=============================================================================
