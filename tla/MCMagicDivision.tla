-------------------------- MODULE MCMagicDivision --------------------------
(* A narrow instance of the magic division.                                *)
EXTENDS MagicDivision
=============================================================================
