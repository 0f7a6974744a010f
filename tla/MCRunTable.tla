----------------------------- MODULE MCRunTable -----------------------------
(* RunTable for TLC: four basic and four extended codepoints, two flags.   *)
EXTENDS RunTable, TLC

MCNBasic == 4
MCNAll == 8
(* The properties never name a particular flag. *)
FlagSymmetry == Permutations(Flags)
=============================================================================
