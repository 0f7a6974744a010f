--------------------------- MODULE MCDerivedLoad ---------------------------
(* DerivedLoad over files of up to three lines, codes 0..2, two properties. *)
EXTENDS DerivedLoad

MCCodes == 0 .. 2
=============================================================================
