--------------------------- MODULE MCUnicodeLoad ---------------------------
(* UnicodeLoad over files of up to four lines with codes 0..3.             *)
EXTENDS UnicodeLoad, TLC

MCCodes == 0 .. 3
=============================================================================
