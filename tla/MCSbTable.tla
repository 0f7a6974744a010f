------------------------------ MODULE MCSbTable ------------------------------
(***************************************************************************)
(* One ISO row, then two code-page rows, the second Georgian-PS (decoded  *)
(* by the script's own table: 0x82 -> U+201A, 0xc0 -> U+10D0).  A codec    *)
(* may fail or answer a code above or below what came before.              *)
(***************************************************************************)
EXTENDS SbTable

MCTables == << <<"iso", "ISO-8859-2">>, <<"cp", "CP1252">>, <<"cp", "GEORGIAN-PS">> >>
MCIsoBytes == << \Ha0, \Hff >>
MCCpBytes == << \H82, \Hc0, \Hff >>
MCSamples == {\Ha0, \H2d9, \H20ac}
=============================================================================
