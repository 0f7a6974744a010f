------------------------------ MODULE MCJisPack ------------------------------
(* JisPack for TLC: four leading bytes, three trailing bytes, a split      *)
(* budget of four codes and 4-bit offsets (the code: 256, 256, 0x4000 and  *)
(* 16 bits).                                                               *)
EXTENDS JisPack

MCNRows == 4
MCNCols == 3
MCSplitCodes == 4
MCOffsetWidth == 4

(***************************************************************************)
(* The calls of lines 358-364: jis_x0208 and jis_x0213 (rows() leaves the *)
(* rows below 0x80 None, here row 0, and both bounds are searched);        *)
(* unicode (u_rows() has every row, the last row is given as 0x9f, here   *)
(* the row before the last); unicode_ff (row 0xff alone, no map).          *)
(***************************************************************************)
MCCalls ==
  { [first |-> None, last |-> None, doMap |-> TRUE, none |-> {0}],
    [first |-> None, last |-> MCNRows - 2, doMap |-> TRUE, none |-> {}],
    [first |-> MCNRows - 1, last |-> MCNRows - 1, doMap |-> FALSE, none |-> {}] }
=============================================================================
