---------------------------- MODULE MCLegacyCtype ----------------------------
(***************************************************************************)
(* Real UnicodeData records for the codes the model's bytes decode to:    *)
(* the C1 controls EUC-JP passes through, Georgian-PS punctuation and a   *)
(* Georgian letter, and a sample of what the other codecs answer: no-break *)
(* space, a feminine ordinal (lowercase, no case mapping), a Latin capital *)
(* letter, Hebrew alef, an Arabic-Indic digit, and the titlecase letter   *)
(* U+01C5.  0xff is y with diaeresis in Georgian-PS.                       *)
(***************************************************************************)
EXTENDS LegacyCtype

Rec(name, cat, nb, up, lo) ==
  [name |-> name, category |-> cat, noBreak |-> nb, uppercase |-> up, lowercase |-> lo]

MCCodePoints ==
  (\H85 :> Rec("<control>", "Cc", FALSE, \H85, \H85))
  @@ (\Ha0 :> Rec("named", "Zs", TRUE, \Ha0, \Ha0))
  @@ (\Haa :> Rec("named", "Lo", FALSE, \Haa, \Haa))
  @@ (\Hc0 :> Rec("named", "Lu", FALSE, \Hc0, \He0))
  @@ (\Hff :> Rec("named", "Ll", FALSE, \H178, \Hff))
  @@ (\H1c5 :> Rec("named", "Lt", FALSE, \H1c4, \H1c6))
  @@ (\H5d0 :> Rec("named", "Lo", FALSE, \H5d0, \H5d0))
  @@ (\H661 :> Rec("named", "Nd", FALSE, \H661, \H661))
  @@ (\H10d0 :> Rec("named", "Ll", FALSE, \H1c90, \H10d0))
  @@ (\H2026 :> Rec("named", "Po", FALSE, \H2026, \H2026))

MCDerived ==
  (\Haa :> {"Alphabetic", "Lowercase"}) @@ (\Hc0 :> {"Alphabetic", "Uppercase"})
  @@ (\Hff :> {"Alphabetic", "Lowercase"}) @@ (\H1c5 :> {"Alphabetic"})
  @@ (\H5d0 :> {"Alphabetic"}) @@ (\H10d0 :> {"Alphabetic", "Lowercase"})

MCEncodings == <<"ISO-8859-1", "EUC-JP", "GEORGIAN-PS">>
MCBytes == <<\H85, \Hc0, \Hff>>
MCSamples == {\Ha0, \Haa, \Hc0, \H1c5, \H5d0, \H661}
=============================================================================
