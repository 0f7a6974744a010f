--------------------------- MODULE MCJisReverse ---------------------------
(***************************************************************************)
(* JisReverse over three 2-byte sequences (one in the half-width kana row *)
(* 0x8e) and two 3-byte ones (one of them 8f a2 b7), in the order rows()  *)
(* builds their rows.  The decoder may give each of the four free          *)
(* sequences one of three codepoints or fail, so duplicate decodings,     *)
(* empty rows and unencodable codepoints all occur.  The fallbacks are    *)
(* Python's: U+00A5 -> 5c and U+203E -> 7e.                               *)
(***************************************************************************)
EXTENDS JisReverse, TLC

MCSeqs == {<<\H8e, \Hb1>>, <<\Ha1, \Ha1>>, <<\Hb0, \Ha1>>,
           <<\H8f, \Ha2, \Hb7>>, <<\H8f, \Hb0, \Ha1>>}

MCRowOrder == <<<<\H8e>>, <<\Ha1>>, <<\Hb0>>, <<\H8f, \Ha2>>, <<\H8f, \Hb0>>>>

MCUCodes == {\H3000, \H4e9c, \Hff71}

MCFallback == (\Ha5 :> <<\H5c>>) @@ (\H203e :> <<\H7e>>)
=============================================================================
