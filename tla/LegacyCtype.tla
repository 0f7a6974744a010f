----------------------------- MODULE LegacyCtype -----------------------------
(***************************************************************************)
(* The legacy-encoding ctype tables of src/libc/ctype/mkctype-extended.py: *)
(* dump_table walks the encodings in order, dump_range walks the bytes     *)
(* 128..255 of each, and print_classes decodes every byte (GEORGIAN-PS by  *)
(* its own table, the C1 bytes of EUC-JP as themselves, anything else by   *)
(* Python's codec) and prints classes() of the result as _U|_L|... bits,   *)
(* or " 0" when anything raised.                                           *)
(*                                                                         *)
(* What Python's codecs answer is an input: codec[e][b] is the decoded    *)
(* code, or Fail.  The define names and the line layout are left out; a   *)
(* table is the map out from <<encoding, byte>> to the set of bits.        *)
(***************************************************************************)
EXTENDS Integers, Sequences, FiniteSets, TLC

CONSTANTS
  CodePoints,   \* the loaded UnicodeData records (see Classify)
  Derived,      \* the loaded derived properties (see Classify)
  Encodings,    \* the encodings in dump_table's order
  Bytes,        \* the bytes of 128..255 a table is checked on, in order
  Samples,      \* the codes a codec may decode a byte to
  Fail,         \* a decode that raises
  Facts         \* facts of Python's codecs the inputs are assumed to have

ASSUME Facts \subseteq {"NoUpperLower"}

INSTANCE Classify

Bits == {"U", "L", "N", "S", "P", "C", "X", "B"}

(***************************************************************************)
(* georgian_ps: the identity except for the CP1252-style punctuation at    *)
(* 0x82..0x9f and the Georgian letters at 0xc0..0xe5, which run through   *)
(* U+10D0.. in order with the five archaic letters U+10F1..U+10F5 put     *)
(* between them at 0xc7, 0xce, 0xd5, 0xe2 and 0xe5.                        *)
(***************************************************************************)
GeorgianPSPunct ==
  (\H82 :> \H201a) @@ (\H83 :> \H0192) @@ (\H84 :> \H201e) @@ (\H85 :> \H2026)
  @@ (\H86 :> \H2020) @@ (\H87 :> \H2021) @@ (\H88 :> \H02c6) @@ (\H89 :> \H2030)
  @@ (\H8a :> \H0160) @@ (\H8b :> \H2039) @@ (\H8c :> \H0152) @@ (\H91 :> \H2018)
  @@ (\H92 :> \H2019) @@ (\H93 :> \H201c) @@ (\H94 :> \H201d) @@ (\H95 :> \H2022)
  @@ (\H96 :> \H2013) @@ (\H97 :> \H2014) @@ (\H98 :> \H02dc) @@ (\H99 :> \H2122)
  @@ (\H9a :> \H0161) @@ (\H9b :> \H203a) @@ (\H9c :> \H0153) @@ (\H9f :> \H0178)

GeorgianArchaic == {\Hc7, \Hce, \Hd5, \He2, \He5}

GeorgianPS(b) ==
  LET below == Cardinality({a \in GeorgianArchaic : a < b})
  IN  CASE b \in DOMAIN GeorgianPSPunct -> GeorgianPSPunct[b]
        [] b \in GeorgianArchaic        -> \H10f1 + below
        [] b \in \Hc0 .. \He5           -> \H10d0 + (b - \Hc0) - below
        [] OTHER                        -> b

(* The C1 bytes EUC-JP passes through: all of 0x80..0x9f but SS2, SS3.     *)
EucJpC1(b) == b \in \H80 .. \H8d \/ b \in \H90 .. \H9f

\* Mutant: a cased-less alphabetic code is printed as upper only.
ExtClassesAlphaUpper(c) ==
  (IF IsUpper(c) THEN {"U"} ELSE IF IsLower(c) THEN {"L"}
   ELSE IF IsAlpha(c) THEN {"U"} ELSE {})
  \cup {x \in Bits :
          CASE x = "N" -> IsDigit(c)   [] x = "S" -> IsSpace(c)
            [] x = "P" -> IsPunct(c)   [] x = "C" -> IsCntrl(c)
            [] x = "X" -> IsXdigit(c) /\ ~IsDigit(c)
            [] x = "B" -> IsBlank(c) /\ c # \H09
            [] OTHER -> FALSE}

(***************************************************************************)
(* classes(code) of mkctype-extended.py: one of _U, _L or _U|_L (an        *)
(* alphabetic code with no case), then _N _S _P _C, _X for a non-digit hex *)
(* digit, _B for a blank other than tab.  The empty set prints as " 0".   *)
(***************************************************************************)
ExtClasses(c) ==
  (IF IsUpper(c) THEN {"U"} ELSE IF IsLower(c) THEN {"L"}
   ELSE IF IsAlpha(c) THEN {"U", "L"} ELSE {})
  \cup {x \in Bits :
          CASE x = "N" -> IsDigit(c)   [] x = "S" -> IsSpace(c)
            [] x = "P" -> IsPunct(c)   [] x = "C" -> IsCntrl(c)
            [] x = "X" -> IsXdigit(c) /\ ~IsDigit(c)
            [] x = "B" -> IsBlank(c) /\ c # \H09
            [] OTHER -> FALSE}

VARIABLES
  codec,        \* what Python's codec decodes each byte of each encoding to
  ei,           \* index of the encoding being dumped
  bi,           \* index of the next byte of that encoding
  out           \* the printed tables

vars == <<codec, ei, bi, out>>

EncodingSet == {Encodings[k] : k \in DOMAIN Encodings}
ByteSet == {Bytes[k] : k \in DOMAIN Bytes}

(* The encodings and bytes whose decode goes to the codec.                 *)
ByCodec(e, b) == e # "GEORGIAN-PS" /\ ~(e = "EUC-JP" /\ EucJpC1(b))

(* No byte decodes to a code that is both upper and lower (a titlecase     *)
(* letter such as U+01C5): true of every codec dump_table names.          *)
NoUpperLower(u) == u # Fail => ~(IsUpper(u) /\ IsLower(u))

(* The answers a codec may give under the assumed facts.                  *)
Answers == {u \in Samples \cup {Fail} : "NoUpperLower" \in Facts => NoUpperLower(u)}

CodecPairs == {p \in EncodingSet \X ByteSet : ByCodec(p[1], p[2])}

Init ==
  /\ \E f \in [CodecPairs -> Answers] :
       codec = [e \in EncodingSet |->
                  [b \in ByteSet |-> IF ByCodec(e, b) THEN f[<<e, b>>] ELSE Fail]]
  /\ ei = 1
  /\ bi = 1
  /\ out = << >>

(* print_classes: the code the byte stands for, or Fail.                   *)
Decode(e, b) ==
  CASE e = "GEORGIAN-PS"              -> GeorgianPS(b)
    [] e = "EUC-JP" /\ EucJpC1(b)     -> b
    [] OTHER                          -> codec[e][b]

(* print_classes(code, encoding, comma): " 0" when the decode raised.      *)
PrintClasses(e, b) ==
  out' = (<<e, b>> :> IF Decode(e, b) = Fail THEN {}
                      ELSE ExtClasses(Decode(e, b))) @@ out

(* dump_range: the next byte of the current encoding.                      *)
DumpByte ==
  /\ ei <= Len(Encodings) /\ bi < Len(Bytes)
  /\ PrintClasses(Encodings[ei], Bytes[bi])
  /\ bi' = bi + 1
  /\ UNCHANGED <<codec, ei>>

(* The last byte of an encoding; dump_table goes on with the next one.     *)
DumpLastByte ==
  /\ ei <= Len(Encodings) /\ bi = Len(Bytes)
  /\ PrintClasses(Encodings[ei], Bytes[bi])
  /\ ei' = ei + 1
  /\ bi' = 1
  /\ UNCHANGED codec

Next == DumpByte \/ DumpLastByte

Spec == Init /\ [][Next]_vars /\ WF_vars(Next)

-----------------------------------------------------------------------------
(***************************************************************************)
(* How <ctype.h> reads a byte's bits (newlib/picolibc ctype.h): isupper   *)
(* and islower need exactly one of _U, _L; isalpha either; isblank is _B  *)
(* or tab, and a byte >= 128 is never tab.                                 *)
(***************************************************************************)
CIsAlpha(s)  == s \cap {"U", "L"} # {}
CIsUpper(s)  == s \cap {"U", "L"} = {"U"}
CIsLower(s)  == s \cap {"U", "L"} = {"L"}
CIsDigit(s)  == "N" \in s
CIsXdigit(s) == s \cap {"X", "N"} # {}
CIsSpace(s)  == "S" \in s
CIsPunct(s)  == "P" \in s
CIsAlnum(s)  == s \cap {"U", "L", "N"} # {}
CIsPrint(s)  == s \cap {"P", "U", "L", "N", "B"} # {}
CIsGraph(s)  == s \cap {"P", "U", "L", "N"} # {}
CIsCntrl(s)  == "C" \in s
CIsBlank(s)  == "B" \in s

(***************************************************************************)
(* Every printed byte, read through <ctype.h>, answers each of the twelve  *)
(* is* questions the way the deriver answers it for the code the byte      *)
(* decodes to, and a byte that does not decode answers no to all: the     *)
(* legacy tables "reuse the classification deriver".  The single case     *)
(* slot of classes() (upper, else lower, else both) is what is at stake.   *)
(***************************************************************************)
MacrosAgree ==
  \A p \in DOMAIN out :
    LET s == out[p]
        u == Decode(p[1], p[2])
    IN  IF u = Fail THEN s = {}
        ELSE /\ CIsAlpha(s) = IsAlpha(u)   /\ CIsUpper(s) = IsUpper(u)
             /\ CIsLower(s) = IsLower(u)   /\ CIsDigit(s) = IsDigit(u)
             /\ CIsXdigit(s) = IsXdigit(u) /\ CIsSpace(s) = IsSpace(u)
             /\ CIsPunct(s) = IsPunct(u)   /\ CIsAlnum(s) = IsAlnum(u)
             /\ CIsPrint(s) = IsPrint(u)   /\ CIsGraph(s) = IsGraph(u)
             /\ CIsCntrl(s) = IsCntrl(u)   /\ CIsBlank(s) = IsBlank(u)

(***************************************************************************)
(* How the wide table's class names read (the ctype consumer is not under *)
(* src/): each name is its iswxxx, CLASS_none is none, and "case" makes a *)
(* code upper (lower) when it has a lower (upper) mapping.                 *)
(***************************************************************************)
WIsUpper(w, u) == "upper" \in w \/ ("case" \in w /\ ToLower(u) # u)
WIsLower(w, u) == "lower" \in w \/ ("case" \in w /\ ToUpper(u) # u)

(***************************************************************************)
(* A locale's narrow and wide ctype agree: every printed byte that decodes *)
(* answers each is* question as the wide table (mkctype.py classes() and   *)
(* classes_name) answers the matching isw* question for the decoded code, *)
(* isalpha(b) = iswalpha(btowc(b)).  The two generators encode classes     *)
(* differently: a bit set with one case slot here, a name tuple with       *)
(* "case" there, from two copies of classes().                             *)
(***************************************************************************)
WideAgrees ==
  \A p \in DOMAIN out :
    LET s == out[p]
        u == Decode(p[1], p[2])
        w == ClassesName(Classes(u))
    IN  u # Fail =>
          /\ CIsAlpha(s) = ("alpha" \in w)   /\ CIsUpper(s) = WIsUpper(w, u)
          /\ CIsLower(s) = WIsLower(w, u)     /\ CIsDigit(s) = ("digit" \in w)
          /\ CIsXdigit(s) = ("xdigit" \in w) /\ CIsSpace(s) = ("space" \in w)
          /\ CIsPunct(s) = ("punct" \in w)   /\ CIsAlnum(s) = ("alnum" \in w)
          /\ CIsPrint(s) = ("print" \in w)   /\ CIsGraph(s) = ("graph" \in w)
          /\ CIsCntrl(s) = ("cntrl" \in w)   /\ CIsBlank(s) = ("blank" \in w)

=============================================================================
