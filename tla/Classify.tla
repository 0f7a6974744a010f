------------------------------- MODULE Classify -------------------------------
(***************************************************************************)
(* The classification and case deriver of src/libc/ctype/mkctype.py        *)
(* (derived_properties, to_upper ... is_xdigit); lines 1-250 of            *)
(* mkctype-extended.py are the same code.  Pure operators over the two    *)
(* loaded dicts, which are parameters: CodePoints maps a code to its       *)
(* record (name, category, whether the decomposition holds <noBreak>, the *)
(* uppercase and lowercase mappings) and Derived maps a code to the set   *)
(* of its derived properties.                                             *)
(*                                                                         *)
(* A name is abstracted to "" (none), "<control>" or "named".              *)
(***************************************************************************)
EXTENDS Integers

CONSTANTS
  CodePoints,   \* code -> [name, category, noBreak, uppercase, lowercase]
  Derived       \* code -> SUBSET {"Alphabetic", "Uppercase", "Lowercase"}

Known(c) == c \in DOMAIN CodePoints
Cp(c) == CodePoints[c]
Named(c) == Known(c) /\ Cp(c).name # ""

DerivedProperties(c) == IF c \in DOMAIN Derived THEN Derived[c] ELSE {}

ToUpper(c) == IF Known(c) THEN Cp(c).uppercase ELSE c
ToLower(c) == IF Known(c) THEN Cp(c).lowercase ELSE c

(* C says only the ASCII digits need apply here.                           *)
IsDigit(c) == \H30 <= c /\ c <= \H39

IsAlpha(c) ==
  \/ "Alphabetic" \in DerivedProperties(c)
  \/ Known(c) /\ Cp(c).category = "Nd" /\ ~IsDigit(c)

IsAlnum(c) == IsAlpha(c) \/ IsDigit(c)

(* Tab, or a space separator other than no-break space.                    *)
IsBlank(c) ==
  \/ c = \H09
  \/ Known(c) /\ Cp(c).category = "Zs" /\ ~Cp(c).noBreak

IsCntrl(c) ==
  Named(c) /\ (Cp(c).name = "<control>" \/ Cp(c).category \in {"Zl", "Zp"})

IsSpace(c) ==
  \/ c \in {\H20, \H0c, \H0a, \H0d, \H09, \H0b}
  \/ Named(c) /\ Cp(c).category \in {"Zl", "Zp"}
  \/ Named(c) /\ Cp(c).category = "Zs" /\ ~Cp(c).noBreak

IsGraph(c) == Named(c) /\ Cp(c).name # "<control>" /\ ~IsSpace(c)

IsPrint(c) ==
  Named(c) /\ Cp(c).name # "<control>" /\ Cp(c).category \notin {"Zl", "Zp"}

IsPunct(c) == IsGraph(c) /\ ~IsAlpha(c) /\ ~IsDigit(c)

IsLower(c) == ToUpper(c) # c \/ "Lowercase" \in DerivedProperties(c)

IsUpper(c) == ToLower(c) # c \/ "Uppercase" \in DerivedProperties(c)

IsXdigit(c) ==
  IsDigit(c) \/ c \in \H41 .. \H46 \/ c \in \H61 .. \H66

\* Mutant: classes() forgets the punct test.
ClassesNoPunct(c) ==
  LET flag == [alnum |-> IsAlnum(c), alpha |-> IsAlpha(c), blank |-> IsBlank(c),
               cntrl |-> IsCntrl(c), digit |-> IsDigit(c), graph |-> IsGraph(c),
               print |-> IsPrint(c), space |-> IsSpace(c), xdigit |-> IsXdigit(c)]
  IN  {n \in DOMAIN flag : flag[n]}
      \cup (IF IsLower(c) THEN (IF ToUpper(c) # c THEN {"case"} ELSE {"lower"}) ELSE {})
      \cup (IF IsUpper(c) THEN (IF ToLower(c) # c THEN {"case"} ELSE {"upper"}) ELSE {})

(***************************************************************************)
(* classes(code) of mkctype.py, the wide table's class tuple: one name per *)
(* predicate that holds, and for a lower (upper) code "case" when its     *)
(* upper (lower) mapping differs from it, else "lower" ("upper").  The    *)
(* tuple is a set here: the C side ORs the names, so their order and the  *)
(* repeated "case" of a code that is both do not matter.                   *)
(***************************************************************************)
Classes(c) ==
  LET flag == [alnum |-> IsAlnum(c), alpha |-> IsAlpha(c), blank |-> IsBlank(c),
               cntrl |-> IsCntrl(c), digit |-> IsDigit(c), graph |-> IsGraph(c),
               print |-> IsPrint(c), punct |-> IsPunct(c), space |-> IsSpace(c),
               xdigit |-> IsXdigit(c)]
  IN  {n \in DOMAIN flag : flag[n]}
      \cup (IF IsLower(c) THEN (IF ToUpper(c) # c THEN {"case"} ELSE {"lower"}) ELSE {})
      \cup (IF IsUpper(c) THEN (IF ToLower(c) # c THEN {"case"} ELSE {"upper"}) ELSE {})

(* classes_name: the names joined by "|", or CLASS_none for none.          *)
ClassesName(cs) == IF cs = {} THEN {"none"} ELSE cs

=============================================================================
