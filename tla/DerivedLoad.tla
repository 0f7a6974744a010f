----------------------------- MODULE DerivedLoad -----------------------------
(***************************************************************************)
(* load_derived_properties of src/libc/ctype/mkctype.py (and               *)
(* DerivedCoreProperty): one pass over DerivedCoreProperties.txt that      *)
(* appends the property of each "first..last ; Value" line to the list of  *)
(* every code of the range.  Lines that do not start with a hex code and   *)
(* hold a ';' (comments, blank lines) are skipped.                        *)
(***************************************************************************)
EXTENDS Integers, Sequences, FiniteSets, TLC

CONSTANTS
  Codes,        \* the codepoints the ranges may cover
  Props,        \* property names (Alphabetic, Uppercase, ...)
  MaxLines      \* the longest file considered

DLine == [data : {TRUE}, first : Codes, last : Codes, value : Props]
          \cup [data : {FALSE}]

VARIABLES
  dlines,       \* the file: the input
  i,            \* index of the next line
  ret           \* the dict being built

vars == <<dlines, i, ret>>

TypeOK ==
  /\ dlines \in Seq(DLine)
  /\ i \in 1 .. Len(dlines) + 1
  /\ DOMAIN ret \subseteq Codes
  /\ \A c \in DOMAIN ret : ret[c] \in Seq(Props) /\ ret[c] # << >>

(* Every file of up to MaxLines lines; a range never runs backwards.      *)
Init ==
  /\ dlines \in UNION {[1 .. n -> {l \in DLine : l.data => l.first <= l.last}]
                         : n \in 0 .. MaxLines}
  /\ i = 1
  /\ ret = << >>

\* Mutant: a new code gets the empty list and the value is dropped.
AppendValueDropped(c, v) == IF c \in DOMAIN ret THEN ret[c] \o <<v>> ELSE << >>

\* Mutant: the list is not extended but replaced.
AppendValueReset(c, v) == <<v>>

(* "if c not in ret: ret[c] = []" then "ret[c] += [d.value]".              *)
AppendValue(c, v) == (IF c \in DOMAIN ret THEN ret[c] ELSE << >>) \o <<v>>

(* A line matching '^[0-9A-F]+.*;': every code of first..last gets value. *)
ReadRange ==
  /\ dlines[i].data
  /\ LET d == dlines[i]
     IN  ret' = [c \in DOMAIN ret \cup (d.first .. d.last) |->
                   IF c \in d.first .. d.last THEN AppendValue(c, d.value)
                   ELSE ret[c]]

SkipLine ==
  /\ ~dlines[i].data
  /\ UNCHANGED ret

ReadLine ==
  /\ i <= Len(dlines)
  /\ ReadRange \/ SkipLine
  /\ i' = i + 1
  /\ UNCHANGED dlines

Next == ReadLine

Spec == Init /\ [][Next]_vars /\ WF_vars(Next)

(* derived_properties(code): the list, or () for a code with none.         *)
DerivedProperties(c) == IF c \in DOMAIN ret THEN ret[c] ELSE << >>

-----------------------------------------------------------------------------
(* What the file says of c: the values of the lines covering it, in order. *)
Covering(c) ==
  LET covers(l) == l.data /\ c \in l.first .. l.last
      ks == {k \in DOMAIN dlines : covers(dlines[k])}
      idx == [n \in 1 .. Cardinality(ks) |->
                CHOOSE k \in ks : Cardinality({j \in ks : j < k}) = n - 1]
  IN  [n \in DOMAIN idx |-> dlines[idx[n]].value]

(***************************************************************************)
(* Once the file is read, derived_properties of every code lists the      *)
(* property of every line whose range covers it, in file order: a code    *)
(* named by several ranges (Alphabetic and Lowercase, say) keeps them all.*)
(***************************************************************************)
DerivedAsListed ==
  i = Len(dlines) + 1 => \A c \in Codes : DerivedProperties(c) = Covering(c)

=============================================================================
