----------------------------- MODULE UnicodeLoad -----------------------------
(***************************************************************************)
(* load_unicode_data of src/libc/ctype/mkctype.py (the same code is in     *)
(* mkctype-extended.py): one pass over the lines of UnicodeData.txt that   *)
(* builds CodePoints, a dict from codepoint to CodePoint record.           *)
(*                                                                         *)
(* A line is abstracted to what the loop tests: its code, whether its name *)
(* is "<..., First>", "<..., Last>" or anything else, whether its category *)
(* is Cs, and whether its upper/lower/title case fields are set.  A loaded *)
(* record is identified by the line it was read from, its code, and       *)
(* whether its case mappings are the code itself (case_value of an empty  *)
(* field, or new_code).                                                    *)
(***************************************************************************)
EXTENDS Integers, Sequences, FiniteSets, TLC

CONSTANTS
  Codes,        \* the codepoints the lines may carry
  None,         \* Python's None, the initial first
  Facts         \* facts of UnicodeData.txt the inputs are assumed to have

ASSUME Facts \subseteq {"Paired"}

Kinds == {"plain", "first", "last"}
Line == [code : Codes, kind : Kinds, cs : BOOLEAN, cased : BOOLEAN]
Record == [line : Nat, code : Codes, selfCase : BOOLEAN]

VARIABLES
  lines,        \* the file: the input
  i,            \* index of the next line
  first,        \* index of the last First line read, or None
  ret           \* the dict being built

vars == <<lines, i, first, ret>>

(***************************************************************************)
(* UnicodeData.txt lists codes in increasing order, and every range is a   *)
(* First line immediately followed by its Last line, both of the same      *)
(* category.                                                               *)
(***************************************************************************)
Paired(ls) ==
  \A k \in DOMAIN ls :
    /\ ls[k].kind = "first" =>
         k + 1 \in DOMAIN ls /\ ls[k + 1].kind = "last" /\ ls[k + 1].cs = ls[k].cs
    /\ ls[k].kind = "last" =>
         k - 1 \in DOMAIN ls /\ ls[k - 1].kind = "first"

(* The codes of S in increasing order.                                    *)
Sorted(S) ==
  [k \in 1 .. Cardinality(S) |->
     CHOOSE x \in S : Cardinality({y \in S : y < x}) = k - 1]

(* The file of the codes of S in increasing order, with line ls[c] at c. *)
File(S, ls) ==
  LET o == Sorted(S)
  IN  [k \in DOMAIN o |-> [code |-> o[k]] @@ ls[o[k]]]

TypeOK ==
  /\ lines \in Seq(Line)
  /\ i \in 1 .. Len(lines) + 1
  /\ first \in DOMAIN lines \cup {None}
  /\ DOMAIN ret \subseteq Codes
  /\ \A c \in DOMAIN ret : ret[c] \in Record /\ ret[c].code = c

Init ==
  /\ \E S \in SUBSET Codes :
       \E ls \in [S -> [kind : Kinds, cs : BOOLEAN, cased : BOOLEAN]] :
         lines = File(S, ls)
  /\ "Paired" \in Facts => Paired(lines)
  /\ i = 1
  /\ first = None
  /\ ret = << >>

(* CodePoint.__init__: the record of a line; case_value gives the code    *)
(* itself for an empty case field.                                         *)
CodePoint(k) == [line |-> k, code |-> lines[k].code, selfCase |-> ~lines[k].cased]

\* Mutant: new_code does not set the copy's code.
NewCodeKeepsCode(k, c) == [line |-> k, code |-> lines[k].code, selfCase |-> TRUE]

\* Mutant: new_code does not reset the case mappings.
NewCodeKeepsCase(k, c) == [line |-> k, code |-> c, selfCase |-> ~lines[k].cased]

(* CodePoint.new_code: a copy with another code, its own case mappings.   *)
NewCode(k, c) == [line |-> k, code |-> c, selfCase |-> TRUE]

(* A line of category Cs: continue.                                        *)
SkipSurrogate ==
  /\ lines[i].cs
  /\ UNCHANGED <<first, ret>>

(* "<name, First>": remember the line (its name becomes the range name).  *)
ReadFirst ==
  /\ ~lines[i].cs /\ lines[i].kind = "first"
  /\ first' = i
  /\ UNCHANGED ret

\* Mutant: the range stops one code short of the Last line's code.
ExpandShort(lo, hi) == [c \in lo .. hi - 1 |-> NewCode(first, c)] @@ ret

(* ret[code] = first.new_code(code) for every code of lo..hi.             *)
Expand(lo, hi) == [c \in lo .. hi |-> NewCode(first, c)] @@ ret

(* "<name, Last>": if a First was seen, every code from the First's code   *)
(* to this line's gets a copy of the First record.  first is not reset.    *)
ReadLast ==
  /\ ~lines[i].cs /\ lines[i].kind = "last"
  /\ ret' = IF first = None THEN ret
            ELSE Expand(lines[first].code, lines[i].code)
  /\ UNCHANGED first

(* Any other line: ret[ud.code] = ud.                                      *)
ReadPlain ==
  /\ ~lines[i].cs /\ lines[i].kind = "plain"
  /\ ret' = (lines[i].code :> CodePoint(i)) @@ ret
  /\ UNCHANGED first

ReadLine ==
  /\ i <= Len(lines)
  /\ SkipSurrogate \/ ReadFirst \/ ReadLast \/ ReadPlain
  /\ i' = i + 1
  /\ UNCHANGED lines

Next == ReadLine

Spec == Init /\ [][Next]_vars /\ WF_vars(Next)

Done == i = Len(lines) + 1

-----------------------------------------------------------------------------
(***************************************************************************)
(* The spec's loader (section 4.1): surrogate lines are dropped, every     *)
(* other line is its code's record, and a First/Last pair is expanded     *)
(* inclusively into records sharing the First line's fields with self case *)
(* mappings.                                                               *)
(***************************************************************************)
PairAt(k) ==
  /\ k + 1 \in DOMAIN lines
  /\ lines[k].kind = "first" /\ lines[k + 1].kind = "last"
  /\ ~lines[k].cs /\ ~lines[k + 1].cs

InPair(k, c) == PairAt(k) /\ c \in lines[k].code .. lines[k + 1].code

PlainAt(k) == lines[k].kind = "plain" /\ ~lines[k].cs

SpecRecord(c) ==
  IF \E k \in DOMAIN lines : InPair(k, c)
    THEN [line |-> CHOOSE k \in DOMAIN lines : InPair(k, c),
          code |-> c, selfCase |-> TRUE]
    ELSE LET k == CHOOSE k \in DOMAIN lines : PlainAt(k) /\ lines[k].code = c
         IN  [line |-> k, code |-> c, selfCase |-> ~lines[k].cased]

SpecDomain ==
  {c \in Codes : \E k \in DOMAIN lines :
                   InPair(k, c) \/ (PlainAt(k) /\ lines[k].code = c)}

(***************************************************************************)
(* When the file is read, CodePoints is exactly the spec's dict: no       *)
(* surrogate, every code of every First..Last range with the First line's *)
(* record and self case mappings, and nothing that no line or pair names. *)
(* A stale first, an off-by-one range, or case fields kept through        *)
(* new_code would each show here.                                          *)
(***************************************************************************)
LoadedAsSpecified ==
  Done => /\ DOMAIN ret = SpecDomain
          /\ \A c \in SpecDomain : ret[c] = SpecRecord(c)

=============================================================================
