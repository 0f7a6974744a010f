------------------------------ MODULE RunTable ------------------------------
(***************************************************************************)
(* The run-length classification table emitter of src/libc/ctype/         *)
(* mkctype.py (dump_table and dump_result).                               *)
(*                                                                         *)
(* The generator walks every codepoint in increasing order, first over the *)
(* basic range [0, NBasic) and then over the extended range               *)
(* [NBasic, NAll), and prints one { start, classes } entry per run of      *)
(* codepoints sharing a non-empty class set.  Runs with no class are not  *)
(* printed when they end: a { prev_above, CLASS_none } entry is printed   *)
(* lazily, just before the next non-empty run, when there is a gap.       *)
(* After the basic range the output forks under                            *)
(* "#if __SIZEOF_WCHAR_T__ == 2": the narrow table is the common prefix   *)
(* followed by one closing entry, the wide table is the common prefix      *)
(* followed by the entries of the extended range and a terminator.         *)
(*                                                                         *)
(* The C consumer (not under src/) finds, for a codepoint x, the entry     *)
(* with the greatest start not above x; Lookup models that search.         *)
(*                                                                         *)
(* The class set of each codepoint (classes(code), lines 251-283) is the   *)
(* input: Init chooses it from every function Codes -> SUBSET Flags.       *)
(***************************************************************************)
EXTENDS Integers, Sequences, FiniteSets

CONSTANTS
  NBasic,       \* end of the basic range (0x10000 in the code)
  NAll,         \* end of the extended range (0xe01f0 in the code)
  Flags,        \* the class names (alpha, digit, ...): model values
  None,         \* Python's None, the initial prev_c
  Facts         \* the UnicodeData facts the inputs are assumed to have

ASSUME NBasic \in Nat \ {0}
ASSUME NAll \in Nat /\ NAll > NBasic
ASSUME Facts \subseteq {"NulClassified", "FFFFUnclassified", "LastClassified"}

Codes == 0 .. NAll - 1
Classes == SUBSET Flags          \* {} is the empty tuple, CLASS_none
NoClass == {}

VARIABLES
  cls,          \* classes(code) for every codepoint: the input
  phase,        \* "basic" loop, "ext" loop, or "done"
  code,         \* the loop variable
  first,        \* first codepoint of the current run
  prev_c,       \* class set of the current run (None before the first)
  prev_above,   \* end (exclusive) of the last printed non-empty run
  table,        \* entries printed outside the narrow-only branch
  nCommon,      \* how many entries of table precede "#if"
  narrow        \* entries printed inside "#if __SIZEOF_WCHAR_T__ == 2"

vars == <<cls, phase, code, first, prev_c, prev_above, table, nCommon, narrow>>

Entry(s, c) == [start |-> s, cls |-> c]

(***************************************************************************)
(* Facts of the inputs the program meets: U+0000 is <control>, U+FFFF is  *)
(* a noncharacter absent from UnicodeData.txt, and U+E01EF, the last code  *)
(* scanned, is VARIATION SELECTOR-256 (Mn, so graph, print and punct).     *)
(* The generator relies on each of them without checking it.               *)
(***************************************************************************)
UnicodeDataFacts(c) ==
  /\ "NulClassified" \in Facts => c[0] # NoClass
  /\ "FFFFUnclassified" \in Facts => c[NBasic - 1] = NoClass
  /\ "LastClassified" \in Facts => c[NAll - 1] # NoClass

TypeOK ==
  /\ cls \in [Codes -> Classes]
  /\ phase \in {"basic", "ext", "done"}
  /\ code \in 0 .. NAll
  /\ first \in Codes
  /\ prev_c \in Classes \cup {None}
  /\ prev_above \in 0 .. NAll
  /\ table \in Seq([start : 0 .. NAll, cls : Classes])
  /\ nCommon \in 0 .. Len(table)
  /\ narrow \in Seq([start : 0 .. NAll, cls : Classes])

(* prev_above = 1 and prev_c = None before the basic loop (lines 347-349). *)
Init ==
  /\ cls \in {c \in [Codes -> Classes] : UnicodeDataFacts(c)}
  /\ phase = "basic"
  /\ code = 0
  /\ first = 0
  /\ prev_c = None
  /\ prev_above = 1
  /\ table = <<>>
  /\ nCommon = 0
  /\ narrow = <<>>

(***************************************************************************)
(* dump_result(code, above, classes): nothing for an empty class set;     *)
(* otherwise a CLASS_none entry for the gap since prev_above, if any, then *)
(* the run itself, and prev_above moves to the end of the run.            *)
(***************************************************************************)
\* Mutant: the gap check is off by one, a one-code gap is never printed.
DumpEntriesLateGap(f, classes) ==
  IF classes = NoClass THEN << >>
  ELSE (IF prev_above + 1 < f THEN <<Entry(prev_above, NoClass)>> ELSE << >>)
         \o <<Entry(f, classes)>>

\* Mutant: the gap entry is printed even when the run follows the last one.
DumpEntriesAlwaysGap(f, classes) ==
  IF classes = NoClass THEN << >>
  ELSE (IF prev_above <= f THEN <<Entry(prev_above, NoClass)>> ELSE << >>)
         \o <<Entry(f, classes)>>

\* Mutant: without "if classes:", an unclassified run is printed too.
DumpEntriesNoneToo(f, classes) ==
  (IF prev_above < f THEN <<Entry(prev_above, NoClass)>> ELSE << >>)
  \o <<Entry(f, classes)>>

DumpEntries(f, classes) ==
  IF classes = NoClass THEN << >>
  ELSE (IF prev_above < f THEN <<Entry(prev_above, NoClass)>> ELSE << >>)
         \o <<Entry(f, classes)>>

\* Mutant: prev_above is set one past the end of the run.
DumpAbovePastEnd(above, classes) ==
  IF classes = NoClass THEN prev_above ELSE above + 1

DumpAbove(above, classes) ==
  IF classes = NoClass THEN prev_above ELSE above

(* The class set of code equals the current run's: the run goes on.        *)
RunContinues ==
  /\ cls[code] = prev_c
  /\ UNCHANGED <<first, prev_c, prev_above, table>>

(* It differs: the run that ends at code is dumped, a new one starts.      *)
RunChanges ==
  /\ cls[code] # prev_c
  /\ IF prev_c = None
       THEN UNCHANGED <<table, prev_above>>
       ELSE /\ table' = table \o DumpEntries(first, prev_c)
            /\ prev_above' = DumpAbove(code, prev_c)
  /\ first' = code
  /\ prev_c' = cls[code]

(* One iteration of "for code in range(0, 0x10000)".                      *)
ScanBasic ==
  /\ phase = "basic"
  /\ code < NBasic
  /\ RunContinues \/ RunChanges
  /\ code' = code + 1
  /\ UNCHANGED <<cls, phase, nCommon, narrow>>

(***************************************************************************)
(* The "#if __SIZEOF_WCHAR_T__ == 2" branch: a CLASS_none entry at         *)
(* prev_above if codes remain after the last printed run.  Nothing is      *)
(* dumped for the run open at the end of the basic range.                 *)
(***************************************************************************)
\* Mutant: the closing entry starts at the end of the range, not the gap.
EndBasicGapAtEnd ==
  /\ phase = "basic"
  /\ code = NBasic
  /\ narrow' = <<Entry(code, NoClass)>>
  /\ nCommon' = Len(table)
  /\ phase' = "ext"
  /\ UNCHANGED <<cls, code, first, prev_c, prev_above, table>>

EndBasic ==
  /\ phase = "basic"
  /\ code = NBasic
  /\ narrow' = IF prev_above < code THEN <<Entry(prev_above, NoClass)>>
                                    ELSE << >>
  /\ nCommon' = Len(table)
  /\ phase' = "ext"
  /\ UNCHANGED <<cls, code, first, prev_c, prev_above, table>>

(* One iteration of "for code in range(0x10000, 0xe01f0)", after "#else". *)
ScanExt ==
  /\ phase = "ext"
  /\ code < NAll
  /\ RunContinues \/ RunChanges
  /\ code' = code + 1
  /\ UNCHANGED <<cls, phase, nCommon, narrow>>

(***************************************************************************)
(* After the extended loop: dump_result(first, code, c) for the open run,  *)
(* with c the class set of the last code scanned, then the terminator      *)
(* { code, CLASS_none }.                                                   *)
(***************************************************************************)
\* Mutant: the terminator { code, CLASS_none } is not printed.
EndExtNoTerminator ==
  /\ phase = "ext"
  /\ code = NAll
  /\ table' = table \o DumpEntries(first, cls[NAll - 1])
  /\ prev_above' = DumpAbove(NAll, cls[NAll - 1])
  /\ phase' = "done"
  /\ UNCHANGED <<cls, code, first, prev_c, nCommon, narrow>>

EndExt ==
  /\ phase = "ext"
  /\ code = NAll
  /\ table' = table \o DumpEntries(first, cls[NAll - 1])
                    \o <<Entry(NAll, NoClass)>>
  /\ prev_above' = DumpAbove(NAll, cls[NAll - 1])
  /\ phase' = "done"
  /\ UNCHANGED <<cls, code, first, prev_c, nCommon, narrow>>

Next == ScanBasic \/ EndBasic \/ ScanExt \/ EndExt

Spec == Init /\ [][Next]_vars /\ WF_vars(Next)

-----------------------------------------------------------------------------
(***************************************************************************)
(* The consumer's view.  Lookup(t, x) is the class set of the entry with   *)
(* the greatest start not above x, or None when no entry starts at or     *)
(* below x.                                                                *)
(***************************************************************************)
Lookup(t, x) ==
  LET hits == {i \in DOMAIN t : t[i].start <= x}
  IN  IF hits = {} THEN None
      ELSE t[CHOOSE i \in hits : \A j \in hits : t[j].start <= t[i].start]
             .cls

NarrowTable == SubSeq(table, 1, nCommon) \o narrow

(* What the table must say of x: its class set, and none past the end.     *)
Expected(x) == IF x \in Codes THEN cls[x] ELSE NoClass

Starts(t) == [i \in DOMAIN t |-> t[i].start]

StrictlyIncreasing(s) == \A i, j \in DOMAIN s : i < j => s[i] < s[j]

-----------------------------------------------------------------------------
(***************************************************************************)
(* The consumer binary-searches both tables, which is sound only if the    *)
(* starts dump_result and the "#if" branch print strictly increase: no     *)
(* lazily printed CLASS_none gap entry may repeat or precede a start       *)
(* already printed.                                                        *)
(***************************************************************************)
StartsSorted ==
  /\ StrictlyIncreasing(Starts(table))
  /\ phase # "basic" => StrictlyIncreasing(Starts(NarrowTable))

(***************************************************************************)
(* While the loops run, the entries already printed give every code below  *)
(* prev_above its class set: the lazy CLASS_none gap entries and the runs   *)
(* dumped when the class set changes never leave a code described wrongly. *)
(***************************************************************************)
PrintedPrefixCorrect ==
  table # << >> =>
    \A x \in 0 .. prev_above - 1 : Lookup(table, x) = Expected(x)

(***************************************************************************)
(* When the generator ends, the wide (#else) table gives every codepoint   *)
(* of both ranges its class set, and CLASS_none to everything from NAll   *)
(* on: the run open at the end of the extended loop and the final          *)
(* terminator are printed correctly.                                       *)
(***************************************************************************)
WideTableCorrect ==
  phase = "done" => \A x \in 0 .. NAll : Lookup(table, x) = Expected(x)

(***************************************************************************)
(* Once the basic loop has ended, the narrow (__SIZEOF_WCHAR_T__ == 2)     *)
(* table, the entries printed before "#if" and the one closing entry,      *)
(* gives every codepoint of the basic range its class set.                 *)
(***************************************************************************)
NarrowTableCorrect ==
  phase # "basic" =>
    \A x \in 0 .. NBasic - 1 : Lookup(NarrowTable, x) = Expected(x)

(***************************************************************************)
(* Each table is minimal: no entry repeats the class set of the entry      *)
(* before it, so an entry is printed only where the class set changes.    *)
(* This rests on dump_result printing nothing for an unclassified run and *)
(* a CLASS_none gap entry only before a classified one, and on the        *)
(* extended loop carrying prev_c and first over from the basic one, so a *)
(* run crossing 0x10000 stays one entry in the wide table.                *)
(***************************************************************************)
NoRepeat(t) == \A k \in 1 .. Len(t) - 1 : t[k].cls # t[k + 1].cls

TableMinimal ==
  /\ NoRepeat(table)
  /\ phase # "basic" => NoRepeat(NarrowTable)

=============================================================================
