----------------------------- MODULE JisReverse -----------------------------
(***************************************************************************)
(* The forward rows, the Unicode-to-JIS map and the reverse rows of        *)
(* src/newlib/libc/stdlib/mk-jis-charsets.py (to_ucode, from_ucode,        *)
(* Row, Row.add_to_map, rows, URow, URow.value, u_rows).                   *)
(*                                                                         *)
(* The script first builds every forward row, 2-byte rows before 3-byte    *)
(* rows, each in increasing leading byte; building a row decodes its 256   *)
(* trailing bytes and adds each valid decoding to unicode_to_jis unless    *)
(* the codepoint is already there.  It then builds the reverse rows, one   *)
(* per Unicode high byte, each by encoding its 256 codepoints, and finally *)
(* prints them, turning each byte string into a 16-bit value (value()),    *)
(* which aborts on a "weird return".                                       *)
(*                                                                         *)
(* Python's EUC_JP codec is the input: dec and enc are chosen in Init from *)
(* every decoder over a few byte sequences of EUC-JP shape and every       *)
(* encoder consistent with it, plus the codec's real single-byte           *)
(* fallbacks (U+00A5 -> 0x5c, U+203E -> 0x7e) and the real decoding of     *)
(* 8f a2 b7 to '~'.  Rows and codepoints that hold none of these sequences *)
(* decode and encode to nothing, and are left out.                         *)
(***************************************************************************)
EXTENDS Integers, Sequences, FiniteSets, SequencesExt

CONSTANTS
  Seqs,         \* the 2- and 3-byte sequences that may decode
  RowOrder,     \* the row prefixes in the order rows() builds them
  UCodes,       \* codepoints >= 0x80 the decoder may yield
  Fallback,     \* the codec's single-byte encodings of non-JIS codepoints
  Fail          \* a decode or encode that raises

InvalidU == \Hffff               \* invalid_unicode
InvalidJis == \Hffff             \* invalid_jis
WaveDash == \Hff5e
WaveDashSeq == <<\H8f, \Ha2, \Hb7>>
Tilde == \H7e                    \* what Python decodes 8f a2 b7 to

ASSUME WaveDashSeq \in Seqs
ASSUME \A u \in UCodes : u >= \H80 /\ u # InvalidU /\ u # WaveDash

(* The codepoints the reverse rows are built for.                           *)
Probe == UCodes \cup DOMAIN Fallback \cup {Tilde, WaveDash}
HighBytes == {u \div 256 : u \in Probe}

(* The trailing bytes of row prefix p, in increasing order.               *)
RowCells(p) ==
  SetToSortSeq({s \in Seqs : Front(s) = p}, LAMBDA a, b : Last(a) < Last(b))

VARIABLES
  dec,          \* bytes.decode('EUC_JP') on each sequence: the input
  enc,          \* chr(u).encode('EUC_JP') on each codepoint: the input
  phase,        \* "rows", "urows", "dump" or "done"
  ri,           \* index in RowOrder of the next forward row
  fwd,          \* Row.row: the forward cell of each sequence built so far
  map,          \* unicode_to_jis
  pendingHi,    \* high bytes whose URow is not built yet
  urow          \* URow.row: the byte string of each codepoint built so far

vars == <<dec, enc, phase, ri, fwd, map, pendingHi, urow>>

(***************************************************************************)
(* What Python's EUC_JP codec does and the script relies on: 8f a2 b7      *)
(* decodes to '~', and the encoder returns, for a codepoint some sequence  *)
(* decodes to, one of those sequences, and fails otherwise.                *)
(***************************************************************************)
CodecFacts(d, e) ==
  /\ d[WaveDashSeq] = Tilde
  /\ \A u \in UCodes :
       IF \E s \in Seqs : d[s] = u THEN e[u] \in Seqs /\ d[e[u]] = u
                                   ELSE e[u] = Fail

\* Mutant: the "missing from python map" special case is dropped.
ToUcodeNoWaveDash(s) ==
  IF dec[s] = Fail \/ dec[s] < \H80 THEN InvalidU
  ELSE dec[s]

(* to_ucode: the special case, then a decode; a failed decode, and a      *)
(* decoding below 0x80 (whose test raises NameError), give invalid.       *)
ToUcode(s) ==
  IF s = WaveDashSeq THEN WaveDash
  ELSE IF dec[s] = Fail \/ dec[s] < \H80 THEN InvalidU
  ELSE dec[s]

(* from_ucode: ASCII is left out, the wave dash is special, the rest is    *)
(* the encoder's answer or invalid_jis.  The int invalid_jis it returns is *)
(* only ever compared with != by URow, so it is the model value Fail here. *)
FromUcode(u) ==
  IF u <= \H7f THEN Fail
  ELSE IF u = WaveDash THEN WaveDashSeq
  ELSE IF u \in DOMAIN Fallback THEN Fallback[u]
  ELSE enc[u]

TypeOK ==
  /\ dec \in [Seqs -> UCodes \cup {Tilde, Fail}]
  /\ enc \in [UCodes -> Seqs \cup {Fail}]
  /\ phase \in {"rows", "urows", "dump", "done"}
  /\ ri \in 1 .. Len(RowOrder) + 1
  /\ DOMAIN fwd \subseteq Seqs
  /\ DOMAIN map \subseteq UCodes \cup {WaveDash}
  /\ \A u \in DOMAIN map : map[u] \in Seqs
  /\ pendingHi \subseteq HighBytes
  /\ DOMAIN urow \subseteq Probe

Init ==
  /\ dec \in {d \in [Seqs -> UCodes \cup {Tilde, Fail}] :
                \A s \in Seqs \ {WaveDashSeq} : d[s] # Tilde}
  /\ enc \in [UCodes -> Seqs \cup {Fail}]
  /\ CodecFacts(dec, enc)
  /\ phase = "rows"
  /\ ri = 1
  /\ fwd = << >>
  /\ map = << >>
  /\ pendingHi = HighBytes
  /\ urow = << >>

(***************************************************************************)
(* add_to_map: each valid cell of the row, in increasing trailing byte,   *)
(* goes into the map under its codepoint unless one is already there.      *)
(***************************************************************************)
\* Mutant: the invalid_unicode test is dropped, invalid cells are keyed.
AddToMapAnyCell(m, cells) ==
  FoldLeft(LAMBDA acc, s :
             IF ToUcode(s) \notin DOMAIN acc
               THEN acc @@ (ToUcode(s) :> s) ELSE acc,
           m, cells)

AddToMap(m, cells) ==
  FoldLeft(LAMBDA acc, s :
             IF ToUcode(s) # InvalidU /\ ToUcode(s) \notin DOMAIN acc
               THEN acc @@ (ToUcode(s) :> s) ELSE acc,
           m, cells)

(* Row(byte0, byte1, map): decode the row's cells, then add_to_map.        *)
BuildRow ==
  /\ phase = "rows"
  /\ ri <= Len(RowOrder)
  /\ LET cells == RowCells(RowOrder[ri])
     IN  /\ fwd' = fwd @@ [i \in Range(cells) |-> ToUcode(i)]
         /\ map' = AddToMap(map, cells)
  /\ ri' = ri + 1
  /\ UNCHANGED <<dec, enc, phase, pendingHi, urow>>

EndRows ==
  /\ phase = "rows"
  /\ ri = Len(RowOrder) + 1
  /\ phase' = "urows"
  /\ UNCHANGED <<dec, enc, ri, fwd, map, pendingHi, urow>>

(* URow(byte1, map): the byte string of every codepoint of the high byte;  *)
(* invalid_jis becomes b''.  The map argument is not read.                 *)
BuildURow ==
  /\ phase = "urows"
  /\ pendingHi # {}
  /\ LET hi == CHOOSE h \in pendingHi : \A g \in pendingHi : h <= g
         us == {u \in Probe : u \div 256 = hi}
     IN  /\ urow' = urow @@ [u \in us |->
                               IF FromUcode(u) = Fail THEN << >>
                               ELSE FromUcode(u)]
         /\ pendingHi' = pendingHi \ {hi}
  /\ UNCHANGED <<dec, enc, phase, ri, fwd, map>>

(* min(unicode_to_jis.keys()) and max(...) raise on an empty map.          *)
EndURows ==
  /\ phase = "urows"
  /\ pendingHi = {}
  /\ map # << >>
  /\ phase' = "dump"
  /\ UNCHANGED <<dec, enc, ri, fwd, map, pendingHi, urow>>

-----------------------------------------------------------------------------
(***************************************************************************)
(* URow.value: a byte string as one 16-bit table entry.  2-byte strings    *)
(* are big-endian, 3-byte strings keep their last two bytes less 0x8000.  *)
(* Weird is the "weird return" test that makes the script exit(1).        *)
(***************************************************************************)
\* Mutant: a 3-byte value is built from its first two bytes.
Value3FromLead(v) ==
  CASE Len(v) = 0 -> InvalidJis
    [] Len(v) = 1 -> v[1]
    [] Len(v) = 2 -> v[1] * 256 + v[2]
    [] OTHER      -> v[1] * 256 + v[2] - \H8000

Value(v) ==
  CASE Len(v) = 0 -> InvalidJis
    [] Len(v) = 1 -> v[1]
    [] Len(v) = 2 -> v[1] * 256 + v[2]
    [] OTHER      -> v[2] * 256 + v[3] - \H8000

Weird(v) ==
  LET ret == IF Len(v) = 2 THEN v[1] * 256 + v[2] ELSE v[2] * 256 + v[3]
  IN  Len(v) >= 2 /\ ret # 0 /\ ret < \H8000

(***************************************************************************)
(* dump_2byte('unicode', ...) and dump_2byte('unicode_ff', ...) print      *)
(* value() of every cell; the script exits on the first weird one.  For   *)
(* every EUC-JP-shaped encoding the exit is unreachable, so it is kept as *)
(* the guard of the dump rather than as an action of its own.              *)
(***************************************************************************)
DumpURows ==
  /\ phase = "dump"
  /\ \A u \in Probe : ~Weird(urow[u])
  /\ phase' = "done"
  /\ UNCHANGED <<dec, enc, ri, fwd, map, pendingHi, urow>>

Next == BuildRow \/ EndRows \/ BuildURow \/ EndURows \/ DumpURows

Spec == Init /\ [][Next]_vars /\ WF_vars(Next)

-----------------------------------------------------------------------------
(***************************************************************************)
(* The consumer's view (the C side, not under src/).  Unpack turns a       *)
(* printed reverse value back into bytes by the convention value() keeps:  *)
(* below 0x100 one byte, from 0x8000 two bytes, between them a 3-byte      *)
(* sequence led by 0x8f.  Forward reads the forward table.                 *)
(***************************************************************************)
Unpack(v) ==
  CASE v = InvalidJis    -> << >>
    [] v < \H100       -> <<v>>
    [] v >= \H8000     -> <<v \div 256, v % 256>>
    [] OTHER             -> <<\H8f, (v + \H8000) \div 256,
                                      (v + \H8000) % 256>>

Forward(b) == IF b \in DOMAIN fwd THEN fwd[b] ELSE InvalidU

ReverseBytes(u) == Unpack(Value(urow[u]))

(***************************************************************************)
(* Every printed reverse value reads back as the byte string from_ucode    *)
(* gave: URow.value keeps 1-, 2- and 3-byte encodings apart and loses no   *)
(* byte of them.                                                           *)
(***************************************************************************)
ValueUnpacks ==
  phase = "done" => \A u \in Probe : ReverseBytes(u) = urow[u]

(***************************************************************************)
(* Round trip (spec, section 8): every codepoint the reverse table maps to *)
(* a multi-byte sequence is what the forward table gives for that         *)
(* sequence.  It needs to_ucode and from_ucode to special-case the wave   *)
(* dash alike, and the reverse value to unpack to the encoder's bytes.    *)
(***************************************************************************)
RoundTrip ==
  phase = "done" =>
    \A u \in Probe :
      Len(ReverseBytes(u)) >= 2 => Forward(ReverseBytes(u)) = u

(***************************************************************************)
(* The spec (section 4.5) builds the reverse direction by querying the     *)
(* first-wins unicode_to_jis map: the reverse entry of a codepoint is the  *)
(* sequence the map holds for it, and nothing when the map has none.       *)
(* URow asks the encoder instead and never reads the map.                  *)
(***************************************************************************)
ReverseFromMap ==
  phase = "done" =>
    \A u \in Probe :
      ReverseBytes(u) = IF u \in DOMAIN map THEN map[u] ELSE << >>

=============================================================================
