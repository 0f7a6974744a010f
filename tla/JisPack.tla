------------------------------ MODULE JisPack ------------------------------
(***************************************************************************)
(* The packed two-level table emitter dump_2byte of                        *)
(* src/newlib/libc/stdlib/mk-jis-charsets.py, with the row bounds Row and  *)
(* URow compute.                                                           *)
(*                                                                         *)
(* A table is a list of rows indexed by a leading byte.  Each row holds    *)
(* one value per trailing byte (column) and knows the first and last       *)
(* occupied column.  dump_2byte concatenates the occupied span of every   *)
(* non-empty row into one uint16_t array and prints, per row, a            *)
(* descriptor { first, last, offset }.  When the running offset would      *)
(* pass split_codes, it closes the array under "#ifdef split_<name>",      *)
(* opens <name>_codes_second, and the offsets of the rows from there on    *)
(* are printed as "offset + split_<name>_offset", with                     *)
(* split_<name>_offset = split_codes - (offset at the split).  Without     *)
(* split_<name> the two arrays are one and split_<name>_offset is 0.       *)
(*                                                                         *)
(* The row contents are the input.  A cell value is abstracted to the      *)
(* pair <<row, column>> it came from, so a lookup that returns the wrong   *)
(* cell is told apart from the right one.                                  *)
(***************************************************************************)
EXTENDS Integers, Sequences, FiniteSets

CONSTANTS
  NRows,        \* leading byte values 0 .. NRows-1 (256 in the code)
  NCols,        \* trailing byte values 0 .. NCols-1 (256 in the code)
  SplitCodes,   \* split_codes (0x4000 in the code)
  OffsetWidth,  \* width in bits of the descriptor's offset (16)
  Calls,        \* the argument tuples dump_2byte is called with
  None,         \* Python's None
  Invalid       \* invalid_unicode / invalid_jis, an unmapped cell

ASSUME NRows \in Nat \ {0} /\ NCols \in Nat \ {0}
ASSUME SplitCodes \in Nat \ {0} /\ OffsetWidth \in Nat
ASSUME \A c \in Calls :
         /\ c.none \subseteq 0 .. NRows - 1
         /\ c.first # None => c.first \notin c.none

Rows == 0 .. NRows - 1
Cols == 0 .. NCols - 1
Sentinel == 2^OffsetWidth - 1    \* the 0xffff "nothing here" offset

VARIABLES
  occ,          \* occ[r]: the columns of row r that decode (the input)
  present,      \* the rows that are not None in the rows list
  call,         \* [first, last, doMap]: the arguments of this call
  phase,        \* "start", "rows", "done" or "failed"
  firstRow,     \* the first and last rows of the table
  lastRow,
  byte1,        \* the row loop variable
  offset,       \* running offset into the concatenated arrays
  split,        \* has the second array been opened?
  splitAt,      \* offset at the split (None before it)
  dumped,       \* has a row been printed?
  codes,        \* values printed into <name>_codes
  second,       \* values printed into <name>_codes_second
  rowOffset,    \* row.offset
  rowSplit,     \* row.split
  map,          \* the <name>_map descriptors, per row
  colBounds     \* the first_col/last_col macros when do_map is False

vars == <<occ, present, call, phase, firstRow, lastRow, byte1, offset, split,
          splitAt, dumped, codes, second, rowOffset, rowSplit, map, colBounds>>

Cell(r, c) == IF c \in occ[r] THEN <<r, c>> ELSE Invalid

(***************************************************************************)
(* Row.__init__ / URow.__init__: first and last occupied column, or 1 and  *)
(* 0 for a row with none.                                                  *)
(***************************************************************************)
\* Mutant: an empty row keeps first = 256 (no reset to 1, 0).
RowFirstNoReset(r) ==
  IF occ[r] = {} THEN NCols ELSE CHOOSE c \in occ[r] : \A d \in occ[r] : c <= d

RowFirst(r) ==
  IF occ[r] = {} THEN 1 ELSE CHOOSE c \in occ[r] : \A d \in occ[r] : c <= d
RowLast(r) ==
  IF occ[r] = {} THEN 0 ELSE CHOOSE c \in occ[r] : \A d \in occ[r] : c >= d

RowLen(r) == RowLast(r) + 1 - RowFirst(r)

(* "if row and row.last >= row.first" *)
NonEmpty(r) == r \in present /\ RowLast(r) >= RowFirst(r)

(* The occupied span of row r, as Row.dump prints it. *)
Span(r) == [i \in 1 .. RowLen(r) |-> Cell(r, RowFirst(r) + i - 1)]

Descriptor == [first : Cols, last : Cols,
               offset : Nat, split : BOOLEAN]

TypeOK ==
  /\ occ \in [Rows -> SUBSET Cols]
  /\ present \subseteq Rows
  /\ call \in Calls
  /\ phase \in {"start", "rows", "done", "failed"}
  /\ firstRow \in Rows \cup {None}
  /\ lastRow \in Rows \cup {None}
  /\ byte1 \in 0 .. NRows
  /\ offset \in Nat
  /\ split \in BOOLEAN
  /\ splitAt \in Nat \cup {None}
  /\ dumped \in BOOLEAN
  /\ codes \in Seq((Rows \X Cols) \cup {Invalid})
  /\ second \in Seq((Rows \X Cols) \cup {Invalid})
  /\ rowOffset \in [Rows -> Nat]
  /\ rowSplit \in [Rows -> BOOLEAN]
  /\ map \in [DOMAIN map -> Descriptor]
  /\ colBounds \in [first : Cols, last : Cols] \cup {None}

(***************************************************************************)
(* The inputs: one of the calls the script makes, with call.none the rows *)
(* rows() leaves None (byte1 < 0x80 of the forward tables), and every     *)
(* occupancy of the other rows.                                            *)
(***************************************************************************)
Init ==
  /\ call \in Calls
  /\ occ \in {o \in [Rows -> SUBSET Cols] : \A r \in call.none : o[r] = {}}
  /\ present = Rows \ call.none
  /\ phase = "start"
  /\ firstRow = None
  /\ lastRow = None
  /\ byte1 = 0
  /\ offset = 0
  /\ split = FALSE
  /\ splitAt = None
  /\ dumped = FALSE
  /\ codes = << >>
  /\ second = << >>
  /\ rowOffset = [r \in Rows |-> 0]
  /\ rowSplit = [r \in Rows |-> FALSE]
  /\ map = << >>
  /\ colBounds = None

(***************************************************************************)
(* Lines 227-239: the first and the last non-empty row, unless given.     *)
(* With no non-empty row the search leaves None.                           *)
(***************************************************************************)
SearchFirst ==
  IF call.first # None THEN call.first
  ELSE IF \E r \in Rows : NonEmpty(r)
       THEN CHOOSE r \in Rows : NonEmpty(r) /\ \A q \in Rows : NonEmpty(q) => r <= q
       ELSE None

SearchLast ==
  IF call.last # None THEN call.last
  ELSE IF \E r \in Rows : NonEmpty(r)
       THEN CHOOSE r \in Rows : NonEmpty(r) /\ \A q \in Rows : NonEmpty(q) => r >= q
       ELSE None

(***************************************************************************)
(* Lines 227-260 up to the row loop.  A missing bound makes the formatting *)
(* of the first_row/last_row macros, or rows[None], raise: the generator   *)
(* dies.  Without a map, first_col and last_col of rows[first] are         *)
(* printed.                                                                *)
(***************************************************************************)
NoTableRows ==
  /\ phase = "start"
  /\ SearchFirst = None \/ SearchLast = None
  /\ phase' = "failed"
  /\ UNCHANGED <<occ, present, call, firstRow, lastRow, byte1, offset, split,
                 splitAt, dumped, codes, second, rowOffset, rowSplit, map,
                 colBounds>>

Start ==
  /\ phase = "start"
  /\ SearchFirst # None /\ SearchLast # None
  /\ firstRow' = SearchFirst
  /\ lastRow' = SearchLast
  /\ byte1' = SearchFirst
  /\ colBounds' = IF call.doMap THEN None
                  ELSE [first |-> RowFirst(SearchFirst),
                        last |-> RowLast(SearchFirst)]
  /\ phase' = "rows"
  /\ UNCHANGED <<occ, present, call, offset, split, splitAt, dumped, codes,
                 second, rowOffset, rowSplit, map>>

(* Lines 264-265: a row that is not None records the running state. *)
Record(b) ==
  /\ rowOffset' = IF b \in present THEN [rowOffset EXCEPT ![b] = offset]
                                    ELSE rowOffset
  /\ rowSplit' = IF b \in present THEN [rowSplit EXCEPT ![b] = split]
                                   ELSE rowSplit

(* A None or empty row: nothing is printed. *)
SkipRow ==
  /\ phase = "rows"
  /\ byte1 <= lastRow
  /\ ~NonEmpty(byte1)
  /\ Record(byte1)
  /\ byte1' = byte1 + 1
  /\ UNCHANGED <<occ, present, call, phase, firstRow, lastRow, offset, split,
                 splitAt, dumped, codes, second, map, colBounds>>

(* Line 274: the row would carry the first array past split_codes. *)
SplitNow(b) == ~split /\ offset + RowLen(b) > SplitCodes

(***************************************************************************)
(* Lines 263-286 for a non-empty row: record it, open the second array if *)
(* the row does not fit (marking the row split), print its span into the  *)
(* open array, and advance the offset.  The exit(1) of lines 267-270, a    *)
(* first printed row other than the table's first row, is unreachable for *)
(* every call the script makes: a computed first row is the first          *)
(* non-empty row, and the one call with an explicit first row has          *)
(* first = last; the guard keeps the condition.                            *)
\* Mutant: row.offset is taken after the offset has been advanced.
PackRowLateOffset ==
  /\ phase = "rows"
  /\ byte1 <= lastRow
  /\ NonEmpty(byte1)
  /\ dumped \/ byte1 = firstRow
  /\ dumped' = TRUE
  /\ split' = (split \/ SplitNow(byte1))
  /\ splitAt' = IF SplitNow(byte1) THEN offset ELSE splitAt
  /\ rowOffset' = [rowOffset EXCEPT ![byte1] = offset + RowLen(byte1)]
  /\ rowSplit' = [rowSplit EXCEPT ![byte1] = split']
  /\ IF split'
       THEN second' = second \o Span(byte1) /\ codes' = codes
       ELSE codes' = codes \o Span(byte1) /\ second' = second
  /\ offset' = offset + RowLen(byte1)
  /\ byte1' = byte1 + 1
  /\ UNCHANGED <<occ, present, call, phase, firstRow, lastRow, map, colBounds>>

\* Mutant: the row that opens the second array is not marked split.
PackRowNoSplitMark ==
  /\ phase = "rows"
  /\ byte1 <= lastRow
  /\ NonEmpty(byte1)
  /\ dumped \/ byte1 = firstRow
  /\ dumped' = TRUE
  /\ split' = (split \/ SplitNow(byte1))
  /\ splitAt' = IF SplitNow(byte1) THEN offset ELSE splitAt
  /\ rowOffset' = [rowOffset EXCEPT ![byte1] = offset]
  /\ rowSplit' = [rowSplit EXCEPT ![byte1] = split]
  /\ IF split'
       THEN second' = second \o Span(byte1) /\ codes' = codes
       ELSE codes' = codes \o Span(byte1) /\ second' = second
  /\ offset' = offset + RowLen(byte1)
  /\ byte1' = byte1 + 1
  /\ UNCHANGED <<occ, present, call, phase, firstRow, lastRow, map, colBounds>>

(***************************************************************************)
PackRow ==
  /\ phase = "rows"
  /\ byte1 <= lastRow
  /\ NonEmpty(byte1)
  /\ dumped \/ byte1 = firstRow
  /\ dumped' = TRUE
  /\ split' = (split \/ SplitNow(byte1))
  /\ splitAt' = IF SplitNow(byte1) THEN offset ELSE splitAt
  /\ rowOffset' = [rowOffset EXCEPT ![byte1] = offset]
  /\ rowSplit' = [rowSplit EXCEPT ![byte1] = split']
  /\ IF split'
       THEN second' = second \o Span(byte1) /\ codes' = codes
       ELSE codes' = codes \o Span(byte1) /\ second' = second
  /\ offset' = offset + RowLen(byte1)
  /\ byte1' = byte1 + 1
  /\ UNCHANGED <<occ, present, call, phase, firstRow, lastRow, map, colBounds>>

(***************************************************************************)
(* Lines 290-302: the descriptor of row b.  A None or empty row gets the  *)
(* 0xffff offset; a split row's offset is relative to split_<name>_offset. *)
(***************************************************************************)
Descr(b) ==
  IF b \notin present
  THEN [first |-> 1, last |-> 0, offset |-> Sentinel, split |-> FALSE]
  ELSE IF RowFirst(b) > RowLast(b)
  THEN [first |-> RowFirst(b), last |-> RowLast(b), offset |-> Sentinel,
        split |-> FALSE]
  ELSE [first |-> RowFirst(b), last |-> RowLast(b), offset |-> rowOffset[b],
        split |-> rowSplit[b]]

(* Lines 287-303: the loop is over; the map is printed when do_map. *)
DumpMap ==
  /\ phase = "rows"
  /\ byte1 > lastRow
  /\ call.doMap
  /\ map' = [b \in firstRow .. lastRow |-> Descr(b)]
  /\ phase' = "done"
  /\ UNCHANGED <<occ, present, call, firstRow, lastRow, byte1, offset, split,
                 splitAt, dumped, codes, second, rowOffset, rowSplit,
                 colBounds>>

EndNoMap ==
  /\ phase = "rows"
  /\ byte1 > lastRow
  /\ ~call.doMap
  /\ phase' = "done"
  /\ UNCHANGED <<occ, present, call, firstRow, lastRow, byte1, offset, split,
                 splitAt, dumped, codes, second, rowOffset, rowSplit, map,
                 colBounds>>

Next ==
  \/ NoTableRows \/ Start
  \/ SkipRow \/ PackRow
  \/ DumpMap \/ EndNoMap

Spec == Init /\ [][Next]_vars /\ WF_vars(Next)

-----------------------------------------------------------------------------
(***************************************************************************)
(* The C decoder that includes the generated header (not under src/):     *)
(* locate the row by leading byte, check the trailing byte against        *)
(* [first, last], and read offset + (byte - first), where an index at or  *)
(* past split_codes is read from <name>_codes_second.  splitDefined says   *)
(* whether the includer defines split_<name>.  The uint16_t offset field   *)
(* keeps OffsetWidth bits of what the initializer gives it.                *)
(***************************************************************************)
SplitOffset(splitDefined) ==
  IF splitDefined THEN SplitCodes - splitAt ELSE 0

Stored(splitDefined, e) ==
  (e.offset + (IF e.split THEN SplitOffset(splitDefined) ELSE 0))
    % 2^OffsetWidth

At(s, i) == IF i \in 0 .. Len(s) - 1 THEN s[i + 1] ELSE None

Fetch(splitDefined, i) ==
  IF splitDefined
  THEN IF i >= SplitCodes THEN At(second, i - SplitCodes) ELSE At(codes, i)
  ELSE At(codes \o second, i)

Decode(splitDefined, r, col) ==
  IF call.doMap
  THEN IF r \notin DOMAIN map THEN Invalid
       ELSE LET e == map[r] IN
            IF col < e.first \/ col > e.last THEN Invalid
            ELSE Fetch(splitDefined, Stored(splitDefined, e) + col - e.first)
  ELSE IF r # firstRow \/ col < colBounds.first \/ col > colBounds.last
       THEN Invalid
       ELSE Fetch(splitDefined, col - colBounds.first)

(* The rows a call is meant to cover: all, or those within its bounds. *)
Covered(r) ==
  /\ call.first = None \/ r >= call.first
  /\ call.last = None \/ r <= call.last

-----------------------------------------------------------------------------
(***************************************************************************)
(* With split_<name> undefined, the printed table is one array with       *)
(* absolute offsets: for every row the call covers and every trailing     *)
(* byte, the decoder returns exactly that cell, or invalid where the      *)
(* source has no mapping.  It takes the row bounds, the offsets recorded  *)
(* row after row, and the map printed at the end to agree.                 *)
(***************************************************************************)
UnsplitDecodeCorrect ==
  phase = "done" =>
    \A r \in Rows, col \in Cols :
      Covered(r) => Decode(FALSE, r, col) = Cell(r, col)

(***************************************************************************)
(* With split_<name> defined and the table split, every row decodes right *)
(* through the two arrays: the first array never holds an index the       *)
(* decoder sends to the second, and the offsets printed relative to       *)
(* split_<name>_offset land on the right cells of <name>_codes_second.     *)
(***************************************************************************)
SplitDecodeCorrect ==
  phase = "done" /\ split =>
    \A r \in Rows, col \in Cols :
      Covered(r) => Decode(TRUE, r, col) = Cell(r, col)

=============================================================================
