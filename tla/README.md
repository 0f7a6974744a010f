# TLA+ models of picolibc's table generators

The repository's Python sources under `src/` are offline generators. Each one
reads Unicode data, or asks Python's codecs, and prints C tables that picolibc
compiles in. Nothing runs concurrently and nothing is persisted. Each generator
is one single-threaded pass. What is hard is the table-building logic. Loops
carry state from one iteration to the next (the open run, the running offset,
the split flag). Output entries are printed lazily, and the tables fork under
preprocessor conditionals. A C decoder later has to read back exactly what went
in. The models turn each loop into a state machine, one step per iteration.
The input data is chosen nondeterministically in `Init` from every possibility
over a small domain. The checks compare what a C consumer would decode from the
printed table with what the input says.

## Inventory

| Component | Source | State it keeps | Operations |
|---|---|---|---|
| Unicode data loader | `mkctype.py` 43-128, same in `mkctype-extended.py` | `CodePoints` dict; `DerivedProperties` dict of lists; `first` (last First line) | `load_unicode_data`: skip `Cs`, expand `<..., First>`/`<..., Last>` ranges with self case mappings; `load_derived_properties`: add a property to every code of a range |
| Classification deriver | `mkctype.py` 130-283, `mkctype-extended.py` 130-283 | none (pure functions over the two dicts) | `is_alpha` ... `is_xdigit`, `to_upper`, `to_lower`; `classes()`: a tuple of class names (mkctype) or a `_U/_L/_N/...` string with an upper/lower/alpha `elif` chain (extended) |
| Run-length table | `mkctype.py` 295-375 | `prev_c`, `first`, `prev_above`, the printed entries | scan the basic range, fork `#if __SIZEOF_WCHAR_T__ == 2`, scan the extended range, final dump and terminator |
| Legacy ctype tables | `mkctype-extended.py` 285-669 | none | decode each byte 128..255 through one of 44 encodings (Georgian-PS from a hard-coded table, EUC-JP C1 bytes as themselves), classify, print; undecodable gives ` 0` |
| Single-byte conversion tables | `mk-sb-charsets.py` | running `max_ucode` per encoding | `translate` (0 when undecodable), `dump_range`, the ISO-8859 and code-page tables and their `_max` arrays |
| JIS rows and reverse map | `mk-jis-charsets.py` 50-216 | `Row.row/first/last`, `unicode_to_jis` (first-wins), `URow.row/first/last` | `to_ucode` (special case 8f a2 b7 -> U+FF5E), `from_ucode`, `add_to_map`, `URow.value` (3-byte values - 0x8000, exit on a "weird return") |
| JIS packed emitter | `mk-jis-charsets.py` 223-304 | `offset`, `split`, `dumped`, per row `offset`/`split` | search the first and last rows, print each row's span into `_codes` or `_codes_second`, print the `{first, last, offset}` map |
| DocBook converter | `newlib/doc/chapter-texi2docbook.py` | `first_node`, what has been printed | print the prolog; per stdin line: the first `@node` opens `<chapter id=...>`, `@chapter ` prints a title, `@include ` an `xi:include` with the first `.def` made `.xml`; print `</chapter>` |

How they interact. The deriver reads the loader's dicts. The run-length table
and the legacy ctype tables call the deriver. Each JIS `Row` adds itself to
`unicode_to_jis` when it is built, in the order of the calls (2-byte rows
before 3-byte rows, increasing leading byte). `dump_2byte` reads the rows and
writes per-row `offset`/`split` back into them before printing the map. The C
side, which is not under `src/`, binary-searches the ctype table and indexes
the JIS map.

What makes it hard:
- State from an earlier iteration is used later: the lazy `CLASS_none` gap
  entry and the run that crosses the basic/extended boundary.
- Output forks under `#if`/`#ifdef`, so one pass must produce two correct
  tables.
- Boundaries: the 16-bit split budget, the first and last codepoints, empty
  rows (`first = 1, last = 0`).
- Failure exits: `sys.exit(1)` on a misplaced first row and on a "weird
  return".
- Duplicate decodings and the codec's own preferences in the reverse
  direction.

What makes each component correct:
- Run-length table: every codepoint is found (greatest start not above it)
  with its class set, in both the narrow and the wide table, and starts
  strictly increase.
- Packed emitter: for every covered row and trailing byte, the decoder returns
  exactly the source cell, with and without `split_<name>`.
- JIS reverse map: re-encoding to a multi-byte sequence then decoding gives
  the codepoint back. `value()` keeps 2-byte (>= 0x8000), 3-byte and 1-byte
  values apart. The spec also says the reverse rows come from the first-wins
  map, but the code does not build them that way.
- Deriver and legacy tables: a legacy byte's printed bits, read the way
  `<ctype.h>` reads them, answer every `is*` question as the deriver does
  for the byte's decoded code.
- Single-byte tables: every row is complete and its `_max` entry is its
  largest code.
- Loader: every code of a First..Last range gets the range's record with
  self case mappings, and surrogates are absent.

## Modules and runs

### `RunTable` (mkctype.py `dump_table`, `dump_result`)

State:
- `cls`: the input, `classes(code)` for each codepoint, a subset of `Flags`.
  `{}` is the empty tuple, printed as `CLASS_none`.
- `code`, `first`, `prev_c`, `prev_above`: the Python locals. `prev_c` is
  `None` before the first code.
- `table`: entries printed outside the narrow branch.
- `nCommon`: how many entries come before `#if`.
- `narrow`: the entry printed inside `#if __SIZEOF_WCHAR_T__ == 2`.

Actions:
- `ScanBasic` and `ScanExt` are one iteration of each loop. Each is split into
  `RunContinues` and `RunChanges`, and `RunChanges` calls `dump_result` as
  `DumpEntries`/`DumpAbove`.
- `EndBasic` is the narrow branch.
- `EndExt` is the final `dump_result` and the terminator.

`Lookup` is the C consumer's search.

`UnicodeDataFacts` states what the real input has and the code silently relies
on:
- U+0000 has a class.
- U+FFFF has none.
- U+E01EF, the last code scanned, has one.

Runs (`MCRunTable`: 4 basic + 4 extended codes, flags `{alpha, punct}` with
symmetry, every assignment allowed by the facts, 50,864 states):
- `runtable` (pass) checks five properties:
  - `StartsSorted`: the binary-search precondition, in every state.
  - `PrintedPrefixCorrect`: while scanning, every code below `prev_above` is
    already described right.
  - `WideTableCorrect`: at the end, every code of both ranges and everything
    past 0xe01f0.
  - `NarrowTableCorrect`: after the basic loop, every code of the basic range.
  - `TableMinimal`: in both tables no entry repeats the class set of the
    entry before it. Spec 4.3 says an entry is emitted only where the class
    set changes. Lookups alone would not notice an extra entry, such as an
    unclassified run printed by a `dump_result` without `if classes:`.
- `runtable_wide_ends` (violation) drops both end facts of the wide table.
  This shows the facts are needed (see findings). Its shortest trace shows
  `prev_above = 1` missing an unclassified U+0000. With `NulClassified` added
  back, it shows the final dump printing no gap after an unclassified last
  run.

`NarrowTableCorrect` also needs the fact `FFFFUnclassified`. The narrow
branch never dumps the run still open at U+FFFF. That is harmless only
because U+FFFF is a noncharacter, which Unicode keeps unassigned.

Bounds: 8 codes with 2 flags give runs of every length from 1 to 3, gaps of
one and more codes, gaps before and after the basic/extended boundary, and
runs crossing it. Every transition of the emitter occurs, so these bounds are
enough.

### `JisPack` (mk-jis-charsets.py `dump_2byte`, `Row`/`URow` bounds)

State:
- `occ[r]`: the input, the trailing bytes of row `r` that decode.
- `present`: the rows that are not `None` (`rows()` leaves rows < 0x80
  `None`).
- `call`: the arguments of the call.
- The Python locals `offset`, `split`, `dumped`, `byte1`.
- `splitAt`: the offset at which the second array opens.
- `codes`/`second`: the printed arrays.
- `rowOffset`/`rowSplit`: the attributes written into the rows.
- `map` and `colBounds`: the printed descriptors.

Cell values are the pairs `<<row, col>>`, so a wrong lookup cannot go
unnoticed.

Actions:
- `NoTableRows` (the generator dies) and `Start`, the bound search.
- `SkipRow` and `PackRow`, one row iteration.
- `DumpMap` and `EndNoMap`.

`Decode` models the C decoder, which the spec describes (section 4.5). An
index at or past `split_codes` is read from the second array. Offsets keep
`OffsetWidth` bits.

Runs:
- `jispack` (pass) uses 4 rows x 3 columns, `split_codes` = 4 and 4-bit
  offsets. It covers the script's three call shapes:
  - both bounds searched, with row 0 `None`;
  - an explicit last row;
  - a single row with no map.

  It checks:
  - `UnsplitDecodeCorrect`: one array, absolute offsets.
  - `SplitDecodeCorrect`: two arrays, offsets relative to
    `split_<name>_offset`.

  Tables of up to 12 codes against a budget of 4 split after 1, 2 or 3 rows,
  both at row starts and on a row that would straddle the budget.

The `sys.exit(1)` of a misplaced first row is unreachable for every call the
script makes. The model keeps its condition as a guard of `PackRow` rather
than as an action that never fires.

### `JisReverse` (mk-jis-charsets.py `to_ucode`, `from_ucode`, `Row`, `add_to_map`, `URow`, `value`)

The input is Python's EUC_JP codec:
- `dec` decodes each sequence of `Seqs`;
- `enc` encodes each codepoint of `UCodes`;
- `Fallback` holds the codec's real single-byte encodings (U+00A5 -> 5c,
  U+203E -> 7e).

`CodecFacts` states what the real codec does and the script relies on:
- 8f a2 b7 decodes to '~' (which is why `to_ucode` special-cases it);
- the encoder returns one of the sequences that decode to the codepoint, and
  fails when there is none.

State:
- `fwd`: `Row.row` of each cell built so far.
- `map`: `unicode_to_jis`.
- `urow`: `URow.row`, the byte string of each codepoint (`b''` when invalid).
- `ri` and `pendingHi`: the `rows()` and `u_rows()` loop positions.

Actions:
- `BuildRow`: `Row.__init__` with `add_to_map`, one row per step in `rows()`
  order.
- `EndRows`.
- `BuildURow`: one Unicode high byte.
- `EndURows`: the `min`/`max` over the map, which raise on an empty map.
- `DumpURows`: the printing of `value()`. The weird-return exit is its guard.
  It is unreachable for EUC-JP-shaped bytes.

`Unpack` and `Forward` model the C consumer, which is not under `src/`. They
follow the convention `value()` keeps: 1 byte below 0x100, 2 bytes from
0x8000, 3 bytes in between.

Runs (`MCJisReverse`):
- Sequences a1 a1, b0 a1, 8e b1, 8f b0 a1 and 8f a2 b7, in five rows built in
  `rows()` order.
- Three codepoints; each free sequence decodes to one of them or fails.
- Every consistent encoder.
- 517 initial states, 7,238 states in all.

This gives duplicate decodings across 2- and 3-byte rows, failed decodes and
unencodable codepoints.

- `jisreverse` (pass) checks:
  - `ValueUnpacks`: every printed value reads back as the bytes `from_ucode`
    gave.
  - `RoundTrip` (spec section 8): every multi-byte reverse entry decodes
    forward to its codepoint. This needs the two wave-dash special cases to
    agree.
- `jisreverse_from_map` (violation) checks `ReverseFromMap`: the spec's
  statement that the reverse direction queries the first-wins map. `URow`
  never reads the map. It asks the encoder, so U+00A5 gets 0x5c, which is not
  in the map and which the consumer reads as ASCII backslash (U+005C).

### `UnicodeLoad` (mkctype.py `load_unicode_data`, `CodePoint`, `new_code`)

A line is abstracted to what the loop tests. That is its code, whether its
name is `<..., First>`, `<..., Last>` or plain, whether its category is `Cs`,
and whether its case fields are set. A record is identified by the line it
came from, its code, and whether its case mappings are the code itself.

State: `lines` (the input, codes in increasing order), `i`, `first` (the
index of the last First line, or `None`), and `ret`.

Actions: `ReadLine` is one loop iteration, one of:
- `SkipSurrogate`;
- `ReadFirst`;
- `ReadLast`: expands `first.code .. ud.code` with `new_code` when a First
  was seen; `first` is never reset;
- `ReadPlain`.

The reference (`SpecRecord`, `SpecDomain`) is section 4.1 of the spec, written
without the model's helpers.

Runs (`MCUnicodeLoad`: every file over codes 0..3, 1,377 initial states,
6,033 states):
- `unicodeload` (pass) checks `LoadedAsSpecified`. When the file is read,
  `CodePoints` is exactly the spec's dict: surrogates are absent, every range
  code has the First record with self case mappings, and nothing else is
  present. It assumes the fact `Paired`: every First line is directly
  followed by its Last, of the same category.
- `unicodeload_unpaired` (violation) drops `Paired`. A First of category Cs is
  skipped, so a later Last expands from the stale, earlier First.

### `DerivedLoad` (mkctype.py `load_derived_properties`, `DerivedCoreProperty`, `derived_properties`)

State: `dlines` (range lines and other lines), `i`, and `ret`. `ReadRange`
appends the value to the list of every code of the range. `SkipLine` models
comments and blank lines.

Run `derivedload` (every file of up to 3 lines over codes 0..2, 9,322 states)
checks `DerivedAsListed`: `derived_properties(c)` lists the value of every
line covering `c`, in file order, duplicates included.

### `Classify` (mkctype.py `to_upper` ... `is_xdigit`)

The deriver is a set of pure operators over two constants: `CodePoints`
(name as `""`, `"<control>"` or `"named"`; category; `<noBreak>`; upper and
lower mapping) and `Derived`. Lines 1-250 of `mkctype-extended.py` are the
same code. It has no run of its own and is checked through `LegacyCtype`.
`Classes` is the tuple form of `classes()` in `mkctype.py`, which feeds the
run-length table. It is a set of names, one per predicate that holds. A
lower (upper) code gets `case` when its upper (lower) mapping differs from
it, else `lower` (`upper`). `ClassesName` is `classes_name`: an empty set
becomes `CLASS_none`. The run-length model takes class sets as input, so
`Classes` is checked through `LegacyCtype`'s `WideAgrees`.

### `LegacyCtype` (mkctype-extended.py `classes`, `print_classes`, `dump_range`, `dump_table`)

`INSTANCE Classify` supplies the deriver. `ExtClasses` is the extended
`classes()`: one case slot (`_U`, else `_L`, else `_U|_L` for an alphabetic
code with no case), then `_N _S _P _C _X _B`.

`GeorgianPS` is the script's 256-entry table, written as its two
non-identity parts:
- CP1252-style punctuation at 0x82..0x9f;
- the Georgian letters at 0xc0..0xe5, with the five archaic ones inserted.

This form was checked entry by entry against the source table.

`Decode` models `print_classes`:
- GEORGIAN-PS uses the table;
- the EUC-JP C1 bytes other than 0x8e/0x8f pass through unchanged;
- everything else asks `codec`, an input over sample codes, or `Fail`, which
  prints ` 0`.

Actions: `DumpByte` and `DumpLastByte`, the byte loop and the move to the
next encoding.

`MacrosAgree` reads the bits as picolibc's `<ctype.h>` does. `isupper` and
`islower` need exactly one of `_U`/`_L`, `isprint` is `_P|_U|_L|_N|_B`, and
so on. Each of the twelve answers must equal the deriver's predicate for the
decoded code. An undecodable byte answers no to all.

`WideAgrees` compares the two generators. For every printed byte that
decodes, each `is*` answer of the legacy bits must equal the matching
`isw*` answer of the wide table's names for the decoded code, i.e.
`isalpha(b) = iswalpha(btowc(b))`. The names are read as they say:
`case` makes a code upper (lower) when it has a lower (upper) mapping. The
two tables come from two copies of `classes()` with different case
encodings, and no test builds both.

Runs (`MCLegacyCtype`):
- Encodings: one ISO codec, EUC-JP and GEORGIAN-PS.
- Bytes: 0x85, 0xc0 and 0xff.
- Records: real UnicodeData records for NEL, NBSP, U+00AA, A-grave,
  y-diaeresis, U+01C5, alef, an Arabic-Indic digit, a Georgian letter and
  the ellipsis.
- 7,776 initial states, 77,760 states.

The runs:
- `legacyctype` (pass) checks `MacrosAgree` and `WideAgrees`. It assumes
  `NoUpperLower`: no codec decodes a byte to a code that is both upper and
  lower. This was checked against every codec
  the script names with Python's codecs (Unicode 14).
- `legacyctype_titlecase` (violation) drops that fact. A byte decoding to
  U+01C5 is printed `_U` only, so `islower` disagrees with `is_lower`.

The spec (4.4) says an undecodable byte "maps to a zero sentinel, then the
deriver is applied". The code prints ` 0` instead, which is what
`MacrosAgree` states. `classes(0)` would have given `_C`.

### `SbTable` and `SbTableRows` (mk-sb-charsets.py `translate`, `dump_range`, `dump_table`)

State:
- `codec`: the input;
- `ti`, `bi`: the row and byte loops (`bi = 0` before `dump_range`);
- `maxUcode`: `max_ucode`;
- `conv`: the rows;
- `maxes`: the `max_ucode_iso`/`max_ucode_cp` dicts.

Actions: `BeginRange` resets `max_ucode`, `DumpCode` handles one byte, and
`StoreMax` is dump_table's store.

`SbTableRows` is the abstract specification. Each step adds the next row
whole, with its largest code as its max, and weak fairness makes every row
appear. `SbTable` maps onto it:
- a row is finished once `ti` has passed it;
- the decoder's value of a byte is `translate`'s answer.

Run `sbtable` (one ISO row and two code-page rows, one Georgian-PS; 1,024
initial states, 15,360 states) checks `ImplementsRows`, i.e.
`SbTableRows!Spec`.

### `TexiDocbook` (chapter-texi2docbook.py `main`)

State:
- `input`: stdin's lines after `rstrip`, each a directive and its rest;
- `pc`: before the loop, in it, or done;
- `i`: the loop's line;
- `firstNode`: `first_node`;
- `out`: one record per `print`.

Actions:
- `Start`: the two prolog prints.
- `ReadNode`: an `@node` line. Only while `firstNode` holds, it prints
  `<chapter>` with `ChapterId` of the line (strip, `lower()`, spaces to `_`).
  It then clears `firstNode`.
- `ReadChapter`: a title.
- `ReadInclude`: an include with `Href`, which replaces the FIRST `.def`.
- `ReadOther`: any other line prints nothing.
- `Finish`: `</chapter>`.

The `@file{}` rewrite only changes text inside a title or a name, so it is
left out. A node's rest is kept as characters because the id is computed
from them.

Run `texidocbook` covers every stdin of up to four lines that opens with
its `@node` (4,220 states). The lines come from two node names (upper case,
inner and leading spaces), a title, a `.def` and a `.tex` include, and other
text. It checks:
- `ChapterWellFormed`: the output is the prolog and exactly one chapter
  element. The element has the first `@node`'s id and holds only titles and
  includes. Later `@node`s (one per section) must open nothing.
- `BodyFaithful`: in every state, the titles and includes printed so far are
  the `@chapter`/`@include` lines read so far. They appear in order, each
  with its title or its file's `.xml` name.

`ChapterWellFormed` needs the fact `NodeFirst`. Without it, TLC reports the
empty stdin at once: it prints a `</chapter>` that closes nothing. The
`.texi` chapter files are not in this tree, so the fact is Texinfo's
convention, not a checked one.

Four lines are enough to place a directive before, between and after two
`@node`s and to follow an include by a second node.

The script only runs under Python 2 (`#!/usr/bin/env python`). Lines 16-21
indent with spaces and the loop body from line 22 with tabs. Python 3
rejects this with a `TabError` before `main()` runs. The model follows
Python 2's reading, with a tab as eight columns, which puts lines 22-40
inside the `for`.

## Fairness

Every module uses `WF_vars(Next)`. The generator is a single sequential
process, and each step is the next statement of a loop that always runs to its end.
Deadlock is not checked, because the generator really stops (`CHECK_DEADLOCK
FALSE`). `SbTableRows` has weak fairness on adding a row. `SbTable` implements
it only because its own fairness runs every loop to its end, so
`ImplementsRows` also checks that every row is eventually finished.

## Plan (later sittings)

An abstract run-length table with `RunTable` shown to implement it was
tried and dropped. Its safety part only repeated `StartsSorted`,
`PrintedPrefixCorrect` and `WideTableCorrect`. Its liveness part only said
that two bounded `for` loops end, and a Python `range()` cannot fail to end.
A composition feeding `classes()`
of loaded records into `RunTable` was considered and dropped. `runtable`
already ranges over every class assignment, which includes `classes()` of
any records. `classes()` itself is checked against the legacy tables by
`WideAgrees`.

## What is not modelled and why

- In `chapter-texi2docbook.py`: the `@file{}` rewrite and the wording of
  the prolog. Only text changes there.
- The define and designator names and the code-page-to-codec renaming in
  `mkctype-extended.py` and `mk-sb-charsets.py`: only names. The model's
  encodings are their codec names.
- Exceptions raised inside `classes()` under the bare `except` of
  `print_classes`: the modelled deriver is total.
- License headers, comments and number formatting: no property depends on
  them. The printed tables are modelled by their entries.
- The contents of Python's codecs and of the Unicode data files: they are
  inputs. The models range over every small input, plus named facts of the
  real data where the code relies on them.
