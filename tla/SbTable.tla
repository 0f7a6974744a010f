------------------------------- MODULE SbTable -------------------------------
(***************************************************************************)
(* The single-byte conversion tables of                                    *)
(* src/newlib/libc/stdlib/mk-sb-charsets.py.  dump_table dumps one row per *)
(* ISO-8859 encoding (bytes 0xa0..0xff into __iso_8859_conv) and then one  *)
(* per code page (bytes 0x80..0xff into __cp_conv); dump_range translates  *)
(* every byte of a row, keeping a running max_ucode it resets per call,   *)
(* and dump_table stores that max in __iso_8859_max / __cp_max.            *)
(*                                                                         *)
(* What Python's codecs decode is an input; the row designators and the   *)
(* print layout are left out.  A row is identified by its kind and        *)
(* encoding.                                                               *)
(***************************************************************************)
EXTENDS Integers, Sequences, FiniteSets, TLC

CONSTANTS
  Tables,       \* <<kind, encoding>> rows in dump_table's order
  IsoBytes,     \* the bytes of 0xa0..0xff an ISO row is checked on, in order
  CpBytes,      \* the bytes of 0x80..0xff a code-page row is checked on
  Samples,      \* the codes a codec may decode a byte to
  Fail          \* a decode that raises

(* georgian_ps: see LegacyCtype; the same table is repeated in this file. *)
GeorgianPSPunct ==
  (\H82 :> \H201a) @@ (\H83 :> \H0192) @@ (\H84 :> \H201e) @@ (\H85 :> \H2026)
  @@ (\H86 :> \H2020) @@ (\H87 :> \H2021) @@ (\H88 :> \H02c6) @@ (\H89 :> \H2030)
  @@ (\H8a :> \H0160) @@ (\H8b :> \H2039) @@ (\H8c :> \H0152) @@ (\H91 :> \H2018)
  @@ (\H92 :> \H2019) @@ (\H93 :> \H201c) @@ (\H94 :> \H201d) @@ (\H95 :> \H2022)
  @@ (\H96 :> \H2013) @@ (\H97 :> \H2014) @@ (\H98 :> \H02dc) @@ (\H99 :> \H2122)
  @@ (\H9a :> \H0161) @@ (\H9b :> \H203a) @@ (\H9c :> \H0153) @@ (\H9f :> \H0178)

GeorgianArchaic == {\Hc7, \Hce, \Hd5, \He2, \He5}

GeorgianPS(b) ==
  LET below == Cardinality({a \in GeorgianArchaic : a < b})
  IN  CASE b \in DOMAIN GeorgianPSPunct -> GeorgianPSPunct[b]
        [] b \in GeorgianArchaic        -> \H10f1 + below
        [] b \in \Hc0 .. \He5           -> \H10d0 + (b - \Hc0) - below
        [] OTHER                        -> b

(* The bytes dump_range walks for a row of this kind.                      *)
RowBytes(t) == IF t[1] = "iso" THEN IsoBytes ELSE CpBytes

Rows == {Tables[k] : k \in DOMAIN Tables}
SeqSet(s) == {s[k] : k \in DOMAIN s}

VARIABLES
  codec,        \* what Python's codec decodes each byte of each row to
  ti,           \* index of the row being dumped
  bi,           \* index of the next byte of the row; 0 before dump_range
  maxUcode,     \* dump_range's max_ucode
  conv,         \* the printed rows: row -> byte -> ucode
  maxes         \* max_ucode_iso and max_ucode_cp: row -> max

vars == <<codec, ti, bi, maxUcode, conv, maxes>>

CodecPairs ==
  {p \in Rows \X (SeqSet(IsoBytes) \cup SeqSet(CpBytes)) :
     p[1][2] # "GEORGIAN-PS" /\ p[2] \in SeqSet(RowBytes(p[1]))}

Init ==
  /\ codec \in [CodecPairs -> Samples \cup {Fail}]
  /\ ti = 1
  /\ bi = 0
  /\ maxUcode = 0
  /\ conv = [t \in Rows |-> << >>]
  /\ maxes = << >>

(* translate(code, encoding): 0 when the decode raised.                    *)
Translate(t, b) ==
  IF t[2] = "GEORGIAN-PS" THEN GeorgianPS(b)
  ELSE IF codec[<<t, b>>] = Fail THEN 0 ELSE codec[<<t, b>>]

\* Mutant: max_ucode is not reset, so it runs on from the previous row.
BeginRangeNoReset ==
  /\ ti <= Len(Tables) /\ bi = 0
  /\ bi' = 1
  /\ UNCHANGED <<codec, ti, maxUcode, conv, maxes>>

(* dump_range's start: max_ucode = 0.                                      *)
BeginRange ==
  /\ ti <= Len(Tables) /\ bi = 0
  /\ bi' = 1
  /\ maxUcode' = 0
  /\ UNCHANGED <<codec, ti, conv, maxes>>

(* One code of range(start, end + 1): print it, raise max_ucode.           *)
DumpCode ==
  LET t == Tables[ti]
      u == Translate(t, RowBytes(t)[bi])
  IN  /\ ti <= Len(Tables) /\ bi \in 1 .. Len(RowBytes(t))
      /\ conv' = [conv EXCEPT ![t] = (RowBytes(t)[bi] :> u) @@ @]
      /\ maxUcode' = IF u > maxUcode THEN u ELSE maxUcode
      /\ bi' = bi + 1
      /\ UNCHANGED <<codec, ti, maxes>>

(* dump_range returns; dump_table stores max_ucode under the row's key.   *)
StoreMax ==
  /\ ti <= Len(Tables) /\ bi = Len(RowBytes(Tables[ti])) + 1
  /\ maxes' = (Tables[ti] :> maxUcode) @@ maxes
  /\ ti' = ti + 1
  /\ bi' = 0
  /\ UNCHANGED <<codec, maxUcode, conv>>

Next == BeginRange \/ DumpCode \/ StoreMax

Spec == Init /\ [][Next]_vars /\ WF_vars(Next)

-----------------------------------------------------------------------------
(***************************************************************************)
(* The refinement mapping: a row is finished once dump_table has stored    *)
(* its max (ti has moved past it); what the decoder reads for a byte is    *)
(* translate's answer.                                                      *)
(***************************************************************************)
RowPairs == {p \in Rows \X (SeqSet(IsoBytes) \cup SeqSet(CpBytes)) :
               p[2] \in SeqSet(RowBytes(p[1]))}

Rows_ == INSTANCE SbTableRows WITH
  RowSet <- LAMBDA t : SeqSet(RowBytes(t)),
  dec <- [p \in RowPairs |-> Translate(p[1], p[2])],
  done <- [k \in 1 .. ti - 1 |-> [row |-> Tables[k], conv |-> conv[Tables[k]],
                                  max |-> maxes[Tables[k]]]]

(***************************************************************************)
(* dump_table implements SbTableRows: the byte-by-byte loop of dump_range  *)
(* and the store into max_ucode_iso / max_ucode_cp only ever finish the    *)
(* next row of Tables, with every byte of it translated and the row's     *)
(* largest code as its max (a max_ucode carried over from the row before,  *)
(* or a byte missed by the running max, breaks this), and every row is    *)
(* eventually finished.                                                     *)
(***************************************************************************)
ImplementsRows == Rows_!Spec

=============================================================================
