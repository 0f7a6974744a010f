------------------------------ MODULE SbTableRows ------------------------------
(***************************************************************************)
(* What the single-byte table generator promises, with no loop inside a    *)
(* row: the rows of Tables appear one at a time, in order, each at once   *)
(* complete (every byte of the row, as the decoder reads it) and with its  *)
(* max, the largest code in the row; and every row eventually appears.    *)
(***************************************************************************)
EXTENDS Integers, Sequences

CONSTANTS
  Tables,       \* the rows, in order
  RowSet(_)     \* the bytes of a row

VARIABLES
  dec,          \* <<row, byte>> -> the code the decoder gives (0: none)
  done          \* the finished rows, in order: [row, conv, max]

vars == <<dec, done>>

Largest(S) == CHOOSE m \in S : \A x \in S : x <= m

Init == done = << >>

(* The next row of Tables, all of its bytes and its max in one step.       *)
AddRow ==
  /\ Len(done) < Len(Tables)
  /\ LET t == Tables[Len(done) + 1]
         c == [b \in RowSet(t) |-> dec[<<t, b>>]]
     IN  done' = Append(done, [row |-> t, conv |-> c,
                               max |-> Largest({c[b] : b \in RowSet(t)} \cup {0})])
  /\ UNCHANGED dec

Spec == Init /\ [][AddRow]_vars /\ WF_vars(AddRow)

=============================================================================
