----------------------------- MODULE TexiDocbook -----------------------------
(***************************************************************************)
(* main() of src/newlib/doc/chapter-texi2docbook.py: read a handwritten    *)
(* chapter .texi on stdin line by line and print a DocBook chapter: the    *)
(* XML prolog, <chapter id=...> for the first @node only, <title> for each *)
(* "@chapter ", <xi:include href=...> for each "@include " (the first     *)
(* ".def" turned into ".xml"), nothing for any other line, and finally    *)
(* </chapter>.                                                             *)
(*                                                                         *)
(* A line is a record: its directive and the rest of the line after it.   *)
(* A @node's rest is kept as characters, since the id is computed from     *)
(* them; a title is a model value; a file name is a sequence of segments  *)
(* such as <<"stdio/fopen", ".def">>.  The @file{} rewrite only changes    *)
(* text inside a title or a name and is left out.                         *)
(***************************************************************************)
EXTENDS Integers, Sequences, FiniteSets

CONSTANTS
  NodeRests,    \* what may follow "@node" on a line (sequences of characters)
  Titles,       \* what may follow "@chapter "
  Files,        \* what may follow "@include " (sequences of name segments)
  MaxLines,     \* the longest stdin considered
  Facts         \* facts of the chapter files the input is assumed to have

ASSUME Facts \subseteq {"NodeFirst"}

Lines ==
       [cmd : {"@node"}, rest : NodeRests]
  \cup [cmd : {"@chapter "}, rest : Titles]
  \cup [cmd : {"@include "}, rest : Files]
  \cup [cmd : {"text"}, rest : {""}]

(* Texinfo's rule for a chapter file: it opens with its @node, before any *)
(* @chapter or @include.                                                  *)
NodeFirst(in) ==
  \E k \in DOMAIN in :
     /\ in[k].cmd = "@node"
     /\ \A j \in 1 .. k - 1 : in[j].cmd = "text"

Inputs ==
  {in \in UNION {[1 .. n -> Lines] : n \in 0 .. MaxLines} :
     "NodeFirst" \in Facts => NodeFirst(in)}

VARIABLES
  input,        \* sys.stdin.readlines(), after rstrip
  pc,           \* "start", "loop" or "done"
  i,            \* index of the next line of the for loop
  firstNode,    \* first_node
  out           \* what has been printed, one record per print

vars == <<input, pc, i, firstNode, out>>

SeqToSet(s) == {s[k] : k \in DOMAIN s}

Elements ==
       [type : {"prolog", "close"}]
  \cup [type : {"open"}, id : Seq({" ", "_", "a", "b"})]
  \cup [type : {"title"}, text : Titles]
  \cup [type : {"include"}, href : Seq(UNION {SeqToSet(f) : f \in Files} \cup {".xml"})]

TypeOK ==
  /\ input \in Inputs
  /\ pc \in {"start", "loop", "done"}
  /\ i \in 1 .. Len(input) + 1
  /\ firstNode \in BOOLEAN
  /\ out \in Seq(Elements)

(* l.strip(): drop the spaces at both ends.                                *)
Strip(s) ==
  LET ks == {k \in DOMAIN s : s[k] # " "}
      lo == CHOOSE k \in ks : \A j \in ks : k <= j
      hi == CHOOSE k \in ks : \A j \in ks : j <= k
  IN  IF ks = {} THEN << >> ELSE SubSeq(s, lo, hi)

LowerCase == [c \in {" ", "A", "B", "a", "b"} |->
                IF c = "A" THEN "a" ELSE IF c = "B" THEN "b" ELSE c]

\* Mutant: the id keeps the node's upper case (no lower()).
ChapterIdNoLower(rest) ==
  LET s == Strip(rest)
  IN  [k \in DOMAIN s |-> IF s[k] = " " THEN "_" ELSE s[k]]

(* The id of <chapter>: strip, lower(), then every ' ' becomes '_'.       *)
ChapterId(rest) ==
  LET s == Strip(rest)
  IN  [k \in DOMAIN s |-> IF s[k] = " " THEN "_" ELSE LowerCase[s[k]]]

\* Mutant: the include keeps its .def name.
HrefNoReplace(file) == file

(* l.replace(".def", ".xml", 1): only the first occurrence.                *)
Href(file) ==
  LET ks == {k \in DOMAIN file : file[k] = ".def"}
  IN  IF ks = {} THEN file
      ELSE [file EXCEPT ![CHOOSE k \in ks : \A j \in ks : k <= j] = ".xml"]

Init ==
  /\ input \in Inputs
  /\ pc = "start"
  /\ i = 1
  /\ firstNode = TRUE
  /\ out = << >>

(* The two prints before the loop: the XML declaration and the DOCTYPE.   *)
Start ==
  /\ pc = "start"
  /\ pc' = "loop"
  /\ out' = Append(out, [type |-> "prolog"])
  /\ UNCHANGED <<input, i, firstNode>>

Line == input[i]

\* Mutant: first_node is never cleared.
ReadNodeNoReset ==
  /\ pc = "loop" /\ i <= Len(input) /\ Line.cmd = "@node"
  /\ IF firstNode
       THEN out' = Append(out, [type |-> "open", id |-> ChapterId(Line.rest)])
       ELSE UNCHANGED out
  /\ i' = i + 1
  /\ UNCHANGED <<input, pc, firstNode>>

(* A line that starts with "@node": the chapter opens at the first one.   *)
ReadNode ==
  /\ pc = "loop" /\ i <= Len(input) /\ Line.cmd = "@node"
  /\ IF firstNode
       THEN out' = Append(out, [type |-> "open", id |-> ChapterId(Line.rest)])
       ELSE UNCHANGED out
  /\ firstNode' = FALSE
  /\ i' = i + 1
  /\ UNCHANGED <<input, pc>>

ReadChapter ==
  /\ pc = "loop" /\ i <= Len(input) /\ Line.cmd = "@chapter "
  /\ out' = Append(out, [type |-> "title", text |-> Line.rest])
  /\ i' = i + 1
  /\ UNCHANGED <<input, pc, firstNode>>

ReadInclude ==
  /\ pc = "loop" /\ i <= Len(input) /\ Line.cmd = "@include "
  /\ out' = Append(out, [type |-> "include", href |-> Href(Line.rest)])
  /\ i' = i + 1
  /\ UNCHANGED <<input, pc, firstNode>>

(* Any other line prints nothing.                                          *)
ReadOther ==
  /\ pc = "loop" /\ i <= Len(input) /\ Line.cmd = "text"
  /\ i' = i + 1
  /\ UNCHANGED <<input, pc, firstNode, out>>

(* After the loop: print('</chapter>').                                     *)
Finish ==
  /\ pc = "loop" /\ i = Len(input) + 1
  /\ pc' = "done"
  /\ out' = Append(out, [type |-> "close"])
  /\ UNCHANGED <<input, i, firstNode>>

Next == Start \/ ReadNode \/ ReadChapter \/ ReadInclude \/ ReadOther \/ Finish

Spec == Init /\ [][Next]_vars /\ WF_vars(Next)

-----------------------------------------------------------------------------
FirstNodeRest == LET k == CHOOSE k \in DOMAIN input :
                            /\ input[k].cmd = "@node"
                            /\ \A j \in 1 .. k - 1 : input[j].cmd # "@node"
                 IN  input[k].rest

(***************************************************************************)
(* What the converter is for: once main() returns, stdout is the prolog    *)
(* and exactly one chapter element, opened with the id of the FIRST @node *)
(* and holding only titles and xi:includes.  main() gets this only from   *)
(* first_node, which must keep every later @node from opening a second    *)
(* chapter, and only if the file opens with its @node: an @chapter or     *)
(* @include before it, or a file with no @node, prints outside the root   *)
(* or a </chapter> that closes nothing.                                    *)
(***************************************************************************)
ChapterWellFormed ==
  pc = "done" =>
    /\ Len(out) >= 3
    /\ out[1].type = "prolog"
    /\ out[2] = [type |-> "open", id |-> ChapterId(FirstNodeRest)]
    /\ out[Len(out)].type = "close"
    /\ \A k \in 3 .. Len(out) - 1 : out[k].type \in {"title", "include"}

(* The XInclude target makedocbook produces for an included file: a .def  *)
(* extension becomes .xml, any other name is included as it is.          *)
XmlName(f) ==
  IF f # << >> /\ f[Len(f)] = ".def" THEN [f EXCEPT ![Len(f)] = ".xml"] ELSE f

IsContent(l) == l.cmd \in {"@chapter ", "@include "}
IsBody(e) == e.type \in {"title", "include"}

Expected(l) ==
  IF l.cmd = "@chapter " THEN [type |-> "title", text |-> l.rest]
  ELSE [type |-> "include", href |-> XmlName(l.rest)]

(***************************************************************************)
(* At every point of the loop, the titles and xi:includes printed so far   *)
(* are the @chapter and @include lines read so far, in stdin order, each   *)
(* with its own title or with its file's .xml name: no directive is       *)
(* skipped, repeated, reordered or given another line's name, whichever   *)
(* @node, text or directive lines come between them.                       *)
(***************************************************************************)
BodyFaithful ==
  LET body == SelectSeq(out, IsBody)
      src  == SelectSeq(SubSeq(input, 1, i - 1), IsContent)
  IN  /\ Len(body) = Len(src)
      /\ \A k \in 1 .. Len(src) : body[k] = Expected(src[k])

=============================================================================
