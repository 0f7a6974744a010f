---------------------------- MODULE MCTexiDocbook ----------------------------
EXTENDS TexiDocbook

(* "@node Ab b" style names: upper case and inner and leading spaces.      *)
MCNodeRests == {<<" ", "A", " ", "b">>, <<" ", " ", "B">>}
MCTitles == {"Title"}
(* A makedoc .def and a plain texinfo include such as targetdep.tex.      *)
MCFiles == {<<"stdio/fopen", ".def">>, <<"targetdep", ".tex">>}
=============================================================================
