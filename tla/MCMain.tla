------------------------------- MODULE MCMain -------------------------------
(***************************************************************************)
(* Instances of Main for TLC: names of files without and with blanks,      *)
(* arrows and foreign bytes.                                               *)
(***************************************************************************)
EXTENDS Main

Names == {<<"a">>, <<"a", "a">>, <<"get@", "a">>,
          <<"a", " ", "a">>, <<"a", "->">>, <<"a", "->", "a">>, <<"a", Lossy>>}

=============================================================================
