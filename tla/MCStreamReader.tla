--------------------------- MODULE MCStreamReader ---------------------------
(***************************************************************************)
(* "endstream" is "ene" here: as there, its first byte comes again inside. *)
(* Buffers of two bytes.                                                   *)
(***************************************************************************)
EXTENDS StreamReader, SequencesExt

End == <<"e", "n", "e">>
Space == {"cr", "lf"}
Bytes == {"e", "n"} \cup Space

ShortFiles == SeqOf(Bytes \ {"cr"}, 3)
LongFiles ==
    {<<"cr", "lf", "n", "e", "lf", "e", "n", "e">>, <<"lf", "e", "n", "cr", "lf", "e", "n", "e", "lf">>,
     <<"lf", "n", "e", "e", "n", "e", "lf", "n">>, <<"cr", "e", "n", "e", "n", "e">>,
     <<"lf", "lf", "e", "e", "n", "lf", "e", "n", "e">>}
SomeFiles == ShortFiles \cup LongFiles
=============================================================================
