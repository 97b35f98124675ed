---------------------------- MODULE MCFileSystem ----------------------------
(***************************************************************************)
(* A model directory m with a configuration, a version with one file and  *)
(* an empty version, next to a model whose name continues m's.             *)
(***************************************************************************)
EXTENDS FileSystem

MCFiles == {<<"m", "c">>, <<"m", "1", "f">>, <<"m2", "c">>}
MCMarkers == {<<"m", "2">>}
MCNamePrefix == {<<"m", "m2">>}
MCModel == <<"m">>
MCConfig == <<"m", "c">>
MCProbes == BoundedSeq({Slash, "a", "b"}, 4)
============================================================================
