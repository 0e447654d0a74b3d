-------------------------- MODULE MCCompactionJob --------------------------
(* Two processes, and a model switch that asks for another target.         *)
EXTENDS CompactionJob

Asked == {<<"advise", "c1">>, <<"manual", "c1">>, <<"mandatory", "c2">>}
=============================================================================
