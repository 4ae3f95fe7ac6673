------------------------------ MODULE MCCliTask ------------------------------
(* CliTask for TLC: one command beside help; every longer word names none. *)
EXTENDS CliTask

MCCommands == {<<"v">>}
=============================================================================
