------------------------------ MODULE MCReload ------------------------------
(***************************************************************************)
(* An instance of Reload for TLC: a program of one module, beside one in a  *)
(* directory the user ignores.                                             *)
(***************************************************************************)
EXTENDS Reload

Main == [path |-> <<"srv", "app", "main">>, ext |-> "py"]
Test == [path |-> <<"srv", "app", "tests", "test">>, ext |-> "py"]

MCFiles == {Main, Test}
MCScript == <<"srv", "app", "main">>
MCCwd == <<"srv">>
NoPaths == {}
Tests == {<<"tests">>}
=============================================================================
