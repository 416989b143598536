------------------------------ MODULE MCSystem ------------------------------
(* System.tla for TLC: a keyboard line, an exec and a call without payload. *)
EXTENDS System

Sizes == {1}
NoSizes == {}

ClientCommands == {[cmd |-> "stdin", len |-> 2], [cmd |-> "exec", len |-> 1],
                   [cmd |-> "other", len |-> 0]}
=============================================================================
