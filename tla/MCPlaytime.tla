----------------------------- MODULE MCPlaytime -----------------------------
(* Small instances of Playtime for TLC. *)
EXTENDS Playtime

AllEnabled == {[playtime |-> TRUE, daily |-> TRUE, weekly |-> TRUE]}
\* All rewards or none.
Switched == {[playtime |-> b, daily |-> b, weekly |-> b] : b \in BOOLEAN}
=============================================================================
