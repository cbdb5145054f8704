----------------------------- MODULE MCDurableChat -----------------------------
(* Small instances of DurableChat for TLC. *)
EXTENDS DurableChat

CONSTANTS first, second, third

=============================================================================
