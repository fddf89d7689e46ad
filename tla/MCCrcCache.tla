---------------------------- MODULE MCCrcCache ------------------------------
(* Three names, room for two files, and a counter that wraps after three     *)
(* ticks: it wraps often, and files that are gone hold entries others need.  *)
(* The names have an order; the contents are only compared.                  *)
EXTENDS CrcCache, TLC

CONSTANTS a, b, c, x, y

MCDirectory == <<a, b, c>>
MCData      == {x, y}
Symmetry    == Permutations(MCData)
=============================================================================
