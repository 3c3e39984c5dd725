--------------------------- MODULE MCBracketExits ---------------------------
(***************************************************************************)
(* An instance of BracketExits for TLC: targets that close one half        *)
(* each, and increments of two units, so that a confirmed quantity, every  *)
(* slice and two of the triggers have to be rounded.  The stop is valid    *)
(* against one price of the entry and not against the other, and Parts is  *)
(* a multiple of every quantity, so that average prices are exact.         *)
(***************************************************************************)
EXTENDS BracketExits

TwoHalves == <<1, 1>>
TwoTargets == <<23, 24>>

=============================================================================
