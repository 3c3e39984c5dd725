----------------------------- MODULE MCExposure -----------------------------
(***************************************************************************)
(* An instance of Exposure for TLC: three orders of one, two or four units *)
(* in a market of two aligned prices and one that is not.  Three units at  *)
(* the lower price fill the position limit, a reversal from two to minus   *)
(* two passes it, one unit at the lower price is below the minimum, and a  *)
(* losing round trip of two units reaches the loss limit of the day.       *)
(***************************************************************************)
EXTENDS Exposure, TLC

CONSTANTS o1, o2, o3

MCIds == {o1, o2, o3}
Symmetry == Permutations(MCIds)

MCLimits ==
    [orderNotional |-> 80, positionNotional |-> 60, marginPercent |-> 50,
     dailyLoss |-> 9, spread |-> 20]

\* Enough margin; too little for the fraction; no equity; a wide spread.
Account(required, power, equity, spread) ==
    [marginRequired |-> required, buyingPower |-> power, equity |-> equity,
     spread |-> spread]

MCAccounts ==
    {Account(40, 100, 100, 5), Account(60, 100, 100, 5),
     Account(0, 10, 0, 5), Account(40, 100, 100, 25)}

=============================================================================
