---------------------------- MODULE MCEthInventory ----------------------------
(***************************************************************************)
(* EthInventory where nothing fails, but the strategy may act before the   *)
(* feed has told of the last fill and before the venue has settled.        *)
(***************************************************************************)
EXTENDS EthInventory

MCLate == {<<"late", "var", "any">>}
===============================================================================
