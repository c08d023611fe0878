------------------------------- MODULE MCWindow -------------------------------
(***************************************************************************)
(* MCNode's small nodes under a window whose wallet is mined to.           *)
(***************************************************************************)
EXTENDS MCNode, Window
===============================================================================
