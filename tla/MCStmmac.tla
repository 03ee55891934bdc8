------------------------------ MODULE MCStmmac ------------------------------
(* Rings of two descriptors whose counters wrap after two rounds.           *)
EXTENDS Stmmac
=============================================================================
