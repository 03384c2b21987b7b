----------------------------- MODULE MCPartyMode -----------------------------
(* Instances of PartyMode for TLC. *)
EXTENDS PartyMode, TLC
=============================================================================
