---------------------------- MODULE MCStateFlow -----------------------------
(* StateFlow for TLC: two tiers, of which the hot one reads two blocks, and *)
(* a topic that mixes fields of both tiers, like hvac_mode.                 *)
EXTENDS StateFlow, TLC

CONSTANTS hot, medium, i2, h31, h86, hvac_mode

MCTiers == {hot, medium}
MCBlocks == {i2, h31, h86}
MCReads == (hot :> <<i2, h31>>) @@ (medium :> <<h86>>)
MCOrder == <<hvac_mode>>
MCSource == hvac_mode :> MCBlocks
=============================================================================
