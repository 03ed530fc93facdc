------------------------- MODULE MCProviderRecovery -------------------------
(* Instances of ProviderRecovery for TLC.  The guilds are interchangeable. *)
EXTENDS ProviderRecovery, TLC

GuildSymmetry == Permutations(Guilds)
=============================================================================
