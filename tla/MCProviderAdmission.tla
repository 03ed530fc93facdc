------------------------ MODULE MCProviderAdmission ------------------------
(* Instances of ProviderAdmission for TLC.  The callers are interchangeable. *)
EXTENDS ProviderAdmission, TLC

CallerSymmetry == Permutations(Callers)
=============================================================================
