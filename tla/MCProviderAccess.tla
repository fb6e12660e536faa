-------------------------- MODULE MCProviderAccess --------------------------
(* Instances of ProviderAccess for TLC. *)
EXTENDS ProviderAccess, TLC

\* The profile as shipped, withdrawn, and turned into one that asks for nothing.
KeyProfile == [mode |-> "key", names |-> Names, blocked |-> FALSE, automatic |-> FALSE]
TheProfiles ==
  {KeyProfile, [KeyProfile EXCEPT !.blocked = TRUE],
   [mode |-> "none", names |-> {}, blocked |-> FALSE, automatic |-> TRUE]}

\* An approval, and a revocation that names another method.
TheDossiers ==
  {[state |-> "approved", method |-> "api", scopes |-> Scopes],
   [state |-> "revoked", method |-> "export", scopes |-> Scopes]}

AnySymmetry == Permutations(Clients) \cup Permutations(Refs)
=============================================================================
