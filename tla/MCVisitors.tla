------------------------------ MODULE MCVisitors ------------------------------
(* Three parts that share no state, checked in one run: only one of them    *)
(* moves away from its initial state in a behaviour.                        *)
EXTENDS AccountProvisioning, PasswordReset, RateLimiter, TLC

vars == <<pvars, rvars, lvars>>

Init == ProvisioningInit /\ ResetInit /\ LimiterInit

Next ==
  \/ ResetInit /\ LimiterInit /\ ProvisioningNext /\ UNCHANGED <<rvars, lvars>>
  \/ ProvisioningInit /\ LimiterInit /\ ResetNext /\ UNCHANGED <<pvars, lvars>>
  \/ ProvisioningInit /\ ResetInit /\ LimiterNext /\ UNCHANGED <<pvars, rvars>>

Spec == Init /\ [][Next]_vars

(* The tables and stores of the three parts hold what their columns can. *)
TypeOK == ProvisioningTypeOK /\ ResetTypeOK /\ LimiterTypeOK

Symmetry == Permutations(Tokens) \union Permutations(Logins) \union Permutations(Flights)
=============================================================================
