------------------------ MODULE MCStellarMcmsDeploy ------------------------
(* Small instances of StellarMcmsDeploy for TLC. *)
EXTENDS StellarMcmsDeploy, TLC

CONSTANTS q1, s1, s2

\* The proposer's config is s.
Conf(c, s) == [c |-> c, q |-> q1, delay |-> 1,
               cfg |-> [t \in MCMTypes |-> IF t = "Proposer" THEN s ELSE s1]]
ProcSymmetry == Permutations(Procs)

OneInput == {Conf(1, s1)}
TwoConfigs == {Conf(1, s1), Conf(1, s2)}
TwoChains == {Conf(1, s1), Conf(2, s1)}

\* One binary, or a newer one with another MCMS artifact and the same timelock.
Current1 == {[mcm |-> 1, tl |-> 1]}
NewMcms == {[mcm |-> 1, tl |-> 1], [mcm |-> 2, tl |-> 1]}
=============================================================================
