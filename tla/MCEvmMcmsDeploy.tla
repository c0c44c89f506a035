-------------------------- MODULE MCEvmMcmsDeploy --------------------------
(* Small instances of EvmMcmsDeploy for TLC. *)
EXTENDS EvmMcmsDeploy

CONSTANTS q1, s1, s2

Same(s) == [t \in MCMTypes |-> s]
Conf(s, d) == [q |-> q1, cfg |-> Same(s), delay |-> d]

\* Both chains with one configuration, or chain 1 alone with another delay.
TwoChains == {[c \in {1, 2} |-> Conf(s1, 1)], [c \in {1} |-> Conf(s1, 2)]}

\* A ref of an MCM, and one of a timelock on the other chain.
SomeRefs == {<<1, "Proposer", q1>>, <<2, "Timelock", q1>>}
=============================================================================
