------------------------- MODULE MCCustomTopology -------------------------
(* Small instances of CustomTopology for TLC. *)
EXTENDS CustomTopology, TLC

CONSTANTS s1, s2

Mcm(r, t, q) == [ref |-> r, t |-> t, q |-> q, cfg |-> s1]
NoHolders == [r \in Roles |-> <<>>]

\* The timelock of qualifier A: one MCM, a call proxy, ownership of the token.
TlA == [ref |-> "tlA", q |-> "A", delay |-> 1, proxy |-> TRUE,
        roles |-> [NoHolders EXCEPT !["PROPOSER"] = <<<<"ref", "pA">>>>],
        take |-> <<<<"addr", 1>>>>]
\* The timelock of qualifier B: one MCM, which it takes over; an executor of its
\* own and no call proxy.
TlB(d) == [ref |-> "tlB", q |-> "B", delay |-> d, proxy |-> FALSE,
           roles |-> [NoHolders EXCEPT !["PROPOSER"] = <<<<"ref", "pB">>>>,
                                       !["EXECUTOR"] = <<<<"addr", Eoa>>>>],
           take |-> <<<<"ref", "pB">>>>]

Both == [mcms |-> <<Mcm("pA", "Proposer", "A"), Mcm("pB", "Proposer", "B")>>,
         tls |-> <<TlA, TlB(1)>>]
OnlyB == [mcms |-> <<[Mcm("pB", "Proposer", "B") EXCEPT !.cfg = s2]>>, 
          tls |-> <<[TlB(2) EXCEPT !.take = <<<<"ref", "pB">>, <<"addr", 1>>>>]>>]
OnlyMcm == [mcms |-> <<Mcm("pB", "Proposer", "B")>>, tls |-> <<>>]

\* Two qualifiers on chain 1 and an MCM on chain 2; qualifier B of chain 1 alone,
\* its MCM with another config, its timelock with another delay and the token too.
TwoQualifiers ==
    {[by |-> (1 :> Both) @@ (2 :> OnlyMcm), mcms |-> TRUE],
     [by |-> 1 :> OnlyB, mcms |-> TRUE]}
=============================================================================
