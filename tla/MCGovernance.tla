---------------------------- MODULE MCGovernance ----------------------------
(* Small instances of Governance for TLC. *)
EXTENDS Governance, TLC

CONSTANTS c0, c1, x, y, m1, m2

\* Chain 1 is EVM, chain 2 Stellar, chain 3 Solana.  The deployer owns m1 and the
\* timelocks of chains 1 and 2; the timelock owns m2.
Families == 1 :> "EVM" @@ 2 :> "Stellar" @@ 3 :> "Solana"
AllRefs == [c \in {1, 2, 3} |-> {"timelock", "mcm", "callproxy", "accessControllers"}]
TimelockOwns == {1, 2, 3} \X {m2} \cup {<<3, "timelock">>}

Cfg(m, c) == [m |-> m, cfg |-> c]
Grant(r, to) == [role |-> r, to |-> to]
In(cs, mcms, by) == [cs |-> cs, mcms |-> mcms, by |-> by]

\* Direct changes of m1, there and back again on the Stellar chain; a direct call
\* that reverts; two grants to one account.
DirectInputs ==
    {In("setConfig", FALSE, 1 :> <<Cfg(m1, c1)>> @@ 2 :> <<Cfg(m1, c1)>>),
     In("setConfig", FALSE, 2 :> <<Cfg(m1, c0)>>),
     In("setConfig", FALSE, 3 :> <<Cfg(m2, c1)>>),
     In("grantRole", FALSE, 1 :> <<Grant("PROPOSER", <<x, y>>), Grant("ADMIN", <<x>>)>>)}
\* Proposals: two calls in one EVM batch, one executable on Stellar; grants; a
\* grant verification refuses; a drill.
ProposedInputs ==
    {In("setConfig", TRUE, 1 :> <<Cfg(m1, c1), Cfg(m2, c1)>> @@ 2 :> <<Cfg(m2, c1)>> @@ 3 :> <<Cfg(m2, c1)>>),
     In("grantRole", TRUE, 1 :> <<Grant("PROPOSER", <<x>>)>> @@ 3 :> <<Grant("PROPOSER", <<x, y>>)>>),
     In("grantRole", TRUE, 3 :> <<Grant("ADMIN", <<x>>)>>),
     In("fireDrill", TRUE, 1 :> <<>> @@ 3 :> <<>>)}
AllInputs == DirectInputs \cup ProposedInputs
=============================================================================
