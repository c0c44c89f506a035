------------------------------ MODULE MCSolana ------------------------------
EXTENDS FundMcmPdas, TLC

MCChains == {1, 2}
MCQuals == {"q1"}

Cfg(q, c, d) == [qual |-> q, cfg |-> c, delay |-> d]

\* A set on each of two chains; another config for the first set, with a delay
\* that does not fit.
MCInputs ==
    {1 :> Cfg("q1", "c1", 0) @@ 2 :> Cfg("q1", "c1", 0),
     1 :> Cfg("q1", "c2", 8)}

MCDeletable ==
    {{"proposerMCM"}, {"acProgram"}, {"mcmProgram"}, {"timelock"} \cup ACSlots}

Amounts(t, p, c, b) ==
    [qual |-> "q1",
     amount |-> [timelock |-> t, proposerMCM |-> p, cancellerMCM |-> c, bypasserMCM |-> b]]

\* Equal amounts and zeros; an amount in common with it and a sum that overflows.
MCFundInputs == {1 :> Amounts(1, 1, 0, 0), 1 :> Amounts(1, 0, 6, 1)}
=============================================================================
