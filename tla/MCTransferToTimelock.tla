----------------------- MODULE MCTransferToTimelock -----------------------
(* Small instances of TransferToTimelock for TLC. *)
EXTENDS TransferToTimelock

CONSTANTS e1, e2, e3, s1, x1

LOCAL INSTANCE TLC

ThreeFamilies == (1 :> "evm") @@ (2 :> "solana") @@ (3 :> "stellar")

In(f, o) == [by |-> f, only |-> o, bypass |-> FALSE]

\* Two EVM contracts, together or, with the timelock action bypass, one of them
\* alone: overlapping proposals.
Overlapping ==
    {In(1 :> <<e1, e2>>, FALSE), [In(1 :> <<e1>>, FALSE) EXCEPT !.bypass = TRUE]}

\* One contract of each family: a run over all three, accept-only runs, and a run
\* that is refused, as a Bypasser MCM cannot accept by a bypass.
EachFamily ==
    {In((1 :> <<e3>>) @@ (2 :> <<s1>>) @@ (3 :> <<x1>>), FALSE),
     In((1 :> <<e3>>) @@ (2 :> <<s1>>), TRUE),
     In(3 :> <<x1>>, TRUE),
     [In(3 :> <<x1>>, FALSE) EXCEPT !.bypass = TRUE]}

StellarOnly == {In(3 :> <<x1>>, b) : b \in BOOLEAN}

TwoFleets == {Overlapping, EachFamily}
OneFleet == {StellarOnly}
=============================================================================
