---------------------------- MODULE FundMcmPdas ----------------------------
(***************************************************************************)
(* The fund-mcm-pdas changeset, beside the Solana deploy whose sets it     *)
(* reads from the datastore and whose operations bundle it shares.         *)
(*   mcms/solana/changesets/fund-mcm-pdas                                  *)
(*                                                                         *)
(* The deployer pays the signer PDAs of a set's timelock and MCMs, one     *)
(* transaction each, whose fee it pays too, after its balance was compared *)
(* with the sum of the amounts.                                            *)
(***************************************************************************)
EXTENDS SolanaMcmsDeploy

CONSTANTS
    FundInputs,   \* FundingPerChain: chains to [qual, amount: [Targets -> Nat]]
    Balance,      \* lamports of the deployer at first, a uint64
    Fee,          \* what a transaction costs its payer
    MaxFunds,     \* bound: runs of the changeset
    MaxSpends     \* bound: payments of the deployer key by others

Targets == <<"timelock", "proposerMCM", "cancellerMCM", "bypasserMCM">>

ASSUME FundAssumption ==
    /\ {MaxFunds, MaxSpends, Fee} \subseteq Nat /\ Balance \in 0..MaxUint64
    /\ \A i \in FundInputs : \A c \in DOMAIN i :
          i[c].qual \in Quals /\ i[c].amount \in [{Targets[n] : n \in 1..4} -> 0..MaxUint64]

VARIABLES
    lamports,   \* [Chains -> Nat]: the deployer's balances
    paid,       \* transfers that landed: [id, amount, n: how often]
    fpc, freq, ftodo,
    queue,      \* FundingTargets of the chain still to be paid
    spent,      \* chains where others spent the deployer's lamports since the check
    unseen,     \* whether the result of a transfer that landed was lost
    funds, spends

fundVars == <<lamports, paid, fpc, freq, ftodo, queue, spent, unseen, funds, spends>>
allVars == <<vars, fundVars>>

----------------------------------------------------------------------------
(* types.go, helpers.go, validate.go *)

RequiredFunding_NoTimelock(f) ==
    (f.amount["proposerMCM"] + f.amount["cancellerMCM"] + f.amount["bypasserMCM"]) % (MaxUint64 + 1)
RequiredFunding(f) ==
    (f.amount["proposerMCM"] + f.amount["cancellerMCM"] + f.amount["bypasserMCM"]
       + f.amount["timelock"]) % (MaxUint64 + 1)

RefsOf(c, f) == ds[<<c, f.qual>>]

\* The PDA of a ref stands for its instance: program and seed determine it.
SignerPDAFromRef(ref) == ref.seed
ResolveFundingTargets(c, f) ==
    [n \in 1..4 |-> [to |-> SignerPDAFromRef(RefsOf(c, f)[Targets[n]]), amount |-> f.amount[Targets[n]]]]

validateMCMSRefs(c, f) == \A n \in 1..4 : RefsOf(c, f)[Targets[n]] # None
validateDeployerBalance(c, f) == lamports[c] >= RequiredFunding(f)

----------------------------------------------------------------------------
(* changeset.go, sequence.go, operation.go *)

VerifyPreconditions(i) ==
    \A c \in DOMAIN i : c \in Chains /\ validateMCMSRefs(c, i[c]) /\ validateDeployerBalance(c, i[c])

StartFund(i) ==
    /\ pc = "idle" /\ fpc = "idle" /\ funds < MaxFunds /\ VerifyPreconditions(i)
    /\ funds' = funds + 1 /\ freq' = i /\ ftodo' = DOMAIN i /\ fpc' = "chain" /\ spent' = {}
    /\ UNCHANGED <<vars, lamports, paid, queue, unseen, spends>>

fch == CHOOSE c \in ftodo : \A d \in ftodo : c <= d
FundChainInput == [ch |-> fch, config |-> freq[fch]]

ReuseFunding ==
    /\ fpc = "chain" /\ ftodo # {} /\ Reusable("fund", FundChainInput)
    /\ ftodo' = ftodo \ {fch}
    /\ UNCHANGED <<vars, lamports, paid, fpc, freq, queue, spent, unseen, funds, spends>>

SeqFundMCMPDAs ==
    /\ fpc = "chain" /\ ftodo # {} /\ ~Reusable("fund", FundChainInput)
    /\ queue' = ResolveFundingTargets(fch, freq[fch]) /\ fpc' = "pay"
    /\ UNCHANGED <<vars, lamports, paid, freq, ftodo, spent, unseen, funds, spends>>

\* The operation's key is its input.
OpFundKeyInput_Amount(t) == [to |-> 0, amount |-> t.amount]
OpFundKeyInput_PerRun(t) == [to |-> t.to, amount |-> t.amount, run |-> funds]
OpFundKeyInput(t) == [to |-> t.to, amount |-> t.amount]

Others == <<accts, ds, pc, req, todo, local, agg, changes, stale, counters>>

\* The transfer lands: the deployer pays the amount and the fee.
Pay(t) ==
    LET n == Cardinality({p \in paid : p.to = t.to /\ p.amount = t.amount})
    IN  /\ lamports[fch] >= t.amount + Fee
        /\ lamports' = [lamports EXCEPT ![fch] = @ - (t.amount + Fee)]
        /\ paid' = paid \cup {[to |-> t.to, amount |-> t.amount, n |-> n + 1]}

\* The transfer does not land: refused before it is sent, or failed on the chain,
\* which charges the fee all the same.
PayNothing ==
    /\ \E f \in {0, Fee} : f <= lamports[fch] /\ lamports' = [lamports EXCEPT ![fch] = @ - f]
    /\ paid' = paid

SeqFundSolanaMCMPDAs ==
    /\ fpc = "pay" /\ queue # <<>>
    /\ Head(queue).amount = 0 \/ Reusable("fund", OpFundKeyInput(Head(queue)))
    /\ queue' = Tail(queue)
    /\ UNCHANGED <<vars, lamports, paid, fpc, freq, ftodo, spent, unseen, funds, spends>>

MustPay ==
    /\ fpc = "pay" /\ queue # <<>>
    /\ Head(queue).amount # 0 /\ ~Reusable("fund", OpFundKeyInput(Head(queue)))

OpFundKey ==
    /\ MustPay /\ Pay(Head(queue))
    /\ Report("fund", OpFundKeyInput(Head(queue)), None)
    /\ queue' = Tail(queue)
    /\ UNCHANGED <<Others, fpc, freq, ftodo, spent, unseen, funds, spends>>

FundChainDone ==
    /\ fpc = "pay" /\ queue = <<>>
    /\ Report("fund", FundChainInput, None)
    /\ ftodo' = ftodo \ {fch} /\ fpc' = "chain"
    /\ UNCHANGED <<Others, lamports, paid, freq, queue, spent, unseen, funds, spends>>

FundEnd == fpc' = "idle" /\ freq' = <<>> /\ ftodo' = {} /\ queue' = <<>> /\ spent' = {}

buildOutput ==
    /\ fpc = "chain" /\ ftodo = {}
    /\ FundEnd /\ UNCHANGED <<vars, lamports, paid, unseen, funds, spends>>

\* A transfer whose amount and fee the balance does not cover fails, and so does
\* the run.
Insufficient ==
    /\ MustPay /\ lamports[fch] < Head(queue).amount + Fee
    /\ PayNothing
    /\ FundEnd /\ UNCHANGED <<vars, unseen, funds, spends>>

\* A transfer fails, or lands and its result is lost.
FundFail ==
    /\ MustPay /\ fails < MaxFails /\ fails' = fails + 1
    /\ \/ PayNothing /\ UNCHANGED unseen
       \/ Pay(Head(queue)) /\ unseen' = TRUE
    /\ FundEnd
    /\ UNCHANGED <<accts, ds, reports, pc, req, todo, local, agg, changes, stale, runs, bundles, deletes,
                   funds, spends>>

\* The deployer key pays for something else while the changeset runs.
Spend(c) ==
    /\ fpc = "pay" /\ c = fch /\ spends < MaxSpends /\ spends' = spends + 1
    /\ \E n \in 1..lamports[c] : lamports' = [lamports EXCEPT ![c] = @ - n]
    /\ spent' = spent \cup {c}
    /\ UNCHANGED <<vars, paid, fpc, freq, ftodo, queue, unseen, funds>>

FundRun ==
    \/ ReuseFunding \/ SeqFundMCMPDAs \/ SeqFundSolanaMCMPDAs \/ OpFundKey
    \/ FundChainDone \/ buildOutput \/ Insufficient

FundInit ==
    /\ lamports = [c \in Chains |-> Balance] /\ paid = {} /\ fpc = "idle"
    /\ freq = <<>> /\ ftodo = {} /\ queue = <<>> /\ spent = {} /\ unseen = FALSE /\ funds = 0 /\ spends = 0

SolanaNext ==
    \/ fpc = "idle" /\ DeployNext /\ UNCHANGED fundVars
    \/ \E i \in FundInputs : StartFund(i)
    \/ FundRun \/ FundFail
    \/ \E c \in Chains : Spend(c)

SolanaInit == Init /\ FundInit
SolanaSpec == SolanaInit /\ [][SolanaNext]_allVars
SolanaFairSpec ==
    SolanaSpec /\ WF_allVars(Run /\ UNCHANGED fundVars) /\ WF_allVars(FundRun)
      /\ \A i \in Inputs : SF_allVars(fpc = "idle" /\ Start(i) /\ UNCHANGED fundVars)

----------------------------------------------------------------------------
(* Properties *)

Received(to, amount) == \E p \in paid : p.to = to /\ p.amount = amount

\* When the changeset succeeds, the PDA of each instance now recorded has got
\* its amount, in this bundle or an earlier one, unless refs of the set were
\* deleted or replaced since the bundle began: the report of a chain is keyed by
\* its input, which has no refs (SeqFundMCMPDAs; OpFundKey has no chain in its key).
PdasFunded ==
    [][ fpc = "chain" /\ ftodo = {} /\ fpc' = "idle" =>
          \A c \in DOMAIN freq : <<c, freq[c].qual>> \notin moved \cup replaced =>
             \A n \in 1..4 :
                LET t == ResolveFundingTargets(c, freq[c])[n]
                IN  t.amount # 0 => Received(t.to, t.amount) ]_allVars

NoWrap(f) == f.amount["proposerMCM"] + f.amount["cancellerMCM"] + f.amount["bypasserMCM"]
               + f.amount["timelock"] <= MaxUint64

\* What the last n of the four targets of f are to get.
Owed(f, n) ==
    (IF n >= 1 THEN f.amount["bypasserMCM"] ELSE 0)
      + (IF n >= 2 THEN f.amount["cancellerMCM"] ELSE 0)
      + (IF n >= 3 THEN f.amount["proposerMCM"] ELSE 0)
      + (IF n >= 4 THEN f.amount["timelock"] ELSE 0)

\* What a run may lack is only fees: at each transfer the balance, and a fee for
\* each target before it, cover the amounts that are left, unless the sum
\* overflowed uint64 or others spent.  A balance at or just above the sum passes
\* validateDeployerBalance, which leaves the fees out, and the run may still fail
\* at a later transfer (Insufficient).
ShortOnlyByFees ==
    MustPay /\ NoWrap(freq[fch]) /\ fch \notin spent =>
       lamports[fch] + Fee * (4 - Len(queue)) >= Owed(freq[fch], Len(queue))

\* In one bundle no PDA gets an amount twice, however often the changeset is run
\* and fails; only the lost result of a transfer that landed makes a retry pay
\* again (OpFundKey's report).
PaidOnce == bundles = 0 /\ ~unseen => \A p \in paid : p.n = 1

============================================================================
