------------------------- MODULE TransferToTimelock -------------------------
(***************************************************************************)
(* The transfer-to-timelock changeset and its three chain families:        *)
(*   mcms/changesets/transfer-to-timelock/changeset.go  (Apply)            *)
(*   mcms/evm/transfer-to-timelock, mcms/solana/transfer-to-timelock,      *)
(*   mcms/stellar/transfer-to-timelock                                     *)
(*                                                                         *)
(* Ownership moves in two steps: the deployer sends transferOwnership, and *)
(* the timelock accepts through a proposal that is signed, delayed and     *)
(* executed later, possibly while the changeset runs again.  A failed      *)
(* Apply returns no proposal although its transfers are on chain.  Runs in *)
(* the same bundle reuse the reports of operations and sequences.          *)
(***************************************************************************)
EXTENDS Integers, Sequences

CONSTANTS
    Chains,     \* chain selectors (naturals: Apply sorts them)
    Family,     \* [Chains -> chain family]
    Contracts,  \* ownable contracts
    Bypassers,  \* those that are Bypasser MCMs
    Fleets,     \* sets of inputs [by: chain -> sequence of contracts, only:
                \* OnlyAcceptOwnership, bypass: whether the timelock action is bypass]
    Deployer, Timelock, Nobody,
    NoInput,    \* no run is in progress
    MaxFails,   \* bound: failed runs, lost results and lost outputs
    Returnable, \* contracts the timelock may give back
    MaxReturns  \* bound: ownership given back to the deployer

Families == {"evm", "solana", "stellar"}

ASSUME ChainsAssumption == Chains \subseteq Nat /\ Family \in [Chains -> Families]
Inputs == UNION Fleets

ASSUME InputsAssumption ==
    \A i \in Inputs :
       /\ DOMAIN i = {"by", "only", "bypass"} /\ {i.only, i.bypass} \subseteq BOOLEAN
       /\ DOMAIN i.by \in (SUBSET Chains) \ {{}}
       /\ \A c \in DOMAIN i.by : i.by[c] \in Seq(Contracts) \ {<<>>}
ASSUME BoundsAssumption == MaxFails \in Nat /\ MaxReturns \in Nat
ASSUME AccountsAssumption ==
    /\ Deployer # Timelock /\ Deployer # Nobody /\ Timelock # Nobody
    /\ NoInput \notin Inputs

VARIABLES
    fleet,           \* the inputs the operator submits
    owner, pending,  \* [Contracts -> account]: on-chain owner and pending owner
    reports,         \* successful reports of the bundle
    proposals,       \* batches of accept operations waiting for execution
    pc, req,         \* step and input of the run in progress
    todo,            \* chains Apply has not finished
    queue,           \* contracts of the current chain still to be handled
    batch,           \* contracts of the current chain with an accept operation
    agg,             \* batches of the finished chains
    refused,         \* contract an accept-only run failed on for want of a pending owner
    stale,           \* an ownership was given back while the bundle had reports
    fails, returns

chainVars == <<queue, batch>>
applyVars == <<req, todo, chainVars, agg>>
counters == <<fails, returns>>
vars == <<fleet, owner, pending, reports, proposals, pc, applyVars, refused, stale, counters>>

NoReports == [seq |-> {}, transfer |-> {}, op |-> {}]
Reusable(set, k) == \E r \in set : r.k = k
OutputOf(set, k) == (CHOOSE r \in set : r.k = k).out

ContractsOf(i) == UNION {{i.by[c][n] : n \in DOMAIN i.by[c]} : c \in DOMAIN i.by}

----------------------------------------------------------------------------
(* Apply *)

\* EVM and Solana reject duplicate contracts and verify the owners first; Stellar
\* verifies only the MCMS refs, and that no Bypasser MCM accepts by a bypass.
validateContractOwner(c) == owner[c] \in {Timelock, Deployer}
validateContracts(cs) ==
    /\ \A n, k \in DOMAIN cs : cs[n] = cs[k] => n = k
    /\ \A n \in DOMAIN cs : validateContractOwner(cs[n])
validateBypassTargets(cs, bypass) == bypass => \A n \in DOMAIN cs : cs[n] \notin Bypassers
Verified(i) ==
    \A c \in DOMAIN i.by :
       IF Family[c] = "stellar" THEN validateBypassTargets(i.by[c], i.bypass)
       ELSE validateContracts(i.by[c])

Start(i) ==
    /\ pc = "idle" /\ Verified(i)
    /\ req' = i /\ todo' = DOMAIN i.by /\ agg' = {} /\ pc' = "chain" /\ refused' = Nobody
    /\ UNCHANGED <<fleet, owner, pending, reports, proposals, chainVars, stale, counters>>

\* The chain Apply is at: chain selectors are visited in ascending order.
ch == CHOOSE c \in todo : \A d \in todo : c <= d
SeqKey_NoContracts == [ch |-> ch, only |-> req.only]
SeqKey == [ch |-> ch, cs |-> req.by[ch], only |-> req.only, bypass |-> req.bypass]

ReuseChain ==
    /\ pc = "chain" /\ todo # {} /\ Reusable(reports.seq, SeqKey)
    /\ agg' = agg \cup OutputOf(reports.seq, SeqKey)
    /\ todo' = todo \ {ch}
    /\ UNCHANGED <<fleet, owner, pending, reports, proposals, pc, req, chainVars, refused, stale, counters>>

StartChain ==
    /\ pc = "chain" /\ todo # {} /\ ~Reusable(reports.seq, SeqKey)
    /\ queue' = req.by[ch] /\ batch' = {}
    /\ pc' = "contract"
    /\ UNCHANGED <<fleet, owner, pending, reports, proposals, req, todo, agg, refused, stale, counters>>

\* EVM puts the chain's accept transactions in one batch; Solana and Stellar
\* return a batch per contract.
ChainBatches_KeepEmpty == IF Family[ch] = "evm" THEN {batch} ELSE {{c} : c \in batch}
ChainBatches ==
    IF Family[ch] = "evm" THEN {batch} \ {{}} ELSE {{c} : c \in batch}

ChainDone ==
    /\ pc = "contract" /\ queue = <<>>
    /\ reports' = [reports EXCEPT !.seq = @ \cup {[k |-> SeqKey, out |-> ChainBatches]}]
    /\ agg' = agg \cup ChainBatches
    /\ todo' = todo \ {ch} /\ pc' = "chain" /\ batch' = {}
    /\ UNCHANGED <<fleet, owner, pending, proposals, req, queue, refused, stale, counters>>

\* buildOutput: the accept operations become a timelock proposal.
BuildOutput ==
    /\ pc = "chain" /\ todo = {}
    /\ proposals' = proposals \cup agg
    /\ pc' = "idle" /\ agg' = {} /\ req' = NoInput
    /\ UNCHANGED <<fleet, owner, pending, reports, todo, chainVars, refused, stale, counters>>

\* Apply returns an error, without a proposal, or the process dies.
Return ==
    /\ pc' = "idle" /\ todo' = {} /\ queue' = <<>> /\ batch' = {} /\ agg' = {}
    /\ req' = NoInput

Abort == fails < MaxFails /\ fails' = fails + 1 /\ Return

\* The current contract is done, with or without an accept operation.
Handled(B) ==
    /\ batch' = batch \cup B
    /\ queue' = Tail(queue)
    /\ pc' = "contract"
    /\ UNCHANGED <<fleet, req, todo, agg>>

InFamily(f) == pc = "contract" /\ queue # <<>> /\ Family[ch] = f
Contract == Head(queue)

\* What the deployer's transferOwnership does on chain.
Transferred == [pending EXCEPT ![Contract] = Timelock]

----------------------------------------------------------------------------
(* EVM: transferContractToTimelock *)

contractIdempotencyKey_NoContract == [ch |-> ch]
contractIdempotencyKey == [ch |-> ch, c |-> Contract]

EvmOwner ==
    /\ InFamily("evm")
    /\ IF owner[Contract] = Timelock THEN Handled({})
       ELSE IF req.only THEN Handled({Contract})
       ELSE pc' = "transfer" /\ UNCHANGED applyVars
    /\ UNCHANGED <<fleet, owner, pending, reports, proposals, refused, stale, counters>>

\* A transfer by a caller that is not the owner is not sent; it still succeeds.
EvmSend == IF owner[Contract] = Deployer THEN Transferred ELSE pending

EvmTransfer ==
    /\ pc = "transfer"
    /\ pending' = IF Reusable(reports.transfer, contractIdempotencyKey) THEN pending ELSE EvmSend
    /\ reports' = [reports EXCEPT !.transfer = @ \cup {[k |-> contractIdempotencyKey, out |-> {}]}]
    /\ pc' = "reread"
    /\ UNCHANGED <<fleet, owner, proposals, applyVars, refused, stale, counters>>

EvmLoseTransfer ==
    /\ pc = "transfer" /\ ~Reusable(reports.transfer, contractIdempotencyKey)
    /\ pending' = EvmSend
    /\ Abort
    /\ UNCHANGED <<fleet, owner, reports, proposals, refused, stale, returns>>

EvmReread ==
    /\ pc = "reread"
    /\ Handled(IF owner[Contract] = Timelock THEN {} ELSE {Contract})
    /\ UNCHANGED <<fleet, owner, pending, reports, proposals, refused, stale, counters>>

----------------------------------------------------------------------------
(* Solana and Stellar: one operation per contract *)

OpKey == [c |-> Contract, only |-> req.only]

\* The operation returns an accept operation (or none) and keeps its report.
Operation(B) ==
    /\ reports' = [reports EXCEPT !.op = @ \cup {[k |-> OpKey, out |-> B]}]
    /\ Handled(B)

ReuseOperation ==
    /\ Reusable(reports.op, OpKey)
    /\ Handled(OutputOf(reports.op, OpKey))
    /\ UNCHANGED <<pending, reports, refused>>

\* Solana reads the owner before the operation starts.
SolanaOwner ==
    /\ InFamily("solana")
    /\ \/ /\ owner[Contract] = Timelock
          /\ Handled({}) /\ UNCHANGED <<pending, reports, refused>>
       \/ owner[Contract] # Timelock /\ ReuseOperation
       \/ /\ owner[Contract] # Timelock /\ ~Reusable(reports.op, OpKey)
          /\ IF req.only THEN Operation({Contract})
             ELSE pc' = "confirm" /\ UNCHANGED <<applyVars, reports>>
          /\ UNCHANGED <<pending, refused>>
    /\ UNCHANGED <<fleet, owner, proposals, stale, counters>>

\* The transfer instruction fails when the deployer is not the owner.
SolanaConfirm ==
    /\ pc = "confirm"
    /\ IF owner[Contract] = Deployer
       THEN pending' = Transferred /\ pc' = "check" /\ UNCHANGED applyVars
       ELSE Return /\ UNCHANGED pending
    /\ UNCHANGED <<fleet, owner, reports, proposals, refused, stale, counters>>

SolanaCheck ==
    /\ pc = "check"
    /\ Operation(IF owner[Contract] = Timelock THEN {} ELSE {Contract})
    /\ UNCHANGED <<fleet, owner, pending, proposals, refused, stale, counters>>

\* Stellar checks the owner inside the operation.  An accept-only operation never
\* reads the pending owner and always reports that there is none.
StellarOwner ==
    /\ InFamily("stellar")
    /\ \/ ReuseOperation
       \/ /\ ~Reusable(reports.op, OpKey) /\ owner[Contract] = Timelock
          /\ Operation({}) /\ UNCHANGED <<pending, refused>>
       \/ /\ ~Reusable(reports.op, OpKey) /\ owner[Contract] # Timelock /\ req.only
          /\ refused' = Contract
          /\ Return /\ UNCHANGED <<pending, reports>>
       \/ /\ ~Reusable(reports.op, OpKey) /\ owner[Contract] # Timelock /\ ~req.only
          /\ IF owner[Contract] = Deployer THEN pc' = "send" /\ UNCHANGED applyVars ELSE Return
          /\ UNCHANGED <<pending, reports, refused>>
    /\ UNCHANGED <<fleet, owner, proposals, stale, counters>>

StellarSend ==
    /\ pc = "send"
    /\ IF owner[Contract] = Deployer
       THEN pending' = Transferred /\ pc' = "verify" /\ UNCHANGED applyVars
       ELSE Return /\ UNCHANGED pending
    /\ UNCHANGED <<fleet, owner, reports, proposals, refused, stale, counters>>

\* GetPendingOwner must show the transfer; it does not when an earlier proposal
\* accepted the ownership meanwhile.
StellarVerify ==
    /\ pc = "verify"
    /\ IF pending[Contract] = Timelock THEN Operation({Contract})
       ELSE Return /\ UNCHANGED reports
    /\ UNCHANGED <<fleet, owner, pending, proposals, refused, stale, counters>>

\* The transfer reached the chain but its result is lost.
LoseTransfer ==
    /\ pc \in {"confirm", "send"} /\ owner[Contract] = Deployer
    /\ pending' = Transferred
    /\ Abort
    /\ UNCHANGED <<fleet, owner, reports, proposals, refused, stale, returns>>

\* A call fails without effect, or the process dies.
Fail ==
    /\ pc # "idle"
    /\ Abort
    /\ UNCHANGED <<fleet, owner, pending, reports, proposals, refused, stale, returns>>

----------------------------------------------------------------------------
(* The environment *)

\* A batch executes as a whole: every contract must be pending for the timelock.
\* Identical batches of several proposals are kept once.
ExecuteBatch(B) ==
    /\ B \in proposals /\ \A c \in B : pending[c] = Timelock
    /\ owner' = [c \in Contracts |-> IF c \in B THEN Timelock ELSE owner[c]]
    /\ pending' = [c \in Contracts |-> IF c \in B THEN Nobody ELSE pending[c]]
    /\ proposals' = proposals \ {B}
    /\ UNCHANGED <<fleet, reports, pc, applyVars, refused, stale, counters>>

\* The timelock gives a contract back and the deployer accepts.
ReturnOwnership(c) ==
    /\ owner[c] = Timelock /\ pc = "idle" /\ returns < MaxReturns
    /\ returns' = returns + 1
    /\ owner' = [owner EXCEPT ![c] = Deployer]
    /\ pending' = [pending EXCEPT ![c] = Nobody]
    /\ stale' = (stale \/ reports # NoReports)
    /\ UNCHANGED <<fleet, reports, proposals, pc, applyVars, refused, fails>>

\* The next run gets an empty bundle.
NewBundle ==
    /\ pc = "idle" /\ reports # NoReports
    /\ reports' = NoReports /\ stale' = FALSE
    /\ UNCHANGED <<fleet, owner, pending, proposals, pc, applyVars, refused, counters>>

Init ==
    /\ fleet \in Fleets
    /\ owner = [c \in Contracts |-> Deployer] /\ pending = [c \in Contracts |-> Nobody]
    /\ reports = NoReports /\ proposals = {} /\ pc = "idle"
    /\ req = NoInput /\ todo = {} /\ queue = <<>> /\ batch = {}
    /\ agg = {} /\ refused = Nobody /\ stale = FALSE /\ fails = 0 /\ returns = 0

Step ==
    \/ ReuseChain \/ StartChain \/ ChainDone \/ BuildOutput
    \/ EvmOwner \/ EvmTransfer \/ EvmReread
    \/ SolanaOwner \/ SolanaConfirm \/ SolanaCheck
    \/ StellarOwner \/ StellarSend \/ StellarVerify

Batches == SUBSET Contracts

Next ==
    \/ \E i \in fleet : Start(i)
    \/ Step
    \/ EvmLoseTransfer \/ LoseTransfer \/ Fail
    \/ \E B \in Batches : ExecuteBatch(B)
    \/ \E c \in Returnable : ReturnOwnership(c)
    \/ NewBundle

Spec == Init /\ [][Next]_vars

\* A started run proceeds; every input but the accept-only ones is submitted
\* again and again, sometimes with a new bundle; a proposal that can be executed
\* is.
FairSpec ==
    /\ Spec
    /\ WF_vars(Step)
    /\ \A i \in {j \in Inputs : ~j.only} : SF_vars(i \in fleet /\ Start(i))
    /\ SF_vars(NewBundle)
    /\ SF_vars(\E B \in Batches : ExecuteBatch(B))

----------------------------------------------------------------------------
(* Properties *)

\* The types of the variables, and how a run's bookkeeping goes with its step: no
\* empty batch is ever proposed, and contracts are left over only inside a chain.
TypeOK ==
    /\ owner \in [Contracts -> {Deployer, Timelock}]
    /\ pending \in [Contracts -> {Timelock, Nobody}]
    /\ reports \in [seq: SUBSET [k: [ch: Chains, cs: Seq(Contracts), only: BOOLEAN, bypass: BOOLEAN],
                                out: SUBSET (Batches \ {{}})],
                   transfer: SUBSET [k: [ch: Chains, c: Contracts], out: {{}}],
                   op: SUBSET [k: [c: Contracts, only: BOOLEAN], out: Batches]]
    /\ proposals \subseteq Batches \ {{}} /\ agg \subseteq Batches \ {{}}
    /\ pc \in {"idle", "chain", "contract", "transfer", "reread", "confirm", "check", "send", "verify"}
    /\ fleet \in Fleets /\ req \in fleet \cup {NoInput} /\ todo \subseteq Chains
    /\ pc = "idle" <=> req = NoInput
    /\ pc # "idle" => todo \subseteq DOMAIN req.by
    /\ pc \notin {"idle", "chain"} => todo # {}
    /\ queue \in Seq(Contracts) /\ batch \subseteq Contracts
    /\ pc \in {"transfer", "reread", "confirm", "check", "send", "verify"} => queue # <<>>
    /\ pc \in {"idle", "chain"} => queue = <<>> /\ batch = {}
    /\ refused \in Contracts \cup {Nobody} /\ stale \in BOOLEAN
    /\ fails \in 0..MaxFails /\ returns \in 0..MaxReturns

Accepting(c) == \E B \in agg : c \in B

\* When Apply is about to return its proposal, each contract is owned by the
\* timelock already, or its transfer is on chain and its acceptance is in the
\* proposal: no contract is forgotten, whichever earlier run sent the transfer,
\* failed, or accepted it meanwhile.  (An ownership given back makes the reports
\* of the same bundle stale.)
ProposalCompletes ==
    (pc = "chain" /\ todo = {} /\ ~req.only /\ ~stale) =>
       \A c \in ContractsOf(req) :
          owner[c] = Timelock \/ (pending[c] = Timelock /\ Accepting(c))

----------------------------------------------------------------------------
(* The inductive invariant behind ProposalCompletes.                       *)

\* The deployer's transfer of c is on chain, accepted or not.
Sent(c) == owner[c] = Timelock \/ pending[c] = Timelock

\* ... and, unless accepted, its acceptance is in B.
Covered(c, B) == Sent(c) /\ (owner[c] = Timelock \/ c \in B)

\* A report is a promise that still holds when a later run reuses it.
ReportsTruthful ==
    ~stale =>
       /\ \A r \in reports.transfer : Sent(r.k.c)
       /\ \A r \in reports.op : ~r.k.only => Covered(r.k.c, r.out)
       /\ \A r \in reports.seq : ~r.k.only => \A n \in DOMAIN r.k.cs : Covered(r.k.cs[n], UNION r.out)

\* What a run has left behind it is covered: finished chains by the aggregated
\* batches, handled contracts of the current chain by its batch.
Left(c) == \E n \in DOMAIN queue : queue[n] = c
FinishedCovered ==
    \A d \in DOMAIN req.by \ todo : \A n \in DOMAIN req.by[d] : Covered(req.by[d][n], UNION agg)
CurrentCovered ==
    \A n \in DOMAIN req.by[ch] : Left(req.by[ch][n]) \/ Covered(req.by[ch][n], batch)
RunCovers ==
    (pc # "idle" /\ ~req.only /\ ~stale) =>
       /\ FinishedCovered
       /\ pc # "chain" => CurrentCovered
       /\ pc \in {"reread", "check", "verify"} => Sent(Contract)

IInv == TypeOK /\ ReportsTruthful /\ RunCovers

\* An accept-only run fails for want of a pending owner only when the contract
\* has none.
OnlyAcceptRefused == refused # Nobody => pending[refused] # Timelock

\* Every contract the operator submits ends up owned by the timelock, although proposals overlap (a
\* batch with an accepted contract can never be executed) and runs fail.
EventuallyOwned == <>[](\A i \in fleet : \A c \in ContractsOf(i) : owner[c] = Timelock)
=============================================================================
