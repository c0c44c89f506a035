# TLA+ models of cld-changesets

`cld-changesets` is a library of *changesets*: operator-run programs that deploy
and govern Chainlink contracts on EVM, Solana and Stellar chains. A changeset has
`VerifyPreconditions` and `Apply`; `Apply` runs *sequences* of *operations* through
the operations framework, sends transactions on several chains, and returns a
datastore (address refs) and timelock proposals. None of that is atomic. A run can
fail after any transaction, a transaction can be mined although its result is
lost, the operator runs the changeset again with the same or another input, and
the framework replaces an operation or a sequence by its earlier *report* when the
input and idempotency key are the same. What these modules ask is whether the
datastore, the chains and the reports stay consistent under all of this.

## Inventory

| component | state | operations | hard behaviour | correct when |
|---|---|---|---|---|
| deploy changeset (`mcms/changesets/deploy`) | datastore output, aggregated refs | `Apply`: chain loop, merge, record | a failed `Apply` records nothing; chain reports are reused | only existing contracts of the right key are recorded, whole sets only |
| EVM deploy (`mcms/evm/deploy`) | contracts, MCM config, timelock roles, reports | deploy, deploy-with-config, grant roles | crash between steps, gas-boost retry, report reuse across chains and configs | recorded MCMs configured, timelock wired, retries deploy nothing twice |
| Stellar deploy (`mcms/stellar/deploy`) | ledger entries at derived contract IDs | resolve identity, deploy, initialize, set config | concurrent runs, adoption of what others left, artifact upgrades | one instance per artifact, recorded contracts initialized and wired |
| Solana deploy (`mcms/solana/deploy`) | program, access controller, MCM and timelock accounts | deploy programs, initialize, add access | random keys, two transactions in one operation, readiness timeout, deleted refs | recorded sets complete and wired, members configured |
| transfer-to-timelock (three families) | owner and pending owner, proposals | transfer, verify, propose acceptance | failed run drops proposals, overlapping atomic batches, races with execution | a proposal completes every transfer; all contracts end with the timelock |
| deploy-custom-topology | contracts, datastore, proposals by qualifier | deploy, wire, transfer | partial datastore returned on error, accepts assigned to proposals by address | whole chains recorded, each transfer accepted by its own timelock's proposal |
| grant-role, set-config, firedrill | timelock roles, signer configs, roots, proposals | direct call or proposal | read before write, skipped and reused targets, roots signed meanwhile | a successful run has done, or proposes, all it was asked |
| fund-mcm-pdas | balances of deployer and PDAs | transfers | lost results, equal amounts, sum overflow | every PDA paid, once |
| datastore changesets (`datastore`; `catalog` aliases them) | refs, metadata | create, update, delete, delete several | outputs are copies of the whole store, deletions staged until the merge | a changeset changes what it names and nothing else |
| job distributor (`jd`) | nodes, jobs, proposals | register, update, disable; propose, revoke, delete | lost answers, one node of several fails, nodes answer meanwhile | unique keys, success means every item is done |
| LINK token (`link`, `tokens/link`) | token contracts and mints, refs, address book | four deploying changesets, a transfer proposal | parallel chains, partial output, report keys | recorded tokens exist |
| native transfers (`evm/changesets`) | balance, nonce, mempool | pay | a retry while the payment is pending or mined | no silent double payment |
| CRE workflows (`cre`) | outside the repository | run the CRE command line tool | | |
| family registry, role helpers | registrations | register, look up | duplicate registration | one sequence per family |
| readers, test utilities, older Solana packages, legacy | none of their own, or superseded | | | |

The components interact through three pieces of shared state: the chains, the
datastore that one run writes and the next reads, and the report store of the
operations bundle. Between runs other changesets act on the same contracts
(ownership transfers, role revocations, ref deletions).

## Modules

| module | models |
|---|---|
| `DeploymentRecord` | abstract promise of a deploy changeset: `Create` a contract, `Record` refs of existing contracts of that key in one step, `Delete` a ref |
| `EvmMcmsDeploy` | `Apply` with the EVM sequence, sub-sequences, operations and reports |
| `EvmMcmsDeployProofs` | TLAPS proofs about `EvmMcmsDeploy` |
| `StellarMcmsDeploy` | the Stellar sequence, run by several concurrent processes |
| `TransferToTimelock` | `Apply` with the EVM, Solana and Stellar sequences, and the execution of the proposals |
| `SolanaMcmsDeploy` | `Apply` with the Solana sequence and its operations |
| `FundMcmPdas` | the fund-mcm-pdas changeset, EXTENDS `SolanaMcmsDeploy`: both act on one datastore, one bundle and one deployer |
| `CustomTopology` | the deploy-custom-topology changeset with its EVM sequence |
| `Governance` | set-config, grant-role and firedrill over three families, and the execution of their proposals |
| `Datastore` | the datastore changesets, operations and delete sequence |
| `JobDistributor` | the node and job changesets and the service they call |
| `Tokens` | LINK token deployments and native payments |
| `StellarMcmsDeployProofs`, `TransferToTimelockProofs`, `CustomTopologyProofs`, `GovernanceProofs` | TLAPS proofs about the module of the name |
| `SolanaProofs` | TLAPS proofs about `SolanaMcmsDeploy` and `FundMcmPdas` |
| `AuxiliaryProofs` | TLAPS proofs about `Datastore`, `JobDistributor` and `Tokens` |
| `ProofLemmas` | what the proofs share: the least of a set of chains, lists as functions, updates that change nothing else |
| `MC...` | values of the constants for TLC; `MCAuxiliary` composes the last three, which share no state, so that a behaviour is one of theirs |

### EvmMcmsDeploy

`code` is each chain's list of contracts (address = position, 0 the zero
address): deploy input, signer config, role holders. `ds` is the datastore,
`reports` the report store with one set of `[k, out]` records for each kind of
operation or sequence; `k` holds the input and the idempotency key, exactly what
the framework compares. The rest is the program counter and the locals of
`Apply` (`req`, `todo`, `agg`), of the chain's sequence (`existing`, `fresh`,
`target`) and of the grant sequence (`grants`, `rix`, `pending`).

One action is one transaction or one reused report: `Start`, `ReuseChain`,
`StartChain`, `ReuseMCMSequence`, `ReuseDeploy`, `Deploy`, `SetConfig`,
`CheckAdmin`, `InspectRole`, `GrantRole`, `GrantsDone`, `ChainDone`, `Finish`.
`LoseDeploy`, `LoseSetConfig` and `LoseGrant` are transactions that are mined
although the result is lost, followed by the gas-boost retry or the error;
`Fail` is every other error return. `LoseReports` starts a fresh bundle,
`DeleteRef` is the delete-address-ref changeset, and `RevokeDeployer` is the
timelock revoking the deployer's admin role.

### StellarMcmsDeploy

A contract ID is the tuple <<chain, type, qualifier, attempt>> (hashing is taken
to be injective); `ledger` maps it to WASM hash, owner, config and the timelock's
role holders. A process resolves the identity (first free attempt or first with
its own artifact), creates, inspects, initializes and configures, one ledger call
per action, and records at the end. Two processes interleave at every call. The
artifact release may change from one run to the next. `TransferOwnership` moves
an MCM to governance between two calls of a run. When that falls between reading the
owner and setting the config, the contract refuses the call and the run fails; no
property depends on this race.

### TransferToTimelock

`owner` and `pending` are the two-step ownership of the contracts, `proposals`
the batches of accept calls waiting for execution (identical batches of several
proposals are kept once). EVM puts all accepts of a chain in one atomic batch;
Solana and Stellar make a batch per contract. `ExecuteBatch` happens at any
time, also in the middle of a run; ownership is given back (`ReturnOwnership`)
only between runs. An input's `bypass` says whether its proposals bypass the
timelock's delay. The preconditions differ by family: EVM and Solana check the
contracts and their owners (`validateContracts`), Stellar only refuses a bypass
proposal that is to accept for a Bypasser MCM (`validateBypassTargets`,
`Bypassers`).

### SolanaMcmsDeploy and FundMcmPdas

`accts` is the list of all accounts ever created (the position stands for the
random key or seed), `ds` maps a chain and qualifier to one slot per program,
access controller, MCM and timelock. `loadDeployedAddresses` reads the slots
back the way the code does: a missing program is taken from an instance's
address, and an instance of another program than the recorded one is an error.
Each operation runs its transactions as separate steps (`Initialize` and
`SetConfig` of an instance, one `AddAccess` per role and member). An operator
may delete refs between runs. `stale`, `moved` and `replaced` are ghosts: the
sets an old chain report was written to after a deletion, those an operator
deleted refs of in the bundle, and those some of whose refs `Apply` replaced by
others in the bundle. `FundMcmPdas` adds the balances and the transfers, with
uint64 sums (`MaxUint64` = 7 in the run, so that a sum wraps). Each transfer is
a transaction of its own, whose `Fee` the deployer pays beside the amount, also
when the transaction fails on the chain (`PayNothing`); the precondition
compares the balance with the bare sum. A run that it accepts can thus fail at a
later transfer (`Insufficient`), and `ShortOnlyByFees` says that, unless the sum
wraps or others spend, fees are all it lacks. The rent-exempt minimum of an
account and the lamports that deploy runs spend between fundings are left out.
The ghost `unseen` marks a transfer that landed and whose result was lost, the
one case in which a retry pays again.

### CustomTopology

An input gives each chain a list of MCM and timelock specs that refer to each
other by ref. The sequence never reads the datastore; `refToAddr` and the
reports are all it knows. Each deployment, config, grant and transfer is a step,
and has a `Lose...` action in which the transaction is mined and its result
lost; `buildOutput` sorts the accept batches into one proposal per qualifier by
the addresses they call. Of two specs of one type and qualifier the datastore
ref is the last one's (`refs` of an output), while resolving who holds a role
takes the first of the list (`first`). A failed run records what `ErrorRefs`
says. Two ghosts mark what the code does not promise: `unmoved`, targets that
the run left alone because their owner is someone else or that have moved on
since the report it reused, and `reset`, MCMs whose signer config was replaced
by that of another input. The last happens in one bundle: the deploy operation
has the MCM's ref, type and qualifier as its key, so an input that gives the ref
another config gets the same contract and replaces its signers, and a third run
with the first input finds its chain's report and changes nothing back.

Two things the properties suppose of an input are checked nowhere
(`OwnRefs`, `OwnTargets`): two specs of one type and qualifier are filed under one
ref, where the last replaces the others, and a contract that two timelocks are to
take turns up in the proposals of both.

### Governance

One sequence per chain for each of the three changesets. A call is sent (when the
deployer owns the target) or collected; batches are per chain on EVM, per target
elsewhere. The Stellar operation reads config, then root, then writes; signers
may set a root at any of these points, roles may be revoked, proposals executed.
`overridden` is a ghost of what held at some time in the bundle and was undone by
others: what a successful run is held to is that what it was asked holds at its end,
or did hold in this bundle until somebody undid it.

### Datastore, JobDistributor, Tokens

`Datastore`: `out` is the copy an operation returns, with staged deletions; it is
merged (`MergeOutput`) or lost. A reused report returns its old copy. `reused`
is a ghost that marks a run which did so. `JobDistributor`: nodes and jobs of the
service, one call per step, which fails without effect or loses its answer; nodes
answer proposals at any time. `blind` marks an update made without its conflict
check, which the code does when the lookup fails. `Tokens`: the newer LINK
changeset goes through reports, the older three do not; `DeployLinkToken` works
on all chains at once. A payment reads the latest mined nonce, is sent, and waits;
the mempool keeps competing transactions until one of them is mined.

## Runs

| run | what it checks | bounds |
|---|---|---|
| `evm_deploy` | types, recorded MCMs configured, all or nothing, wired, at most one deploy per input, refinement of `DeploymentRecord`, eventual record of every chain of every input | 2 chains, 2 inputs run any number of times, 1 failure, 1 lost result or report store, 1 deleted ref (`Deletable` says which) |
| `evm_deploy_stale_report` | finding: a recorded ref is overwritten from a stale chain report | 2 chains |
| `stellar_deploy_race` | types, one instance, recorded contracts initialized and wired | 2 processes with different configs, 1 fault, 2 attempts |
| `stellar_deploy_upgrade` | one instance, refinement, eventual record over two artifact releases | 2 chains, 2 releases, 1 fault |
| `stellar_deploy_topology` | finding: an adopted timelock keeps the MCMs of an interrupted run | 2 releases, 2 faults |
| `transfer_families` | a proposal completes its run's transfers, contracts end with the timelock | two fleets: 2 EVM contracts with overlapping inputs, or 1 contract of each family with accept-only runs; 1 failure, 1 return |
| `transfer_only_accept` | finding: a Stellar accept-only run is always refused | 1 contract |
| `topology_retry` | types, records of whole chains, every transfer in the right proposal, eventual record | 2 chains, 2 qualifiers, inputs that differ in delay, signer config and targets, 1 failure |
| `governance` | types, roots on Stellar, direct runs effective, proposals effective | 3 chains of 3 families, 2 MCMs, 2 configs, 3 runs, 1 failure, 1 act of others |
| `solana_deploy` | types, members configured, wired, complete records, eventual record, what an accepted funding run may lack, PDAs funded, paid once | 2 chains, 2 deploys, 2 fundings, 1 failure, 1 fresh bundle, 1 deletion, 1 other payment |
| `auxiliary` | unique node keys, every job proposed on every node it lists, deletions; datastore changes exact; recorded tokens exist, payments | 4 datastore or 4 distributor or 3 token runs, 2 nodes, proposals of 2 jobs (one of them for both nodes), 2 lost or failed calls, 1 fresh bundle |
| `datastore_delete` | finding: the second deletion of a bundle is lost | 2 refs |

The bounds leave room for what matters: a second chain for keys that forget the
chain, a second run to meet every report of the first, a failure or loss at any
transaction, a second process for races, a second artifact for salt attempts,
overlapping batches for the starvation of a proposal, equal and overflowing
amounts. Contracts of different qualifiers are independent except through keys,
which the refinement and `NoForeignAccept` cover. Every constant named `Max...`
is a bound and a guard of its action, except `MaxUint64`, which is the width of an
integer. Deadlock is not checked where a behaviour ends when its runs are used up
(`evm_deploy`, `governance`, `solana_deploy`, `auxiliary`); the Stellar, transfer
and topology runs check it.

### Fairness

A started run makes progress (the code is a straight line of calls, each of
which returns or fails): weak fairness of its steps, for each process. The
operator repeats the changeset until it succeeds: strong fairness of starting
each input, since runs of other inputs and processes disable its start; strong
fairness of getting a fresh bundle in the transfer model. `EventuallyRecorded`
of the EVM model speaks of every chain of every input: a chain that a failed run
had finished must be recorded by a later run, from its report. It promises
nothing once a ref was deleted. The Solana and topology models likewise have
weak fairness of the running changeset and strong fairness of starting each
input; the Solana run promises a record only for an input that is run alone
until it succeeds. Signed proposals are executed when they can be: strong
fairness of executing some batch. Failures are bounded and never fair. No
fairness is assumed of races, deletions or returned ownership. The governance
and auxiliary runs check safety only and have no fairness.

## Proofs

The theorems hold for every value of the constants that the named ASSUMEs of the
modules allow; TLC evaluates these on every run. They say what the code checks or
what its types give: chain selectors are naturals, an input is a non-empty map
from chains to well-formed targets, the bounds are naturals, absent values are
none of the present ones. Two are restrictions: in the EVM deploy the chains are
finitely many, and in `Governance` a fire drill has no targets, as in the code.

| property | theorem | module |
|---|---|---|
| `EvmMcmsDeploy`: `TypeOK`, `RecordedMCMConfigured`, `AtMostOncePerInput`, `RefinesRecord` | `TypeCorrect`, `ConfiguredBeforeRecorded`, `RetryNeverRedeploys`, `Refinement` | `EvmMcmsDeployProofs` |
| `EvmMcmsDeploy`: `AllOrNothing`, `Wired` | `SetsWhole`, `RecordedWired` | `EvmMcmsDeployProofs` |
| `StellarMcmsDeploy`: `TypeOK`, `OneInstance`, `RecordedInitialized`, `Wired`, `RefinesRecord` | `TypeCorrect`, `SingleInstance`, `RecordedReady`, `WiredTimelock`, `Refinement` | `StellarMcmsDeployProofs` |
| `TransferToTimelock`: `TypeOK`, `ProposalCompletes` | `TypeCorrect`, `ProposalComplete` | `TransferToTimelockProofs` |
| `CustomTopology`: `TypeOK`, `RecordComplete`, `TransfersProposed`, `NoForeignAccept` | `TypeCorrect`, `RecordsWholeChains`, `ProposesItsTransfers`, `AcceptsItsOwn` | `CustomTopologyProofs` |
| `Governance`: `TypeOK`, `RootSignedByCurrent`, `DirectEffective`, `ProposalEffective` | `TypeCorrect`, `RootsSigned`, `DirectRunsDo`, `ProposalsDo` | `GovernanceProofs` |
| `SolanaMcmsDeploy`: `TypeOK`, `GrantedConfigured`, `Wired`, `RecordComplete` | `TypeCorrect`, `MembersConfigured`, `WholeSetsWork`, `SuccessCompletes` | `SolanaProofs` |
| `FundMcmPdas`: `PaidOnce`, `ShortOnlyByFees`, `PdasFunded` | `NotPaidTwice`, `ChecksAllButFees`, `SuccessFunds` | `SolanaProofs` |
| `Datastore`: `AppliedExactly` | `ChangesExact` | `AuxiliaryProofs` |
| `JobDistributor`: `UniqueKeys`, `ProposedEverywhere`, `DeletedOrInactive` | `KeysUnique`, `ProposalsLand`, `DeletionsLand` | `AuxiliaryProofs` |
| `Tokens`: `RecordedTokens`, `PaidTwiceOnlyIfLost` | `RefsNameTokens`, `SecondPayment` | `AuxiliaryProofs` |

None of these properties is inductive. A ref is recorded from what a run has
aggregated, that comes from a sequence's locals or from a report, and a report may
be many runs old; so each inductive invariant says of reports, aggregates and
locals what the property says of the datastore or the chain. TLC found no
violation of any of them on the instances of the runs before it was proved. One
lemma says that each action keeps the invariant, and one at the end puts them
together.

**EVM deploy, contracts (`IInv`).** `ReportsOK`: what a reusable report says is so
on the chain of its key. `RefsOK`: recorded refs and refs about to be recorded are
usable contracts, that is, of that chain, type and qualifier, and configured if
they are MCMs. `SequenceOK`: so are the addresses the running sequence has
collected. `DeployReportsOK`: while nothing is lost, each contract has exactly one
deploy report, which is why a retry cannot deploy it again. The lever is `Grows`:
every step only adds contracts or updates configs and roles, never the deploy
input, and never removes a config. Under `Grows` everything a report or ref claims
stays true, so each action's lemma is left with what the action adds.

**EVM deploy, roles (`WiringInv`).** `RefsWhole` and `ReportsWhole`: sets of the
datastore, of the aggregate and of chain reports are whole and wired, or empty.
`GrantsInOrder`: the grant step that is reached has behind it the roles of the
steps before. `ExecutorFirst`: a timelock that has become its own admin has its
call proxy as executor already. That is what makes the code's early return sound
when the deployer is no longer admin: only the timelock itself can have revoked
the deployer, so the last grant of the sequence was made, and with it all others.
All this is said of runs in which no ref was deleted; a deletion takes a set
apart.

**Stellar deploy (`IInv`).** `AttemptsInOrder` and `Skipped`: the salt attempts of
a key are taken from the first on, and a process that is about to create a contract
has passed only attempts with other artifacts. With that, an artifact cannot occur
twice in a key, whatever number of processes interleave between resolving and
creating. `HoldersUsable`, `RefsUsable`, `ReportsUsable` and `RunUsable`: every
contract that a timelock, a ref, a report or a run names is on the ledger and
initialized. The refinement maps the ledger to the created contracts of
`DeploymentRecord`.

**Transfer (`IInv`).** `ReportsTruthful`: the report of a transfer or of a sequence
is of transfers that were sent, with an accept operation for each contract the
timelock does not own. `RunCovers`: so are the finished chains, and the contracts
of the current one that are no longer in the queue. A report stays truthful when a
proposal is executed, as ownership only advances, until an ownership is given back
(`stale`).

**Custom topology (`IInv`).** What is said of a chain is an operator of the
contracts K, so that one lemma per claim carries it from a state to the next.
The lever is `Grown`: contracts keep their kind, role members and an owner that
is a contract, and an MCM whose config is replaced is marked (`reset`).
`ReportsOK`: a deploy, config or grant report is true of the chain it was made
on, and the report of a chain is whole (`ChainOK`). `AggOK` says that of each
finished chain. `SequenceOK` is about the chain in progress: specs that have
left the queue have their contract, config, roles and accepts (`BehindOK`), and
what the timelock in progress still lacks of its roles and targets is in
`grants` and `takes` (`AheadOK`). A report is keyed by address, an accept batch
is assigned to a proposal by address, and specs are named by refs: the proofs of
`TransfersProposed` and `NoForeignAccept` are about these three agreeing, that
is, that the addresses a proposal resolves from the refs of the output
(`ByRefs`) are those the sequence used (`ByMap`). `FirstInv` is what the first
refs of MCMs need: the first of a type and qualifier is the only one when the
specs' refs are distinct. For the second, `Settled` says that what a batch
accepts goes to its timelock or was left alone; targets that two timelocks take
(`Contested`) are excepted until the input is known to have none. `Settled` is
of the run and not of the reports, since a contract of an old report may have
moved on, and is then marked when the report is reused.

**Governance (`GovInv`, `DoneInv`).** `GovInv` is about types, with `CallsWhole`:
every call that sets a Stellar config clears the root, in whatever batch, report
or aggregate it waits. For `DoneInv`, let `Ever` be what has held at some time in
the bundle; it never shrinks. What an operation's report stands for is in `Ever`
or in the calls the report returns (`ReportsDone`); so is what a finished chain
(`ChainsDone`) and what a target no longer in the list (`TargetsDone`) was asked
for. A report reused after others undid its effect is why `Ever`, and not the
present state, is the invariant.

**Solana deploy (`DeployInv`).** `AcctsOK`: members of access controllers are
configured MCM instances of their chain, and a timelock has access controllers it
may use. `RefsNamed` and `ReportsOK`: refs and reports name accounts of their
chain, kind and program. `SequenceOK`: at each step the sequence holds accounts
for all slots before it; between the two transactions of an operation the account
in question is the last one created. Accounts only gain configs and members
(`Grows`).

**Solana deploy, sets (`SetsInv`).** `Recorded`: slot by slot, what the sequence
holds is what the datastore has or what it will record, and it records only what
was missing. `RolesReported` and `RolesGranted`: the report of the role grants
stands for a timelock that obeys the access controllers it was initialized with.
`ReportsSound`: the report of a chain, written over its set, completes it, and all
reports of a set that no deletion has touched fill the same slots; so writing a
report twice, or another one after it, leaves a set that works. `AggSound` is the
same of the finished chains, and `SetsWired` of the datastore. Sets that an old
report was written to after a deletion are excepted (`stale`).

**Funding (`FundInv`).** `Solvent`: unless others spent or the sum wraps, the balance,
with the fees of the targets already passed added back, covers the amounts that are
left on the chains still to be done. `Once` and `ReportsTrue`:
without a lost result, each payment of the bundle has its report. `PassedPaid`:
finished chains were paid, for the instances their set had. The attempt to prove
`PdasFunded` showed that deletions are not its only exception: a chain that is
deployed again under another config in the same bundle gets a ref replaced
(`replaced`), and the funding report still matches. That needs three deploys, one
more than the run has.

**Datastore (`DSInv`).** `OutputFresh`: an output that waits to be merged is what
its changeset's input makes of the datastore as it still is, as nothing is merged
between the call and the merge; unless it came from an old report. The rest is
what the copies, staged deletions and the merge do to each key.

**Job distributor and tokens (`JDInv`, `DelInv`, `LinkInv`, `NativeInv`).**
`Landed`: while a proposal is under way, the nodes already answered have the
job; `ProposalsReported`: so have the nodes of every report. `ProposeRuns`: each
job of a propose run waits or has a report that names at least one node, unless
an item has failed, so that a run which succeeds has passed over none;
`SequencesReported`: the same of a reused report of the whole sequence.
`DeletionRuns`: after the listing, each job to delete is gone, waits or has
failed; what is gone stays so. `LinkReports`: the report of a token operation is
of a token that exists. `AllSettled` and `LostBefore`: a payment that was mined
before another of the same kind read its nonce was lost sight of.

What stays with TLC: liveness (`EventuallyRecorded`, `EventuallyOwned`) and
whatever needs ENABLED, which this prover does not handle. Every invariant, action
property and refinement that a passing run checks has a theorem.

## Findings

1. `evm_deploy_stale_report`: a chain's report is reused without looking at the
   datastore, so a retried run may overwrite recorded refs.
2. `stellar_deploy_topology`: an initialized timelock is adopted whoever holds its
   roles.
3. `transfer_only_accept`: Stellar accept-only runs never read the pending owner
   and always fail.
4. `datastore_delete`: in a second DeleteResources run of a bundle, the operation
   of a resource type with an empty list finds the first run's report and puts the
   first run's datastore in place of the one with the new deletions.

Some properties name an exception, where the code promises less than one might
expect: a Solana set that an old chain report was written to after a deletion
(`Wired`, `RecordComplete`), amounts whose sum wraps and the fees of the
transfers (`ShortOnlyByFees`), an update made without its conflict check
(`UniqueKeys`), one mint key on two chains (`RecordedTokens`), a topology target
that somebody else owns (`TransfersProposed`), a datastore output taken from an
old report (`AppliedExactly`; finding 4 is what happens then).

The other hazards, each with its line and the properties about it, are in
`PROJECT.json`.

## Not modelled

Encoding (ABI, Borsh, XDR), hashing, logging, signer group structure, gas prices
and delays are data the properties do not tell apart. Signing and scheduling of
proposals is outside the repository; only their execution is kept. Stellar inputs
that name a contract twice are not enumerated (EVM and Solana reject them).

* MCMS readers and ref keys have no state; registration of families happens in
  init functions, before any run.
* The EVM config change A, B, A within one bundle: a reused deploy-with-config
  report hides that a later run has set another config. No run has the three
  configs it needs.
* CRE workflows: each operation prepares files and runs the CRE command line tool
  once; what the tool and its registry do is not in the repository.
* `TransferLinkToken` builds one proposal, with starting op count 0, from values
  it reads; nothing is written.
* The older Solana packages (`pkg/family/solana`) and `legacy` carry the same
  protocols as the packages modelled here, which supersede them. Two differences
  matter to whoever keeps using them: the older Solana sequence's input has no
  chain selector, so its report is shared by chains, and initialization effects
  kept in the dependencies' state are lost when a report is reused.

## Plan

Done: 1 `EvmMcmsDeploy` with proofs, 2 `StellarMcmsDeploy`, 3 `TransferToTimelock`,
4 `CustomTopology` and `Governance`, 5 `SolanaMcmsDeploy` with `FundMcmPdas`,
6 `Datastore`, 7 `JobDistributor`, 8 `Tokens`.

Theorems to come: none of the properties of the runs that the prover can reach is
left. What could be stated beyond them is a refinement of `DeploymentRecord` by
`CustomTopology`, with the owner and the deploy report in the mapping.
