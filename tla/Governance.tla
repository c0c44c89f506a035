----------------------------- MODULE Governance -----------------------------
(***************************************************************************)
(* The changesets that govern a deployed MCMS: set-config, grant-role and  *)
(* firedrill, with their EVM, Solana and Stellar sequences.                *)
(*   mcms/changesets/{set-config,grant-role,firedrill}                     *)
(*   mcms/{evm,solana,stellar}/{set-config,grant-role,firedrill}           *)
(*                                                                         *)
(* All three run one sequence per chain and merge its batch operations.    *)
(* Without MCMS input a sequence sends its transactions; with it nothing   *)
(* is sent and the batches become a timelock proposal, executed later.     *)
(***************************************************************************)
EXTENDS Integers, Sequences, FiniteSets, SequencesExt

CONSTANTS
    Chains,       \* chain selectors (naturals: Apply sorts them)
    Family,       \* chain -> "EVM", "Solana" or "Stellar"
    Governed,     \* <<chain, MCM or "timelock">> the timelock owns, not the deployer
    MCMs, Configs, Accounts,
    RefsOf,       \* chain -> the refs its datastore has for the qualifier
    Inputs,       \* [cs, mcms: whether Input.MCMS is set, by: chain -> targets]
    InitConfig, NoRoot, NoInput,
    MaxRuns,      \* bound: runs of a changeset
    MaxFails,     \* bound: failed runs and fresh bundles
    MaxEnv        \* bound: roots set and roles revoked by others

\* A set-config target is [m, cfg], a grant is [role, to: Seq(Accounts)]; a fire
\* drill has no targets.
Roles == {"PROPOSER", "EXECUTOR", "ADMIN"}

ASSUME ChainsAssumption == Chains \subseteq Nat /\ Governed \subseteq Chains \X (MCMs \cup {"timelock"})
ASSUME FamilyAssumption == Family \in [Chains -> {"EVM", "Solana", "Stellar"}]
ASSUME InputsAssumption ==
    /\ NoInput \notin Inputs /\ InitConfig \in Configs
    /\ \A i \in Inputs :
          /\ i.cs \in {"setConfig", "grantRole", "fireDrill"} /\ i.mcms \in BOOLEAN
          /\ DOMAIN i.by \in (SUBSET Chains) \ {{}}
          /\ \A c \in DOMAIN i.by :
                /\ i.by[c] \in Seq({i.by[c][n] : n \in DOMAIN i.by[c]})
                /\ \A n \in DOMAIN i.by[c] :
                      /\ i.cs = "setConfig" => i.by[c][n].cfg \in Configs
                      /\ i.cs = "grantRole" => i.by[c][n].role \in Roles /\ i.by[c][n].to \in Seq(Accounts)
                      /\ i.cs # "fireDrill"
ASSUME BoundsAssumption == {MaxRuns, MaxFails, MaxEnv} \subseteq Nat

VARIABLES
    mcm,        \* [Chains -> [MCMs -> [cfg, root]]], root: the config it was signed under
    holders,    \* [Chains -> [Roles -> SUBSET Accounts]]: roles of the timelock
    proposals,  \* batches of the proposals returned: a set of sequences
    reports,    \* successful reports of the bundle
    pc, req, todo,
    targets,    \* targets of the chain still to be handled
    need,       \* grantees of the grant in progress
    calls,      \* calls the chain's sequence returns instead of sending
    agg,        \* batches of the finished chains
    overridden, \* what held at some time in this bundle and was undone since
    runs, fails, env

chainVars == <<targets, need, calls>>
vars == <<mcm, holders, proposals, reports, pc, req, todo, chainVars, agg, overridden,
          runs, fails, env>>

NoReports == [op \in {"chain", "op"} |-> {}]
Reusable(op, k) == \E r \in reports[op] : r.k = k
OutputOf(op, k) == (CHOOSE r \in reports[op] : r.k = k).out
Report(op, k, o) == reports' = [reports EXCEPT ![op] = @ \cup {[k |-> k, out |-> o]}]

elems(s) == {s[n] : n \in DOMAIN s}

----------------------------------------------------------------------------
(* The chain, external: what a call does to the contracts *)

Noop == [op |-> "noop"]
SetConfigCall(m, c, clear) == [op |-> "cfg", m |-> m, cfg |-> c, clear |-> clear]
GrantCall(role, a) == [op |-> "grant", role |-> role, a |-> a]

\* What calls in a row leave of an MCM, whose last config stays and whose root any
\* of them may clear, and of a role, whose holders they add to.
ConfigCalls(cs, m) == {n \in DOMAIN cs : cs[n].op = "cfg" /\ cs[n].m = m}
LastOf(N) == CHOOSE n \in N : \A k \in N : k <= n
Configured(old, cs, m) ==
    IF ConfigCalls(cs, m) = {} THEN old
    ELSE [cfg |-> cs[LastOf(ConfigCalls(cs, m))].cfg,
          root |-> IF \E n \in ConfigCalls(cs, m) : cs[n].clear THEN NoRoot ELSE old.root]
Granted(cs, role) == {cs[n].a : n \in {k \in DOMAIN cs : cs[k].op = "grant" /\ cs[k].role = role}}

GovernedCall(c, call) ==
    <<c, IF call.op = "cfg" THEN call.m ELSE "timelock">> \in Governed

\* What holds on the chains: configs, and on Stellar a clear root; role holders.
Held(ms, hs) ==
    {<<c, m, ms[c][m].cfg>> : c \in Chains, m \in MCMs}
      \cup {h \in Chains \X MCMs \X {NoRoot} : ms[h[1]][h[2]].root = NoRoot}
      \cup {h \in Chains \X Roles \X Accounts : h[3] \in hs[h[1]][h[2]]}

Override(old) ==
    overridden' = (old \cup (Held(mcm, holders) \ Held(mcm', holders'))) \ Held(mcm', holders')

Perform(c, cs) ==
    /\ mcm' = [mcm EXCEPT ![c] = [m \in MCMs |-> Configured(@[m], cs, m)]]
    /\ holders' = [holders EXCEPT ![c] = [role \in Roles |-> @[role] \cup Granted(cs, role)]]
    /\ Override(overridden)

----------------------------------------------------------------------------
(* VerifyPreconditions *)

Has(c, refs) == refs \subseteq RefsOf[c]

\* The refs a proposal of the family is built from.
EVMProposalRefs == {"timelock", "mcm", "callproxy"}
SolanaProposalRefs == {"timelock", "mcm"}
StellarProposalRefs == {"timelock", "mcm"}

verifySetConfigEVM(i, c) == i.mcms => Has(c, EVMProposalRefs)
verifySetConfigSolana(i, c) == i.mcms => Has(c, SolanaProposalRefs)
verifySetConfigStellar(i, c) == i.mcms => Has(c, StellarProposalRefs)

validateConfig(i) ==
    \A c \in DOMAIN i.by :
       /\ i.by[c] # <<>>
       /\ Family[c] = "EVM" => verifySetConfigEVM(i, c)
       /\ Family[c] = "Solana" => verifySetConfigSolana(i, c)
       /\ Family[c] = "Stellar" => verifySetConfigStellar(i, c)
       /\ \A t \in elems(i.by[c]) : t.m \in MCMs

\* The timelock is needed whether or not there is a proposal.
validateMCMSRefs(i, c) == Has(c, IF i.mcms THEN EVMProposalRefs ELSE {"timelock"})
validateEVMChains(i, c) == validateMCMSRefs(i, c)

validateRoles(gs) == \A g \in elems(gs) : g.role # "ADMIN"
validateGrantAddresses(c, gs) == gs # <<>> => Has(c, {"accessControllers"})
verifySolanaChains(i, c) ==
    /\ i.mcms => Has(c, SolanaProposalRefs)
    /\ validateRoles(i.by[c]) /\ validateGrantAddresses(c, i.by[c])

\* Nothing is granted twice by one input.
validateGrants(gs) ==
    /\ gs # <<>>
    /\ \A g \in elems(gs) : g.to # <<>>
    /\ \A n, k \in DOMAIN gs : \A x \in DOMAIN gs[n].to, y \in DOMAIN gs[k].to :
          gs[n].role = gs[k].role /\ gs[n].to[x] = gs[k].to[y] => n = k /\ x = y

VerifyGrantRole(i) ==
    \A c \in DOMAIN i.by :
       /\ validateGrants(i.by[c])
       /\ Family[c] \in {"EVM", "Solana"}     \* the registered families
       /\ Family[c] = "EVM" => validateEVMChains(i, c)
       /\ Family[c] = "Solana" => verifySolanaChains(i, c)

validateMCMSEVM(c) == Has(c, {"timelock", "mcm"})
validateMCMSSolana(c) == Has(c, {"timelock", "mcm"})
VerifyFireDrill(i) ==
    /\ i.mcms
    /\ \A c \in DOMAIN i.by :
          /\ Family[c] \in {"EVM", "Solana"}
          /\ Family[c] = "EVM" => validateMCMSEVM(c)
          /\ Family[c] = "Solana" => validateMCMSSolana(c)

VerifyPreconditions(i) ==
    CASE i.cs = "setConfig" -> validateConfig(i)
      [] i.cs = "grantRole" -> VerifyGrantRole(i)
      [] i.cs = "fireDrill" -> VerifyFireDrill(i)

----------------------------------------------------------------------------
(* Apply: one sequence per chain, in the order of the selectors *)

Start(i) ==
    /\ pc = "idle" /\ VerifyPreconditions(i) /\ runs < MaxRuns /\ runs' = runs + 1
    /\ req' = i /\ todo' = DOMAIN i.by /\ agg' = <<>> /\ pc' = "chain"
    /\ UNCHANGED <<mcm, holders, proposals, reports, chainVars, overridden, fails, env>>

ch == CHOOSE c \in todo : \A d \in todo : c <= d
fam == Family[ch]
ChainInput == [ch |-> ch, cs |-> req.cs, targets |-> req.by[ch], mcms |-> req.mcms]

ReuseChain ==
    /\ pc = "chain" /\ todo # {} /\ Reusable("chain", ChainInput)
    /\ agg' = agg \o OutputOf("chain", ChainInput)
    /\ todo' = todo \ {ch}
    /\ UNCHANGED <<mcm, holders, proposals, reports, pc, req, chainVars, overridden, runs, fails, env>>

StartChain ==
    /\ pc = "chain" /\ todo # {} /\ ~Reusable("chain", ChainInput)
    /\ targets' = req.by[ch] /\ need' = {} /\ calls' = <<>>
    /\ pc' = req.cs
    /\ UNCHANGED <<mcm, holders, proposals, reports, req, todo, agg, overridden, runs, fails, env>>

\* The batches a chain's sequence returns: on EVM one for all calls, on Solana
\* and Stellar one per call.
Batch(cs) == [ch |-> ch, calls |-> cs]
BatchesEVM_Last(cs) == IF cs = <<>> THEN <<>> ELSE <<Batch(<<cs[Len(cs)]>>)>>
BatchesEVM(cs) == IF cs = <<>> THEN <<>> ELSE <<Batch(cs)>>
BatchesPerCall(cs) == [n \in DOMAIN cs |-> Batch(<<cs[n]>>)]
BatchOps == IF fam = "EVM" THEN BatchesEVM(calls) ELSE BatchesPerCall(calls)

ChainDone ==
    /\ pc \in {"setConfig", "grantRole"} /\ targets = <<>> /\ need = {}
    /\ Report("chain", ChainInput, BatchOps)
    /\ agg' = agg \o BatchOps
    /\ todo' = todo \ {ch} /\ pc' = "chain" /\ calls' = <<>>
    /\ UNCHANGED <<mcm, holders, proposals, req, targets, need, overridden, runs, fails, env>>

----------------------------------------------------------------------------
(* The operations.  Direct: the call is sent.  No-send: it is kept. *)

target == Head(targets)

\* Config changes on EVM and Solana leave the root alone; on Stellar they clear it.
OpEVMSetConfigMCM(t) == SetConfigCall(t.m, t.cfg, FALSE)
OpSolanaSetConfigMCM(t) == SetConfigCall(t.m, t.cfg, FALSE)
ClearRoot_No == FALSE
ClearRoot == TRUE
OpStellarSetConfigMCM(t) == SetConfigCall(t.m, t.cfg, ClearRoot)
SetConfigCallOf(t) ==
    CASE fam = "EVM" -> OpEVMSetConfigMCM(t)
      [] fam = "Solana" -> OpSolanaSetConfigMCM(t)
      [] fam = "Stellar" -> OpStellarSetConfigMCM(t)

\* The idempotency key and the input of an operation.
OpKey(call) == [ch |-> ch, call |-> call, noSend |-> req.mcms]

\* What the operation returns: the call when it was not sent.
OpOutput_Always(call) == <<call>>
OpOutput(call) == IF req.mcms THEN <<call>> ELSE <<>>

\* Only the contract's owner may call it.
Sendable(call) == req.mcms \/ ~GovernedCall(ch, call)

ExecuteCall(call) ==
    IF Reusable("op", OpKey(call))
    THEN calls' = calls \o OutputOf("op", OpKey(call)) /\ UNCHANGED <<mcm, holders, reports, overridden>>
    ELSE /\ Sendable(call)
         /\ IF req.mcms THEN UNCHANGED <<mcm, holders, overridden>> ELSE Perform(ch, <<call>>)
         /\ Report("op", OpKey(call), OpOutput(call))
         /\ calls' = calls \o OpOutput(call)

\* One operation per target.
SetConfigStep(call) ==
    /\ ExecuteCall(call)
    /\ targets' = Tail(targets)
    /\ UNCHANGED <<proposals, pc, req, todo, need, agg, runs, fails, env>>

runEVMSetConfig ==
    /\ pc = "setConfig" /\ targets # <<>> /\ fam = "EVM"
    /\ SetConfigStep(OpEVMSetConfigMCM(target))

runSolanaSetConfig ==
    /\ pc = "setConfig" /\ targets # <<>> /\ fam = "Solana"
    /\ SetConfigStep(OpSolanaSetConfigMCM(target))

\* The Stellar operation reads the config, then the root, and returns nothing
\* when the config matches and the root is clear.
stellarKey == OpKey(OpStellarSetConfigMCM(target))
stellarReuse ==
    /\ pc = "setConfig" /\ targets # <<>> /\ fam = "Stellar" /\ Reusable("op", stellarKey)
    /\ calls' = calls \o OutputOf("op", stellarKey)
    /\ targets' = Tail(targets)
    /\ UNCHANGED <<mcm, holders, proposals, reports, pc, req, todo, need, agg, overridden, runs, fails, env>>

stellarGetConfig ==
    /\ pc = "setConfig" /\ targets # <<>> /\ fam = "Stellar" /\ ~Reusable("op", stellarKey)
    /\ pc' = IF mcm[ch][target.m].cfg = target.cfg THEN "getRoot" ELSE "send"
    /\ UNCHANGED <<mcm, holders, proposals, reports, req, todo, chainVars, agg, overridden, runs, fails, env>>

rootClear_Any == TRUE
rootClear == mcm[ch][target.m].root = NoRoot
stellarGetRoot ==
    /\ pc = "getRoot"
    /\ IF rootClear
       THEN Report("op", stellarKey, <<>>) /\ targets' = Tail(targets) /\ pc' = "setConfig"
       ELSE pc' = "send" /\ UNCHANGED <<reports, targets>>
    /\ UNCHANGED <<mcm, holders, proposals, req, todo, need, calls, agg, overridden, runs, fails, env>>

stellarSetConfig ==
    /\ pc = "send"
    /\ ExecuteCall(OpStellarSetConfigMCM(target))
    /\ targets' = Tail(targets) /\ pc' = "setConfig"
    /\ UNCHANGED <<proposals, req, todo, need, agg, runs, fails, env>>

\* Holders of ADMIN are not read.
AddressesForRole(role) == IF role = "ADMIN" THEN {} ELSE holders[ch][role]
AddressesNeedingGrant(g) == elems(g.to) \ AddressesForRole(g.role)

\* The holders are read once per grant, then each grantee gets its operation.
ReadGrant ==
    /\ targets # <<>>
    /\ IF AddressesNeedingGrant(target) = {}
       THEN targets' = Tail(targets) /\ UNCHANGED <<pc, need>>
       ELSE need' = AddressesNeedingGrant(target) /\ pc' = "grant" /\ UNCHANGED targets
    /\ UNCHANGED <<mcm, holders, proposals, reports, req, todo, calls, agg, overridden, runs, fails, env>>

runEVMGrantRole == pc = "grantRole" /\ fam = "EVM" /\ ReadGrant
runSolanaGrantRole == pc = "grantRole" /\ fam = "Solana" /\ ReadGrant

Grantee == CHOOSE a \in need : TRUE
GrantStep ==
    /\ ExecuteCall(GrantCall(target.role, Grantee))
    /\ need' = need \ {Grantee}
    /\ IF need' = {} THEN targets' = Tail(targets) /\ pc' = "grantRole" ELSE UNCHANGED <<targets, pc>>
    /\ UNCHANGED <<proposals, req, todo, agg, runs, fails, env>>

OpEVMGrantRole == pc = "grant" /\ fam = "EVM" /\ GrantStep
OpSolanaGrantRole == pc = "grant" /\ fam = "Solana" /\ GrantStep

\* A fire drill's batch does nothing: a transfer of zero to the timelock on EVM,
\* a memo on Solana.
FireDrillStep ==
    /\ Report("chain", ChainInput, <<Batch(<<Noop>>)>>)
    /\ agg' = Append(agg, Batch(<<Noop>>))
    /\ todo' = todo \ {ch} /\ pc' = "chain"
    /\ UNCHANGED <<mcm, holders, proposals, req, chainVars, overridden, runs, fails, env>>

runEVMFireDrill == pc = "fireDrill" /\ fam = "EVM" /\ FireDrillStep
runSolanaFireDrill == pc = "fireDrill" /\ fam = "Solana" /\ FireDrillStep

----------------------------------------------------------------------------
(* The end of a run *)

End ==
    /\ pc' = "idle" /\ todo' = {} /\ req' = NoInput /\ agg' = <<>>
    /\ targets' = <<>> /\ need' = {} /\ calls' = <<>>

\* buildOutput: a proposal when there is MCMS input and something to propose.
buildOutput ==
    /\ pc = "chain" /\ todo = {}
    /\ proposals' = proposals \cup IF req.mcms /\ agg # <<>> THEN {agg} ELSE {}
    /\ End
    /\ UNCHANGED <<mcm, holders, reports, overridden, runs, fails, env>>

\* The call the run is about to make.
NextCall ==
    IF pc = "grant" THEN GrantCall(target.role, Grantee) ELSE SetConfigCallOf(target)
Calling == pc \in {"grant", "send"} \/ (pc = "setConfig" /\ targets # <<>> /\ fam # "Stellar")

\* A direct call to a contract the timelock owns reverts, and the run fails.
Reverted ==
    /\ Calling /\ ~Reusable("op", OpKey(NextCall)) /\ ~Sendable(NextCall)
    /\ End
    /\ UNCHANGED <<mcm, holders, proposals, reports, overridden, runs, fails, env>>

\* A step fails, or the call is mined and its result lost: the run returns the
\* error and no proposal.
Fail ==
    /\ pc # "idle" /\ fails < MaxFails /\ fails' = fails + 1
    /\ End
    /\ UNCHANGED <<mcm, holders, proposals, reports, overridden, runs, env>>

LoseResult ==
    /\ Calling /\ ~req.mcms /\ ~Reusable("op", OpKey(NextCall)) /\ Sendable(NextCall)
    /\ fails < MaxFails /\ fails' = fails + 1
    /\ Perform(ch, <<NextCall>>)
    /\ End
    /\ UNCHANGED <<proposals, reports, runs, env>>

NewBundle ==
    /\ pc = "idle" /\ reports # NoReports /\ fails < MaxFails /\ fails' = fails + 1
    /\ reports' = NoReports /\ overridden' = {}
    /\ UNCHANGED <<mcm, holders, proposals, pc, req, todo, chainVars, agg, runs, env>>

----------------------------------------------------------------------------
(* Others, at any time *)

\* A timelock executes the next batch of its chain, all calls or none; it may
\* call only what it owns, and itself.
ExecuteBatch(p, n) ==
    /\ \A k \in 1..(n - 1) : p[k].ch # p[n].ch
    /\ \A x \in elems(p[n].calls) : x.op = "cfg" => GovernedCall(p[n].ch, x)
    /\ Perform(p[n].ch, p[n].calls)
    /\ proposals' = (proposals \ {p}) \cup IF Len(p) = 1 THEN {} ELSE {RemoveAt(p, n)}
    /\ UNCHANGED <<reports, pc, req, todo, chainVars, agg, runs, fails, env>>

\* Signers set a root under the config of the moment; an admin revokes a role.
SetRoot(c, m) ==
    /\ env < MaxEnv /\ env' = env + 1 /\ mcm[c][m].root = NoRoot
    /\ mcm' = [mcm EXCEPT ![c][m].root = mcm[c][m].cfg] /\ holders' = holders
    /\ Override(overridden)
    /\ UNCHANGED <<proposals, reports, pc, req, todo, chainVars, agg, runs, fails>>

RevokeRole(c, role, a) ==
    /\ env < MaxEnv /\ env' = env + 1 /\ a \in holders[c][role]
    /\ holders' = [holders EXCEPT ![c][role] = @ \ {a}] /\ mcm' = mcm
    /\ Override(overridden)
    /\ UNCHANGED <<proposals, reports, pc, req, todo, chainVars, agg, runs, fails>>

----------------------------------------------------------------------------
\* The MCMs may have roots of earlier signing to begin with.
Init ==
    /\ \E r \in {NoRoot, InitConfig} :
          mcm = [c \in Chains |-> [m \in MCMs |-> [cfg |-> InitConfig, root |-> r]]]
    /\ holders = [c \in Chains |-> [r \in Roles |-> {}]]
    /\ proposals = {} /\ reports = NoReports
    /\ pc = "idle" /\ req = NoInput /\ todo = {} /\ targets = <<>> /\ need = {} /\ calls = <<>>
    /\ agg = <<>> /\ overridden = {} /\ runs = 0 /\ fails = 0 /\ env = 0

Run ==
    \/ ReuseChain \/ StartChain \/ ChainDone \/ buildOutput \/ Reverted
    \/ runEVMSetConfig \/ runSolanaSetConfig
    \/ stellarReuse \/ stellarGetConfig \/ stellarGetRoot \/ stellarSetConfig
    \/ runEVMGrantRole \/ runSolanaGrantRole \/ OpEVMGrantRole \/ OpSolanaGrantRole
    \/ runEVMFireDrill \/ runSolanaFireDrill
Others ==
    \/ \E p \in proposals : \E n \in DOMAIN p : ExecuteBatch(p, n)
    \/ \E c \in Chains : \E m \in MCMs : SetRoot(c, m)
    \/ \E c \in Chains, role \in Roles, a \in Accounts : RevokeRole(c, role, a)
Next ==
    \/ \E i \in Inputs : Start(i)
    \/ Run \/ Fail \/ LoseResult \/ NewBundle \/ Others

Spec == Init /\ [][Next]_vars

----------------------------------------------------------------------------
(* Properties *)

\* Types of the state; the chain in progress is one the request names.
TypeOK ==
    /\ mcm \in [Chains -> [MCMs -> [cfg : Configs, root : Configs \cup {NoRoot}]]]
    /\ holders \in [Chains -> [Roles -> SUBSET Accounts]]
    /\ pc \in {"idle", "chain", "setConfig", "getRoot", "send", "grantRole", "grant", "fireDrill"}
    /\ req \in Inputs \cup {NoInput} /\ (pc = "idle" <=> req = NoInput)
    /\ todo \subseteq Chains /\ need \subseteq Accounts
    /\ pc \in {"getRoot", "send", "grant"} => targets # <<>>
    /\ (calls # <<>> \/ agg # <<>>) => req.mcms
    /\ \A p \in proposals : p # <<>>
    /\ runs \in 0..MaxRuns /\ fails \in 0..MaxFails /\ env \in 0..MaxEnv

\* What a target of a changeset asks for, as elements of Held.
AskedOf(cs, c, t) ==
    IF cs = "setConfig"
    THEN {<<c, t.m, t.cfg>>} \cup IF Family[c] = "Stellar" THEN {<<c, t.m, NoRoot>>} ELSE {}
    ELSE {<<c, t.role, a>> : a \in elems(t.to)}
Asked(c, t) == AskedOf(req.cs, c, t)

\* A direct run that succeeds has done what it was asked, also when it skipped
\* targets, reused reports or repeated a run whose result was lost: every config
\* is set (on Stellar with the root clear) and every grantee holds its role,
\* unless it was undone since (ExecuteOnChainSequenceAndMerge, setStellarMCMConfig,
\* AddressesNeedingGrant).
DirectEffective ==
    [][buildOutput /\ ~req.mcms =>
         \A c \in DOMAIN req.by : \A n \in DOMAIN req.by[c] :
            Asked(c, req.by[c][n]) \subseteq Held(mcm, holders) \cup overridden]_vars

\* What a call makes hold on its chain, and what the batches of a proposal would.
Effect(c, x) ==
    CASE x.op = "cfg" -> {<<c, x.m, x.cfg>>} \cup IF x.clear THEN {<<c, x.m, NoRoot>>} ELSE {}
      [] x.op = "grant" -> {<<c, x.role, x.a>>}
      [] OTHER -> {}
Effects(c, cs) == UNION {Effect(c, x) : x \in elems(cs)}
Promised(c, p) == UNION {Effects(c, b.calls) : b \in {y \in elems(p) : y.ch = c}}

\* The proposal of a successful run, executed, does what was asked: nothing the
\* run left out as done already is missing, unless it was undone since.  A
\* fire drill has one batch per chain (NewBatchOperationFromWrites, buildOutput).
ProposalEffective ==
    [][buildOutput /\ req.mcms =>
         \A c \in DOMAIN req.by :
            /\ \A n \in DOMAIN req.by[c] :
                  Asked(c, req.by[c][n]) \subseteq Held(mcm, holders) \cup overridden \cup Promised(c, agg)
            /\ req.cs = "fireDrill" => \E b \in elems(agg) : b.ch = c /\ b.calls = <<Noop>>]_vars

\* On Stellar no root outlives the config it was signed under: a proposal signed
\* by the old signers cannot be executed after set-config (clearRoot).
RootSignedByCurrent ==
    \A c \in Chains : Family[c] = "Stellar" =>
       \A m \in MCMs : mcm[c][m].root \in {NoRoot, mcm[c][m].cfg}

----------------------------------------------------------------------------
(* The inductive invariant behind RootSignedByCurrent *)

Calls == {Noop} \cup [op : {"cfg"}, m : MCMs, cfg : Configs, clear : BOOLEAN]
               \cup [op : {"grant"}, role : Roles, a : Accounts]
Batches == [ch : Chains, calls : Seq(Calls)]

\* On Stellar, calls that set a config clear the root (OpStellarSetConfigMCM).
Clears(c, cs) == Family[c] = "Stellar" => \A n \in DOMAIN cs : cs[n].op = "cfg" => cs[n].clear
AllClear(bs) == \A n \in DOMAIN bs : Clears(bs[n].ch, bs[n].calls)
Working == pc \notin {"idle", "chain"}

\* So do the calls kept for a proposal, wherever they are on their way to it: in
\* the chain's calls, the run's batches, and the proposals returned.
CallsWhole ==
    /\ calls \in Seq(Calls) /\ (Working => Clears(ch, calls))
    /\ pc \in {"idle", "chain", "fireDrill"} => calls = <<>>
    /\ agg \in Seq(Batches) /\ AllClear(agg)
    /\ \A p \in proposals : p \in Seq(Batches) /\ AllClear(p)

\* And in the reports, which have an output only when nothing was sent.
OpReportWhole(r) == r.out \in Seq(Calls) /\ Clears(r.k.ch, r.out) /\ (r.out # <<>> => r.k.noSend)
ChainReportWhole(r) == r.out \in Seq(Batches) /\ AllClear(r.out) /\ (r.out # <<>> => r.k.mcms)
ReportsWhole ==
    /\ DOMAIN reports = {"chain", "op"}
    /\ \A r \in reports["op"] : OpReportWhole(r)
    /\ \A r \in reports["chain"] : ChainReportWhole(r)

\* A run's targets are of its verified input.
RunWhole ==
    /\ pc # "idle" => req \in Inputs /\ VerifyPreconditions(req) /\ todo \subseteq DOMAIN req.by
    /\ Working => todo # {} /\ targets \in Seq(elems(req.by[ch]))
    /\ pc \in {"setConfig", "getRoot", "send"} => req.cs = "setConfig"
    /\ pc \in {"grantRole", "grant"} => req.cs = "grantRole"
    /\ pc = "fireDrill" => req.cs = "fireDrill"
    /\ pc = "grant" => need # {}

GovInv == TypeOK /\ RootSignedByCurrent /\ CallsWhole /\ ReportsWhole /\ RunWhole

----------------------------------------------------------------------------
(* The inductive invariant behind DirectEffective and ProposalEffective *)

\* What has held at some time in this bundle.
Ever == Held(mcm, holders) \cup overridden
Drilled(c, bs) == \E b \in elems(bs) : b.ch = c /\ b.calls = <<Noop>>

\* A report is of something that was done, or is in the output to be proposed.
OpReportDone(r) == Effect(r.k.ch, r.k.call) \subseteq Ever \cup Effects(r.k.ch, r.out)
ChainReportDone(r) ==
    /\ \A t \in elems(r.k.targets) : AskedOf(r.k.cs, r.k.ch, t) \subseteq Ever \cup Promised(r.k.ch, r.out)
    /\ r.k.cs = "fireDrill" => Drilled(r.k.ch, r.out)
ReportsDone == (\A r \in reports["op"] : OpReportDone(r)) /\ \A r \in reports["chain"] : ChainReportDone(r)

\* So is what the run's finished chains asked for.
ChainsDone ==
    pc # "idle" => \A c \in (DOMAIN req.by) \ todo :
       /\ \A t \in elems(req.by[c]) : Asked(c, t) \subseteq Ever \cup Promised(c, agg)
       /\ req.cs = "fireDrill" => Drilled(c, agg)

\* And what the targets behind asked for, and the grantees behind, on the chain in
\* progress; the config that was found to match has held.
TargetsDone ==
    /\ Working => \A t \in elems(req.by[ch]) :
          t \in elems(targets) \/ Asked(ch, t) \subseteq Ever \cup Effects(ch, calls)
    /\ pc = "getRoot" => <<ch, target.m, target.cfg>> \in Ever
    /\ pc = "grant" => \A a \in elems(target.to) \ need :
          <<ch, target.role, a>> \in Ever \cup Effects(ch, calls)

DoneInv == ReportsDone /\ ChainsDone /\ TargetsDone
=============================================================================
