--------------------------- MODULE EvmMcmsDeploy ---------------------------
(***************************************************************************)
(* The MCMS-with-timelock deploy changeset on EVM chains:                  *)
(*   mcms/changesets/deploy/changeset.go      (Apply)                      *)
(*   mcms/evm/deploy/sequence.go              (deployMCMSWithTimelock)     *)
(*   mcms/evm/deploy/subsequences.go          (MCM + config, role grants)  *)
(*   mcms/evm/deploy/idempotency.go           (report reuse keys)          *)
(*                                                                         *)
(* Apply walks the chains of its input in selector order.  On each chain   *)
(* the deployer creates the three MCMs (each configured right after its    *)
(* creation), the timelock and the call proxy, skipping what the datastore *)
(* already records, and then grants the timelock roles.  Every operation   *)
(* may fail, before or after its transaction reached the chain; a failed   *)
(* Apply returns an empty output, so nothing it deployed is recorded.  The *)
(* operator runs the changeset again, normally with the operation reports  *)
(* of the failed run, and successful reports are reused instead of         *)
(* executing the operation again.                                          *)
(***************************************************************************)
EXTENDS Integers, Sequences, FiniteSets

CONSTANTS
    Chains,      \* chain selectors (naturals: Apply sorts them)
    Qualifiers,  \* datastore qualifiers
    Signers,     \* MCM signer configurations
    Delays,      \* timelock minimum delays
    Inputs,      \* the deploy.Input values the operator may submit
    Deployer,    \* the deployer key's account
    Deletable,   \* bound: the keys whose refs may be deleted
    NoConfig,    \* an MCM that has not been configured
    MaxAddr,     \* bound: contracts created per chain
    MaxFails,    \* bound: runs that fail
    MaxLosses,   \* bound: transaction results or report sets lost
    MaxDeletes   \* bound: refs deleted between runs

MCMTypes == {"Bypasser", "Canceller", "Proposer"}
Types == MCMTypes \cup {"Timelock", "CallProxy"}
Roles == {"PROPOSER", "CANCELLER", "BYPASSER", "EXECUTOR", "ADMIN"}

ZeroAddr == 0
Addr0 == 0..MaxAddr
Addr == 1..MaxAddr
Accounts == Addr0 \cup {Deployer}

ChainConfig == [q: Qualifiers, cfg: [MCMTypes -> Signers], delay: Delays]
Keys == Chains \X Types \X Qualifiers

ASSUME ChainsAssumption == Chains \subseteq Nat /\ IsFiniteSet(Chains)
ASSUME BoundsAssumption == MaxAddr \in Nat
                            /\ MaxFails \in Nat /\ MaxLosses \in Nat /\ MaxDeletes \in Nat
ASSUME DeletableAssumption == Deletable \subseteq Keys
ASSUME DelaysAssumption == Delays \subseteq Nat
ASSUME InputsAssumption ==
    Inputs \subseteq UNION {[S -> ChainConfig] : S \in (SUBSET Chains) \ {{}}}
ASSUME SentinelAssumption ==
    /\ Deployer \notin Nat /\ NoConfig \notin Signers

VARIABLES
    code,      \* [Chains -> Seq(contract)]: address = creation order
    ds,        \* [Keys -> Addr0]: the address refs of the environment datastore
    reports,   \* successful operation and sequence reports of the bundle
    pc,        \* where Apply is
    req,       \* the submitted input
    todo,      \* chains Apply has not finished
    ch,        \* the chain whose sequence runs
    existing,  \* [Types -> Addr0]: the deployer's deployedAddresses
    fresh,     \* contract types appended to out.Metadata.Addresses
    target,    \* the MCM that was deployed and is being configured
    agg,       \* [Keys -> Addr0]: refs aggregated over the finished chains
    grants,    \* [Roles -> Seq(Addr0)]: RoleGrants of seqGrantRolesTimelock
    rix,       \* index of the role being granted
    pending,   \* indices of that role's addresses still to be granted
    fails, losses, deletes

grantVars == <<grants, rix, pending>>
applyVars == <<req, todo, ch, existing, fresh, target, agg, grantVars>>
counters == <<fails, losses, deletes>>
vars == <<code, ds, reports, pc, applyVars, counters>>

----------------------------------------------------------------------------
(* Contracts and reports *)

\* The input of one deploy operation: contract type, qualifier and
\* constructor arguments (none for an MCM).
DeployInput == [t: Types, q: Qualifiers, args: Seq(Int)]

NoRoles == [r \in Roles |-> {}]

\* RBACTimelock's constructor: the deployer is admin; proposers, cancellers and
\* bypassers come from the arguments; no executor yet.
ConstructorRoles(in) ==
    IF in.t # "Timelock" THEN NoRoles
    ELSE LET p == in.args[2]  c == in.args[3]  b == in.args[4]
         IN  [r \in Roles |-> CASE r = "PROPOSER"  -> {p}
                               [] r = "CANCELLER" -> {c, p, b}
                               [] r = "BYPASSER"  -> {b}
                               [] r = "EXECUTOR"  -> {}
                               [] r = "ADMIN"     -> {Deployer}]

NewContract(in) == [in |-> in, cfg |-> NoConfig, roles |-> ConstructorRoles(in)]

NoReports == [chain |-> {}, mcm |-> {}, deploy |-> {}, config |-> {},
              grantSeq |-> {}, grant |-> {}]

\* An execution reuses the report of an earlier successful one with the same
\* definition, input and idempotency key.
Reusable(set, k) == \E r \in set : r.k = k
OutputOf(set, k) == (CHOOSE r \in set : r.k = k).out

\* Idempotency keys of mcms/evm/deploy/idempotency.go.  (A name with a suffix is
\* a faulty variant of the definition it precedes, used to test the properties.)
chainIdempotencyKey(c) == c
chainSequenceIdempotencyKey_NoChain(c) == 0
chainSequenceIdempotencyKey(c) == c
outputAddressIdempotencyKey_NoChain(c, a) == a
outputAddressIdempotencyKey(c, a) == <<c, a>>

----------------------------------------------------------------------------
(* The deployer's view of the run *)

cc == req[ch]
qualifier == cc.q

NoRefs == [k \in Keys |-> ZeroAddr]
NoAddresses == [t \in Types |-> ZeroAddr]

\* addresses.go: refs of this chain, type and qualifier.
loadDeployedAddresses(c, q) == [t \in Types |-> ds[<<c, t, q>>]]

DeployOrder == <<"Bypasser", "Canceller", "Proposer", "Timelock", "CallProxy">>
Missing(ex) == {i \in 1..5 : ex[DeployOrder[i]] = ZeroAddr}
NextStage(ex) == IF Missing(ex) = {} THEN "admin" ELSE "deploy"
Current == DeployOrder[CHOOSE i \in Missing(existing) : \A j \in Missing(existing) : i <= j]

ConstructorArgs(t) ==
    CASE t \in MCMTypes     -> <<>>
      [] t = "Timelock"     -> <<cc.delay, existing["Proposer"], existing["Canceller"],
                                 existing["Bypasser"]>>
      [] t = "CallProxy"    -> <<existing["Timelock"]>>

DeployIn(t) == [t |-> t, q |-> qualifier, args |-> ConstructorArgs(t)]
DeployKey(t) == [key |-> chainIdempotencyKey(ch), in |-> DeployIn(t)]
MCMKey(t) == [key |-> chainSequenceIdempotencyKey(ch), t |-> t, q |-> qualifier,
              cfg |-> cc.cfg[t]]
ConfigKey == [key |-> outputAddressIdempotencyKey(ch, target), a |-> target,
              t |-> Current, cfg |-> cc.cfg[Current]]
ChainKey(c) == [ch |-> c, cc |-> req[c]]

roles == code[ch][existing["Timelock"]].roles

RoleOrder_AdminFirst == <<"ADMIN", "PROPOSER", "CANCELLER", "BYPASSER", "EXECUTOR">>
RoleOrder == <<"PROPOSER", "CANCELLER", "BYPASSER", "EXECUTOR", "ADMIN">>

NoGrants == [r \in Roles |-> <<>>]

\* The roleGrants list of grantTimelockRoles; ADMIN is left out when the timelock
\* already administers itself.
roleGrants ==
    [r \in Roles |->
       CASE r = "PROPOSER"  -> <<existing["Proposer"]>>
         [] r = "CANCELLER" -> <<existing["Proposer"], existing["Canceller"], existing["Bypasser"]>>
         [] r = "BYPASSER"  -> <<existing["Bypasser"]>>
         [] r = "EXECUTOR"  -> <<existing["CallProxy"]>>
         [] r = "ADMIN"     -> IF existing["Timelock"] \in roles["ADMIN"]
                               THEN <<>> ELSE <<existing["Timelock"]>>]

GrantSeqKey(g) == [key |-> chainSequenceIdempotencyKey(ch), tl |-> existing["Timelock"], g |-> g]
GrantKey(a) == [key |-> outputAddressIdempotencyKey(ch, existing["Timelock"]),
                role |-> RoleOrder[rix], a |-> a]

AddReport(kind, k, out) ==
    reports' = [reports EXCEPT ![kind] = @ \cup {[k |-> k, out |-> out]}]

\* Refs of chain c, qualifier q and the types in F, laid over base.
WriteRefs(base, c, q, F, addrs) ==
    [k \in Keys |-> IF k[1] = c /\ k[3] = q /\ k[2] \in F THEN addrs[k[2]] ELSE base[k]]

\* Apply returns: its local state is gone.
Return ==
    /\ pc' = "idle" /\ todo' = {} /\ agg' = NoRefs
    /\ existing' = NoAddresses /\ fresh' = {} /\ target' = ZeroAddr
    /\ grants' = NoGrants /\ rix' = 1 /\ pending' = {}
    /\ UNCHANGED <<req, ch>>

\* Apply returns an error and an empty output, or the process dies.
Abort ==
    /\ fails < MaxFails
    /\ fails' = fails + 1
    /\ Return

----------------------------------------------------------------------------
(* Apply: changeset.go *)

Start(i) ==
    /\ pc = "idle"
    /\ req' = i /\ todo' = DOMAIN i
    /\ pc' = "chain"
    /\ UNCHANGED <<code, ds, reports, ch, existing, fresh, target, agg, grantVars, counters>>

NextSelector == CHOOSE c \in todo : \A d \in todo : c <= d

ReuseChain_NoMerge ==
    /\ pc = "chain" /\ todo # {}
    /\ Reusable(reports.chain, ChainKey(NextSelector))
    /\ todo' = todo \ {NextSelector}
    /\ UNCHANGED <<code, ds, reports, pc, req, ch, existing, fresh, target, agg, grantVars,
                   counters>>

\* The whole per-chain sequence has a successful report: its output is reused.
ReuseChain ==
    /\ pc = "chain" /\ todo # {}
    /\ Reusable(reports.chain, ChainKey(NextSelector))
    /\ LET out == OutputOf(reports.chain, ChainKey(NextSelector)) IN
       agg' = WriteRefs(agg, NextSelector, req[NextSelector].q,
                        {t \in Types : out[t] # ZeroAddr}, out)
    /\ todo' = todo \ {NextSelector}
    /\ UNCHANGED <<code, ds, reports, pc, req, ch, existing, fresh, target, grantVars,
                   counters>>

\* deployMCMSWithTimelock starts: load what the datastore already records.
StartChain ==
    /\ pc = "chain" /\ todo # {}
    /\ ~Reusable(reports.chain, ChainKey(NextSelector))
    /\ ch' = NextSelector
    /\ existing' = loadDeployedAddresses(NextSelector, req[NextSelector].q)
    /\ fresh' = {}
    /\ pc' = NextStage(existing')
    /\ UNCHANGED <<code, ds, reports, req, todo, target, agg, grantVars, counters>>

\* All chains succeeded: merge the environment datastore and the new refs.
Finish ==
    /\ pc = "chain" /\ todo = {}
    /\ ds' = [k \in Keys |-> IF agg[k] # ZeroAddr THEN agg[k] ELSE ds[k]]
    /\ Return
    /\ UNCHANGED <<code, reports, counters>>

----------------------------------------------------------------------------
(* deployMCMIfNeeded, deployTimelock, deployCallProxy *)

Obtained_NoAppend(t, a) ==
    /\ existing' = [existing EXCEPT ![t] = a]
    /\ fresh' = IF t = "CallProxy" THEN fresh ELSE fresh \cup {t}
    /\ pc' = NextStage(existing')

\* The address a of contract type t joins existing and the sequence's output.
Obtained(t, a) ==
    /\ existing' = [existing EXCEPT ![t] = a]
    /\ fresh' = fresh \cup {t}
    /\ pc' = NextStage(existing')

\* A deploy operation returned address a: an MCM is configured next.
AfterDeploy(a) ==
    IF Current \in MCMTypes
    THEN target' = a /\ pc' = "config" /\ UNCHANGED <<existing, fresh>>
    ELSE Obtained(Current, a) /\ UNCHANGED target

MCMSequenceDone(t) == t \in MCMTypes /\ Reusable(reports.mcm, MCMKey(t))

ReuseMCMSequence ==
    /\ pc = "deploy" /\ MCMSequenceDone(Current)
    /\ Obtained(Current, OutputOf(reports.mcm, MCMKey(Current)))
    /\ UNCHANGED <<code, ds, reports, req, todo, ch, target, agg, grantVars, counters>>

ReuseDeploy ==
    /\ pc = "deploy" /\ ~MCMSequenceDone(Current)
    /\ Reusable(reports.deploy, DeployKey(Current))
    /\ AfterDeploy(OutputOf(reports.deploy, DeployKey(Current)))
    /\ UNCHANGED <<code, ds, reports, req, todo, ch, agg, grantVars, counters>>

CanDeploy_NoReuse ==
    /\ pc = "deploy" /\ ~MCMSequenceDone(Current)
    /\ Len(code[ch]) < MaxAddr

CanDeploy ==
    /\ pc = "deploy" /\ ~MCMSequenceDone(Current)
    /\ ~Reusable(reports.deploy, DeployKey(Current))
    /\ Len(code[ch]) < MaxAddr

Create(in) == code' = [code EXCEPT ![ch] = Append(@, NewContract(in))]

Deploy ==
    /\ CanDeploy
    /\ Create(DeployIn(Current))
    /\ AddReport("deploy", DeployKey(Current), Len(code[ch]) + 1)
    /\ AfterDeploy(Len(code[ch]) + 1)
    /\ UNCHANGED <<ds, req, todo, ch, agg, grantVars, counters>>

\* A transaction reached the chain but the attempt returned an error: the gas
\* boost retry attempts the operation again, or Apply fails.
RetryOrAbort ==
    /\ losses < MaxLosses
    /\ losses' = losses + 1
    /\ \/ UNCHANGED <<pc, applyVars, fails>>
       \/ Abort
    /\ UNCHANGED <<ds, reports, deletes>>

LoseDeploy ==
    /\ CanDeploy
    /\ Create(DeployIn(Current))
    /\ RetryOrAbort

\* OpEVMSetConfigMCM on the MCM just deployed, then seqDeployMCMWithConfig ends.
Configured == [code EXCEPT ![ch][target].cfg = cc.cfg[Current]]

SetConfig ==
    /\ pc = "config"
    /\ code' = IF Reusable(reports.config, ConfigKey) THEN code ELSE Configured
    /\ reports' = [reports EXCEPT
           !.config = @ \cup {[k |-> ConfigKey, out |-> target]},
           !.mcm = @ \cup {[k |-> MCMKey(Current), out |-> target]}]
    /\ Obtained(Current, target)
    /\ target' = ZeroAddr
    /\ UNCHANGED <<ds, req, todo, ch, agg, grantVars, counters>>

LoseSetConfig ==
    /\ pc = "config" /\ ~Reusable(reports.config, ConfigKey)
    /\ code' = Configured
    /\ RetryOrAbort

----------------------------------------------------------------------------
(* grantTimelockRoles and seqGrantRolesTimelock *)

\* timelockAdminStatus: without the admin role the deployer skips the grants.
CheckAdmin ==
    /\ pc = "admin"
    /\ grants' = roleGrants
    /\ pc' = IF \/ Deployer \notin roles["ADMIN"]
                \/ Reusable(reports.grantSeq, GrantSeqKey(roleGrants))
             THEN "done" ELSE "role"
    /\ UNCHANGED <<code, ds, reports, req, todo, ch, existing, fresh, target, agg, rix, pending,
                   counters>>

InspectRole_NoSkip ==
    /\ pc = "role" /\ rix <= 5
    /\ LET r == RoleOrder[rix] IN
       pending' = {i \in DOMAIN grants[r] : grants[r][i] \notin roles[r]}
    /\ pc' = "grant"
    /\ UNCHANGED <<code, ds, reports, req, todo, ch, existing, fresh, target, agg, grants, rix,
                   counters>>

\* Read the role's members (not for ADMIN) and keep the addresses that lack it.
InspectRole ==
    /\ pc = "role" /\ rix <= 5
    /\ LET r == RoleOrder[rix]
           members == IF r = "ADMIN" THEN {} ELSE roles[r] IN
       pending' = {i \in DOMAIN grants[r] : grants[r][i] \notin members}
    /\ IF pending' = {} THEN rix' = rix + 1 /\ UNCHANGED pc
                        ELSE pc' = "grant" /\ UNCHANGED rix
    /\ UNCHANGED <<code, ds, reports, req, todo, ch, existing, fresh, target, agg, grants,
                   counters>>

NextGrant == CHOOSE i \in pending : \A j \in pending : i <= j
Grantee == grants[RoleOrder[rix]][NextGrant]

\* A write by a caller without the admin role is not sent; it still succeeds.
Granted ==
    IF Deployer \in roles["ADMIN"]
    THEN [code EXCEPT ![ch][existing["Timelock"]].roles[RoleOrder[rix]] = @ \cup {Grantee}]
    ELSE code

GrantRole ==
    /\ pc = "grant"
    /\ code' = IF Reusable(reports.grant, GrantKey(Grantee)) THEN code ELSE Granted
    /\ AddReport("grant", GrantKey(Grantee), Grantee)
    /\ pending' = pending \ {NextGrant}
    /\ IF pending' = {} THEN rix' = rix + 1 /\ pc' = "role" ELSE UNCHANGED <<rix, pc>>
    /\ UNCHANGED <<ds, req, todo, ch, existing, fresh, target, agg, grants, counters>>

LoseGrant ==
    /\ pc = "grant" /\ ~Reusable(reports.grant, GrantKey(Grantee))
    /\ code' = Granted
    /\ RetryOrAbort

GrantsDone ==
    /\ pc = "role" /\ rix = 6
    /\ AddReport("grantSeq", GrantSeqKey(grants), existing["Timelock"])
    /\ pc' = "done"
    /\ UNCHANGED <<code, ds, applyVars, counters>>

\* The chain's sequence succeeds; its output is merged (mergeOutputs).
ChainDone ==
    /\ pc = "done"
    /\ AddReport("chain", ChainKey(ch), [t \in Types |-> IF t \in fresh THEN existing[t] ELSE ZeroAddr])
    /\ agg' = WriteRefs(agg, ch, qualifier, fresh, existing)
    /\ todo' = todo \ {ch} /\ pc' = "chain"
    /\ existing' = NoAddresses /\ fresh' = {}
    /\ grants' = NoGrants /\ rix' = 1 /\ pending' = {}
    /\ UNCHANGED <<code, ds, req, ch, target, counters>>

\* An operation fails before it changes anything, a read fails, or the process
\* dies.
Fail ==
    /\ pc \in {"chain", "deploy", "config", "admin", "role", "grant"}
    /\ Abort
    /\ UNCHANGED <<code, ds, reports, losses, deletes>>

----------------------------------------------------------------------------
(* The environment *)

\* The next run starts with a fresh bundle: its reports are gone.
LoseReports ==
    /\ pc = "idle" /\ losses < MaxLosses /\ reports # NoReports
    /\ reports' = NoReports /\ losses' = losses + 1
    /\ UNCHANGED <<code, ds, pc, applyVars, fails, deletes>>

\* The datastore delete changeset removes a ref between two runs.
DeleteRef(k) ==
    /\ pc = "idle" /\ deletes < MaxDeletes /\ ds[k] # ZeroAddr
    /\ ds' = [ds EXCEPT ![k] = ZeroAddr]
    /\ deletes' = deletes + 1
    /\ UNCHANGED <<code, reports, pc, applyVars, fails, losses>>

\* A self-governed timelock takes the admin role away from the deployer.
RevokeDeployer(c, a) ==
    /\ a \in DOMAIN code[c] /\ code[c][a].in.t = "Timelock"
    /\ {Deployer, a} \subseteq code[c][a].roles["ADMIN"]
    /\ code' = [code EXCEPT ![c][a].roles["ADMIN"] = @ \ {Deployer}]
    /\ UNCHANGED <<ds, reports, pc, applyVars, counters>>

Init ==
    /\ code = [c \in Chains |-> <<>>]
    /\ ds = NoRefs /\ agg = NoRefs /\ reports = NoReports
    /\ pc = "idle" /\ req \in Inputs /\ todo = {}
    /\ ch \in DOMAIN req
    /\ existing = NoAddresses /\ fresh = {} /\ target = ZeroAddr
    /\ grants = NoGrants /\ rix = 1 /\ pending = {}
    /\ fails = 0 /\ losses = 0 /\ deletes = 0

Step ==
    \/ ReuseChain \/ StartChain \/ Finish
    \/ ReuseMCMSequence \/ ReuseDeploy \/ Deploy \/ SetConfig
    \/ CheckAdmin \/ InspectRole \/ GrantRole \/ GrantsDone \/ ChainDone

Fault == LoseDeploy \/ LoseSetConfig \/ LoseGrant \/ Fail \/ LoseReports

Next ==
    \/ \E i \in Inputs : Start(i)
    \/ Step
    \/ Fault
    \/ \E k \in Deletable : DeleteRef(k)
    \/ \E c \in Chains, a \in Addr : RevokeDeployer(c, a)

Spec == Init /\ [][Next]_vars

\* A running Apply proceeds, and the operator runs the changeset with each input
\* again and again; faults happen but are not forced.
FairSpec ==
    /\ Spec
    /\ WF_vars(Step)
    /\ \A i \in Inputs : SF_vars(Start(i))

----------------------------------------------------------------------------
(* Properties *)

InSequence == pc \in {"deploy", "config", "admin", "role", "grant", "done"}

Contract == [in: DeployInput, cfg: Signers \cup {NoConfig}, roles: [Roles -> SUBSET Accounts]]

\* The types of the variables, and how a run's bookkeeping goes with its step: an
\* MCM is being configured exactly in step "config", grants are left exactly in
\* step "grant", and deploying stops when no contract is missing.
TypeOK ==
    /\ code \in [Chains -> Seq(Contract)]
    /\ \A c \in Chains : Len(code[c]) <= MaxAddr
    /\ ds \in [Keys -> Addr0] /\ agg \in [Keys -> Addr0]
    /\ DOMAIN reports = {"chain", "mcm", "deploy", "config", "grantSeq", "grant"}
    /\ pc \in {"idle", "chain", "deploy", "config", "admin", "role", "grant", "done"}
    /\ req \in Inputs /\ todo \subseteq DOMAIN req
    /\ ch \in Chains /\ (InSequence => ch \in DOMAIN req)
    /\ existing \in [Types -> Addr0] /\ fresh \subseteq Types /\ target \in Addr0
    /\ grants \in [Roles -> Seq(Addr0)] /\ \A r \in Roles : Len(grants[r]) <= 3
    /\ rix \in 1..6 /\ pending \subseteq 1..3
    /\ pc = "grant" => rix <= 5 /\ pending \subseteq DOMAIN grants[RoleOrder[rix]]
    /\ pc \in {"deploy", "config"} => Missing(existing) # {}
    /\ (pc = "config" <=> target # ZeroAddr) /\ (pc = "grant" <=> pending # {})
    /\ fails \in 0..MaxFails /\ losses \in 0..MaxLosses
    /\ deletes \in 0..MaxDeletes

\* The refinement mapping: the contracts of a key are the ones its chain holds.
Created ==
    [k \in Keys |-> {a \in DOMAIN code[k[1]] : code[k[1]][a].in.t = k[2] /\ code[k[1]][a].in.q = k[3]}]
Record == INSTANCE DeploymentRecord WITH
    Addrs <- Addr, NoAddr <- ZeroAddr, refs <- ds, created <- Created

\* The deploy changeset implements the promise of DeploymentRecord: what Apply
\* writes to the datastore (changeset.go, Merge and WriteMetadata) are contracts
\* of that chain, type and qualifier, although operation reports are reused.
RefinesRecord == Record!RecordSpec

\* Every recorded MCM has a signer config: seqDeployMCMWithConfig configures the
\* contract before its address can reach the datastore, also when one of its two
\* operations failed in an earlier run.
RecordedMCMConfigured ==
    \A c \in Chains, t \in MCMTypes, q \in Qualifiers :
       ds[<<c, t, q>>] # ZeroAddr => code[c][ds[<<c, t, q>>]].cfg # NoConfig

Recorded(c, q) == {t \in Types : ds[<<c, t, q>>] # ZeroAddr}

\* As long as nobody deletes refs, a chain's datastore holds all five contracts
\* of a qualifier or none: a failed Apply records no part of a set.
AllOrNothing ==
    deletes = 0 => \A c \in Chains, q \in Qualifiers : Recorded(c, q) \in {{}, Types}

\* The addresses A of one set on chain c are wired: the call proxy forwards to the
\* timelock, whose roles the MCMs, the call proxy and the timelock itself hold.
WiredSet(c, A) ==
    LET tl == code[c][A["Timelock"]]
    IN  /\ code[c][A["CallProxy"]].in.args = <<A["Timelock"]>>
        /\ A["Proposer"] \in tl.roles["PROPOSER"]
        /\ {A["Proposer"], A["Canceller"], A["Bypasser"]} \subseteq tl.roles["CANCELLER"]
        /\ A["Bypasser"] \in tl.roles["BYPASSER"]
        /\ A["CallProxy"] \in tl.roles["EXECUTOR"]
        /\ A["Timelock"] \in tl.roles["ADMIN"]

\* A recorded set is wired, even when the deployer lost its admin role before a
\* retry (grantTimelockRoles skips the grants then).
Wired ==
    deletes = 0 => \A c \in Chains, q \in Qualifiers :
       Recorded(c, q) = Types => WiredSet(c, loadDeployedAddresses(c, q))

\* Retrying a failed run never deploys a contract twice: while no transaction
\* result and no report is lost, no two contracts of a chain come from the same
\* deploy operation input.
AtMostOncePerInput ==
    losses = 0 =>
       \A c \in Chains : \A a, b \in DOMAIN code[c] :
          code[c][a].in = code[c][b].in => a = b

Deployed(c, t, q, a) ==
    a \in DOMAIN code[c] /\ code[c][a].in.t = t /\ code[c][a].in.q = q
Usable(c, t, q, a) ==
    Deployed(c, t, q, a) /\ (t \in MCMTypes => code[c][a].cfg # NoConfig)

\* What the operation reports say is so on the chain they are keyed by.
DeployReportOK(r) ==
    /\ r.k.key \in Chains
    /\ r.out \in DOMAIN code[r.k.key]
    /\ code[r.k.key][r.out].in = r.k.in
ConfigReportOK(r) ==
    /\ r.k.key[1] \in Chains
    /\ r.k.key[2] \in DOMAIN code[r.k.key[1]]
    /\ code[r.k.key[1]][r.k.key[2]].cfg # NoConfig
MCMReportOK(r) ==
    /\ r.k.key \in Chains
    /\ Usable(r.k.key, r.k.t, r.k.q, r.out)
ChainReportOK(r) ==
    /\ r.k.ch \in Chains
    /\ r.out \in [Types -> Addr0]
    /\ \A t \in Types : r.out[t] # ZeroAddr => Usable(r.k.ch, t, r.k.cc.q, r.out[t])

\* Every report that can be reused is true of the chain.
ReportsOK ==
    /\ \A r \in reports.deploy : DeployReportOK(r)
    /\ \A r \in reports.config : ConfigReportOK(r)
    /\ \A r \in reports.mcm : MCMReportOK(r)
    /\ \A r \in reports.chain : ChainReportOK(r)

\* Recorded refs, and the refs about to be recorded, are usable contracts.
RefsOK ==
    \A k \in Keys :
       /\ ds[k] # ZeroAddr => Usable(k[1], k[2], k[3], ds[k])
       /\ agg[k] # ZeroAddr => Usable(k[1], k[2], k[3], agg[k])

\* The addresses the running sequence has collected are usable contracts of its
\* chain; the MCM it is configuring exists.
SequenceOK ==
    /\ InSequence => \A t \in Types : existing[t] # ZeroAddr => Usable(ch, t, qualifier, existing[t])
    /\ pc = "config" => Current \in MCMTypes /\ Deployed(ch, Current, qualifier, target)
    /\ pc \in {"admin", "role", "grant", "done"} => Missing(existing) = {}

\* While nothing is lost, each contract has the report of its deploy operation,
\* and an operation has one report.
DeployReportsOK ==
    /\ \A r1, r2 \in reports.deploy : r1.k = r2.k => r1 = r2
    /\ losses = 0 => \A c \in Chains : \A a \in DOMAIN code[c] :
          [k |-> [key |-> c, in |-> code[c][a].in], out |-> a] \in reports.deploy

\* The inductive invariant behind the properties above.
IInv == TypeOK /\ ReportsOK /\ RefsOK /\ SequenceOK /\ DeployReportsOK

----------------------------------------------------------------------------
(* The inductive invariant behind AllOrNothing and Wired.                  *)

Present(A) == {t \in Types : A[t] # ZeroAddr}

\* The addresses A are a whole wired set of chain c, or none.
SetOK(c, A) ==
    Present(A) # {} =>
       /\ Present(A) = Types
       /\ A["Timelock"] \in DOMAIN code[c] /\ A["CallProxy"] \in DOMAIN code[c]
       /\ WiredSet(c, A)

Aggregated(c, q) == [t \in Types |-> agg[<<c, t, q>>]]
RefsWhole ==
    \A c \in Chains, q \in Qualifiers :
       SetOK(c, loadDeployedAddresses(c, q)) /\ SetOK(c, Aggregated(c, q))
ReportsWhole == \A r \in reports.chain : SetOK(r.k.ch, r.out)

\* A timelock is never without an admin: the deployer, or itself.  What its
\* constructor granted to the MCMs stays.
Ruled(c, a) ==
    /\ Deployer \in code[c][a].roles["ADMIN"] \/ a \in code[c][a].roles["ADMIN"]
    /\ \A r \in Roles \ {"ADMIN"} : ConstructorRoles(code[c][a].in)[r] \subseteq code[c][a].roles[r]
TimelocksRuled ==
    \A c \in Chains : \A a \in DOMAIN code[c] : code[c][a].in.t = "Timelock" => Ruled(c, a)

\* A timelock that rules itself, so that the deployer can be revoked, has its
\* executor already: the call proxy that the bundle reports for it.
ProxyKey(r) == [key |-> r.k.key, in |-> [t |-> "CallProxy", q |-> r.k.in.q, args |-> <<r.out>>]]
ExecutorFirst ==
    \A r \in reports.deploy :
       (r.k.in.t = "Timelock" /\ r.out \in code[r.k.key][r.out].roles["ADMIN"]) =>
          \E p \in reports.deploy :
             p.k = ProxyKey(r) /\ p.out \in code[r.k.key][r.out].roles["EXECUTOR"]

\* A grant that a report stands for is in force.
Holds(c, tl, role, a) ==
    /\ c \in Chains /\ tl \in DOMAIN code[c] /\ role \in Roles /\ a \in Addr0
    /\ a \in code[c][tl].roles[role]
GrantReportsOK ==
    /\ \A r \in reports.grant : Holds(r.k.key[1], r.k.key[2], r.k.role, r.k.a)
    /\ \A r \in reports.grantSeq : \A role \in Roles : \A i \in DOMAIN r.k.g[role] :
          Holds(r.k.key, r.k.tl, role, r.k.g[role][i])

\* A run collects a set that the datastore holds already, or all of its own: then
\* the reports say which timelock and call proxy its constructor arguments name.
Reported(t) == \E r \in reports.deploy : r.k = DeployKey(t) /\ r.out = existing[t]
Collected ==
    /\ fresh = Present(existing)
    /\ "Timelock" \in fresh => MCMTypes \subseteq fresh /\ Reported("Timelock")
    /\ "CallProxy" \in fresh => "Timelock" \in fresh /\ Reported("CallProxy")
RunWhole ==
    InSequence => Collected \/ (fresh = {} /\ Missing(existing) = {} /\ WiredSet(ch, existing))

\* The grants come in RoleOrder, the executor before the admin.
GrantsInOrder ==
    /\ pc \in {"role", "grant"} =>
          /\ \A r \in Roles \ {"ADMIN"} : grants[r] = roleGrants[r]
          /\ grants["ADMIN"] = <<existing["Timelock"]>>
             \/ (grants["ADMIN"] = <<>> /\ existing["Timelock"] \in roles["ADMIN"])
          /\ rix >= 5 => existing["CallProxy"] \in roles["EXECUTOR"]
          /\ rix = 6 => existing["Timelock"] \in roles["ADMIN"]
    /\ pc \notin {"role", "grant", "done"} => rix = 1
    /\ pc = "done" => WiredSet(ch, existing)

\* Deleting a ref takes a set apart, so all this is said of runs without deletes.
WiringInv ==
    deletes = 0 =>
       /\ TimelocksRuled /\ RefsWhole /\ ReportsWhole /\ ExecutorFirst
       /\ GrantReportsOK /\ RunWhole /\ GrantsInOrder

\* Contracts already in the datastore are skipped: no run changes a recorded ref.
RecordedKept == [][\A k \in Keys : ds[k] # ZeroAddr => ds'[k] \in {ds[k], ZeroAddr}]_ds

\* With finitely many faults, and an operator who runs every input again and again,
\* all contracts of every chain of every input get recorded and stay so, unless a
\* ref is deleted.  What a failed run deployed on a chain it had finished comes from
\* that chain's report in a later run (changeset.go, mergeOutputs); a chain the
\* datastore held already reported no refs, so that a deleted one may stay away.
EventuallyRecorded ==
    \A i \in Inputs :
       <>[](deletes = 0 => \A c \in DOMAIN i : Recorded(c, i[c].q) = Types)
=============================================================================
