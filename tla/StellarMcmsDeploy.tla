------------------------- MODULE StellarMcmsDeploy -------------------------
(***************************************************************************)
(* The MCMS-with-timelock deploy sequence on Stellar chains:               *)
(*   mcms/stellar/deploy/sequence.go    (ensureMCM, ensureTimelock)        *)
(*   mcms/stellar/deploy/operations.go  (deployStellarMCM, ...Timelock)    *)
(*   mcms/stellar/deploy/identity.go    (deterministic contract IDs)       *)
(*                                                                         *)
(* A contract's ID is derived from its chain, type, qualifier and a salt   *)
(* attempt, so a run that finds its contract on the ledger adopts it.      *)
(* Creating a contract and initializing it are separate transactions: a    *)
(* run may die, or lose a result, between any two of them, and several     *)
(* runs (Procs), built from different releases of the WASM artifacts, may  *)
(* work on the same chain with the same deployer key.  Each run serves one *)
(* chain; EvmMcmsDeploy models the loop of Apply over chains, here only    *)
(* visible as a run that fails after its sequence succeeded.               *)
(***************************************************************************)
EXTENDS Integers, Sequences

CONSTANTS
    Procs,        \* processes that execute the changeset
    Chains,       \* Stellar chain selectors
    Qualifiers,   \* datastore qualifiers
    Configs,      \* MCM signer configs
    Delays,       \* timelock minimum delays
    Inputs,       \* the per-chain inputs an operator may submit
    Releases,     \* [mcm, tl]: the artifact versions a binary is built with
    Deployer, Governance,                 \* owners of an MCM
    NoOwner, NoConfig, NoWasm, NoInit, NoRun,  \* absent values
    MaxAttempts,  \* maxDeploymentSaltAttempts
    MaxFaults     \* bound: failed calls, lost results, lost report sets

MCMTypes == {"Proposer", "Canceller", "Bypasser"}
Types == MCMTypes \cup {"Timelock"}
DeployOrder == <<"Proposer", "Canceller", "Bypasser", "Timelock">>
Keys == Chains \X Types \X Qualifiers

ChainInput == [c: Chains, q: Qualifiers, cfg: [MCMTypes -> Configs], delay: Delays]
Attempts == 0..(MaxAttempts - 1)

----------------------------------------------------------------------------
(* identity.go *)

deriveDeploymentSalt_NoType(t, q, n) ==
    <<IF t \in MCMTypes THEN "Proposer" ELSE t, q, n>>
\* (A name with a suffix is a faulty variant of the definition it precedes.)
deriveDeploymentSalt(t, q, n) == <<t, q, n>>
computeContractID(c, salt) == <<c, salt[1], salt[2], salt[3]>>
ContractID(c, t, q, n) == computeContractID(c, deriveDeploymentSalt(t, q, n))

IDs == Chains \X Types \X Qualifiers \X Attempts
NoID == <<>>

WasmHash(rel, t) == IF t = "Timelock" THEN <<"timelock", rel.tl>> ELSE <<"mcms", rel.mcm>>

TimelockInit == [delay: Delays, p: IDs, c: IDs, b: IDs]
Wasms == {"timelock"} \X {r.tl : r \in Releases} \cup {"mcms"} \X {r.mcm : r \in Releases}
Contract == [wasm: Wasms \cup {NoWasm}, owner: {Deployer, Governance, NoOwner},
             cfg: Configs \cup {NoConfig}, init: TimelockInit \cup {NoInit}]
Absent == [wasm |-> NoWasm, owner |-> NoOwner, cfg |-> NoConfig, init |-> NoInit]

ASSUME AttemptsAssumption == MaxAttempts \in Nat /\ MaxFaults \in Nat
ASSUME InputsAssumption == Inputs \subseteq ChainInput
ASSUME ReleasesAssumption == \A r \in Releases : DOMAIN r = {"mcm", "tl"}
ASSUME SentinelAssumption ==
    /\ NoWasm \notin Wasms /\ NoConfig \notin Configs /\ NoInit \notin TimelockInit
    /\ NoRun \notin Inputs \cup Releases
    /\ NoOwner \notin {Deployer, Governance} /\ Deployer # Governance

VARIABLES
    ledger,   \* [IDs -> Contract]
    ds,       \* [Keys -> IDs or NoID]: the address refs of the datastore
    reports,  \* [Procs -> successful reports of the process's bundle]
    pc,       \* [Procs -> where the run is]
    req,      \* [Procs -> the submitted input]
    rel,      \* [Procs -> the release it runs]
    env,      \* [Procs -> the datastore as loaded when the run started]
    have,     \* [Procs -> contract IDs the sequence has collected]
    id,       \* [Procs -> contract ID the running operation works on]
    owner,    \* [Procs -> result of GetOwner]
    faults

locals == <<env, have, id, owner>>
vars == <<ledger, ds, reports, pc, req, rel, locals, faults>>

NoRefs == [k \in Keys |-> NoID]
NoAddresses == [t \in Types |-> NoID]
NoReports == [seq |-> {}, op |-> {}]

----------------------------------------------------------------------------
(* The running operation of process p *)

\* sequence.go: a type with a ref in the datastore is not deployed.
loadAddressRef(e, i) == [t \in Types |-> e[<<i.c, t, i.q>>]]
Discovered(p) == {t \in Types : have[p][t] # NoID /\ env[p][<<req[p].c, t, req[p].q>>] = NoID}

Missing(h) == {n \in 1..4 : h[DeployOrder[n]] = NoID}
Current(p) == DeployOrder[CHOOSE n \in Missing(have[p]) : \A m \in Missing(have[p]) : n <= m]

TimelockInput_Swapped(p) ==
    [delay |-> req[p].delay, p |-> have[p]["Canceller"], c |-> have[p]["Proposer"],
     b |-> have[p]["Bypasser"]]
TimelockInput(p) ==
    [delay |-> req[p].delay, p |-> have[p]["Proposer"], c |-> have[p]["Canceller"],
     b |-> have[p]["Bypasser"]]
OpKey_NoChain(p) ==
    [t |-> Current(p), q |-> req[p].q,
     in |-> IF Current(p) = "Timelock" THEN TimelockInput(p) ELSE req[p].cfg[Current(p)]]
OpKey(p) ==
    [c |-> req[p].c, t |-> Current(p), q |-> req[p].q,
     in |-> IF Current(p) = "Timelock" THEN TimelockInput(p) ELSE req[p].cfg[Current(p)]]

OpKeys == [c: Chains, t: Types, q: Qualifiers, in: TimelockInit \cup Configs]

Reusable(set, k) == \E r \in set : r.k = k
OutputOf(set, k) == (CHOOSE r \in set : r.k = k).out

\* The salt attempts whose address is free or holds the expected WASM.
Candidates_NoAdopt(c, t, q, w) == {n \in Attempts : ledger[ContractID(c, t, q, n)].wasm = NoWasm}
Candidates(c, t, q, w) == {n \in Attempts : ledger[ContractID(c, t, q, n)].wasm \in {NoWasm, w}}
FirstOf(S) == CHOOSE n \in S : \A m \in S : n <= m

\* A run goes on from its MCMs with three different ones only.
validateDistinctMCMs(h) == \A s, t \in MCMTypes : h[s] = h[t] => s = t
Distinct(p) == Current(p) = "Timelock" => validateDistinctMCMs(have[p])
CanReuse(p) == Reusable(reports[p].op, OpKey(p)) /\ Distinct(p)

----------------------------------------------------------------------------
(* How a run ends *)

\* Apply returns, with or without an error, or the process dies.
Return(p) ==
    /\ pc' = [pc EXCEPT ![p] = "idle"]
    /\ env' = [env EXCEPT ![p] = NoRefs]
    /\ have' = [have EXCEPT ![p] = NoAddresses]
    /\ id' = [id EXCEPT ![p] = NoID]
    /\ owner' = [owner EXCEPT ![p] = NoOwner]
    /\ req' = [req EXCEPT ![p] = NoRun] /\ rel' = [rel EXCEPT ![p] = NoRun]

\* The environment's faults: counted, so that a run without them succeeds.
CountFault == faults < MaxFaults /\ faults' = faults + 1

Goto(p, l) == pc' = [pc EXCEPT ![p] = l]

NextStage(h) == IF Missing(h) = {} THEN "finish" ELSE "ensure"

Obtained_NoReset(p, a) ==
    /\ have' = [have EXCEPT ![p][Current(p)] = a]
    /\ owner' = [owner EXCEPT ![p] = NoOwner]
    /\ Goto(p, NextStage(have'[p]))
    /\ UNCHANGED <<req, rel, env, id>>

\* The operation of the current type returned contract a.
Obtained(p, a) ==
    /\ have' = [have EXCEPT ![p][Current(p)] = a]
    /\ id' = [id EXCEPT ![p] = NoID]
    /\ owner' = [owner EXCEPT ![p] = NoOwner]
    /\ Goto(p, NextStage(have'[p]))
    /\ UNCHANGED <<req, rel, env>>

\* ... by executing: its report is kept.
Succeed(p) ==
    /\ reports' = [reports EXCEPT ![p].op = @ \cup {[k |-> OpKey(p), out |-> id[p]]}]
    /\ Obtained(p, id[p])

----------------------------------------------------------------------------
(* Actions of a run *)

Start(p, i, r) ==
    /\ pc[p] = "idle"
    /\ req' = [req EXCEPT ![p] = i] /\ rel' = [rel EXCEPT ![p] = r]
    /\ env' = [env EXCEPT ![p] = ds]
    /\ IF Reusable(reports[p].seq, i)
       THEN /\ have' = [have EXCEPT ![p] = OutputOf(reports[p].seq, i)]
            /\ Goto(p, "record")
       ELSE /\ have' = [have EXCEPT ![p] = loadAddressRef(ds, i)]
            /\ Goto(p, NextStage(have'[p]))
    /\ UNCHANGED <<ledger, ds, reports, id, owner, faults>>

\* ensureMCM or ensureTimelock: the operation has a successful report.
ReuseOperation(p) ==
    /\ pc[p] = "ensure" /\ CanReuse(p)
    /\ Obtained(p, OutputOf(reports[p].op, OpKey(p)))
    /\ UNCHANGED <<ledger, ds, reports, faults>>

\* resolveDeploymentIdentity.  An address that holds another WASM keeps it, so
\* only the last ledger read of the loop matters and the loop is one step.
resolveDeploymentIdentity(p) ==
    /\ pc[p] = "ensure" /\ ~CanReuse(p)
    /\ LET t == Current(p)
           w == WasmHash(rel[p], t)
           C == Candidates(req[p].c, t, req[p].q, w)
           a == ContractID(req[p].c, t, req[p].q, FirstOf(C))
       IN  IF C = {} \/ ~Distinct(p)
           THEN Return(p)
           ELSE /\ id' = [id EXCEPT ![p] = a]
                /\ Goto(p, IF ledger[a].wasm = NoWasm THEN "deploy" ELSE "inspect")
                /\ UNCHANGED <<req, rel, env, have, owner>>
    /\ UNCHANGED <<ledger, ds, reports, faults>>

\* DeployContractBytes fails when another run has created the contract meanwhile.
Deployed(p) ==
    [ledger EXCEPT ![id[p]].wasm = WasmHash(rel[p], Current(p))]

DeployContractBytes(p) ==
    /\ pc[p] = "deploy"
    /\ IF ledger[id[p]].wasm # NoWasm THEN Return(p) /\ UNCHANGED ledger
       ELSE /\ ledger' = Deployed(p)
            /\ Goto(p, IF Current(p) = "Timelock" THEN "initialize" ELSE "inspect")
            /\ UNCHANGED <<req, rel, locals>>
    /\ UNCHANGED <<ds, reports, faults>>

LoseDeploy(p) ==
    /\ pc[p] = "deploy" /\ ledger[id[p]].wasm = NoWasm
    /\ ledger' = Deployed(p)
    /\ Return(p) /\ CountFault
    /\ UNCHANGED <<ds, reports>>

\* deployStellarMCM: without an owner the MCM is not initialized yet.
GetOwner(p) ==
    /\ pc[p] = "inspect" /\ Current(p) # "Timelock"
    /\ owner' = [owner EXCEPT ![p] = ledger[id[p]].owner]
    /\ Goto(p, IF owner'[p] = NoOwner THEN "initialize" ELSE "config")
    /\ UNCHANGED <<ledger, ds, reports, req, rel, env, have, id, faults>>

IsInitialized_Adopted(p) ==
    /\ pc[p] = "inspect" /\ Current(p) = "Timelock"
    /\ Succeed(p)
    /\ UNCHANGED <<ledger, ds, faults>>

\* deployStellarTimelock: an initialized timelock is adopted as it is.
IsInitialized(p) ==
    /\ pc[p] = "inspect" /\ Current(p) = "Timelock"
    /\ IF ledger[id[p]].init = NoInit
       THEN /\ Goto(p, "initialize")
            /\ UNCHANGED <<reports, req, rel, locals>>
       ELSE Succeed(p)
    /\ UNCHANGED <<ledger, ds, faults>>

\* The contract's initialize entry point accepts one call.
Uninitialized(p) ==
    IF Current(p) = "Timelock" THEN ledger[id[p]].init = NoInit
                               ELSE ledger[id[p]].owner = NoOwner
Initialized(p) ==
    IF Current(p) = "Timelock"
    THEN [ledger EXCEPT ![id[p]].init = TimelockInput(p)]
    ELSE [ledger EXCEPT ![id[p]].owner = Deployer, ![id[p]].cfg = req[p].cfg[Current(p)]]

Initialize(p) ==
    /\ pc[p] = "initialize"
    /\ IF Uninitialized(p) THEN ledger' = Initialized(p) /\ Succeed(p)
       ELSE Return(p) /\ UNCHANGED <<ledger, reports>>
    /\ UNCHANGED <<ds, faults>>

LoseInitialize(p) ==
    /\ pc[p] = "initialize" /\ Uninitialized(p)
    /\ ledger' = Initialized(p)
    /\ Return(p) /\ CountFault
    /\ UNCHANGED <<ds, reports>>

\* An adopted MCM: compare its config; only the deployer's own MCM is changed.
GetConfig(p) ==
    /\ pc[p] = "config"
    /\ CASE ledger[id[p]].cfg = req[p].cfg[Current(p)] -> Succeed(p)
         [] ledger[id[p]].cfg # req[p].cfg[Current(p)] /\ owner[p] # Deployer ->
              Return(p) /\ UNCHANGED reports
         [] OTHER -> Goto(p, "set") /\ UNCHANGED <<reports, req, rel, locals>>
    /\ UNCHANGED <<ledger, ds, faults>>

\* The contract accepts set_config from its owner only.
Configured(p) == [ledger EXCEPT ![id[p]].cfg = req[p].cfg[Current(p)]]

SetConfig(p) ==
    /\ pc[p] = "set"
    /\ IF ledger[id[p]].owner = Deployer THEN ledger' = Configured(p) /\ Succeed(p)
       ELSE Return(p) /\ UNCHANGED <<ledger, reports>>
    /\ UNCHANGED <<ds, faults>>

LoseSetConfig(p) ==
    /\ pc[p] = "set" /\ ledger[id[p]].owner = Deployer
    /\ ledger' = Configured(p)
    /\ Return(p) /\ CountFault
    /\ UNCHANGED <<ds, reports>>

\* The sequence succeeds, with a recorded timelock too only for three different
\* MCMs; its output holds the discovered contracts only.
SequenceOutput(p) == [t \in Types |-> IF t \in Discovered(p) THEN have[p][t] ELSE NoID]

Finish(p) ==
    /\ pc[p] = "finish"
    /\ IF validateDistinctMCMs(have[p])
       THEN /\ reports' = [reports EXCEPT ![p].seq = @ \cup {[k |-> req[p], out |-> SequenceOutput(p)]}]
            /\ have' = [have EXCEPT ![p] = SequenceOutput(p)]
            /\ Goto(p, "record")
            /\ UNCHANGED <<req, rel, env, id, owner>>
       ELSE Return(p) /\ UNCHANGED reports
    /\ UNCHANGED <<ledger, ds, faults>>

\* Apply's datastore (what the run loaded, overlaid with the sequence's output)
\* is merged into the persistent one.
Record(p) ==
    /\ pc[p] = "record"
    /\ ds' = [k \in Keys |->
                LET found == k[1] = req[p].c /\ k[3] = req[p].q /\ have[p][k[2]] # NoID
                IN  IF found THEN have[p][k[2]]
                    ELSE IF env[p][k] # NoID THEN env[p][k] ELSE ds[k]]
    /\ Return(p)
    /\ UNCHANGED <<ledger, reports, faults>>

\* A call fails without effect, another chain of the same Apply fails, or the
\* process dies.
Fail(p) ==
    /\ pc[p] # "idle"
    /\ Return(p) /\ CountFault
    /\ UNCHANGED <<ledger, ds, reports>>

----------------------------------------------------------------------------
(* The environment *)

\* The process starts over with an empty bundle.
LoseReports(p) ==
    /\ pc[p] = "idle" /\ reports[p] # NoReports /\ CountFault
    /\ reports' = [reports EXCEPT ![p] = NoReports]
    /\ UNCHANGED <<ledger, ds, pc, req, rel, locals>>

\* A recorded MCM's ownership moves to the timelock.
TransferOwnership(k) ==
    /\ ds[k] # NoID /\ ledger[ds[k]].owner = Deployer
    /\ ledger' = [ledger EXCEPT ![ds[k]].owner = Governance]
    /\ UNCHANGED <<ds, reports, pc, req, rel, locals, faults>>

Init ==
    /\ ledger = [a \in IDs |-> Absent]
    /\ ds = NoRefs
    /\ reports = [p \in Procs |-> NoReports]
    /\ pc = [p \in Procs |-> "idle"]
    /\ req = [p \in Procs |-> NoRun] /\ rel = [p \in Procs |-> NoRun]
    /\ env = [p \in Procs |-> NoRefs] /\ have = [p \in Procs |-> NoAddresses]
    /\ id = [p \in Procs |-> NoID] /\ owner = [p \in Procs |-> NoOwner]
    /\ faults = 0

Begin(p) == \E i \in Inputs, r \in Releases : Start(p, i, r)

Step(p) ==
    \/ ReuseOperation(p) \/ resolveDeploymentIdentity(p) \/ DeployContractBytes(p)
    \/ GetOwner(p) \/ IsInitialized(p) \/ Initialize(p) \/ GetConfig(p) \/ SetConfig(p)
    \/ Finish(p) \/ Record(p)

Fault(p) == LoseDeploy(p) \/ LoseInitialize(p) \/ LoseSetConfig(p) \/ Fail(p) \/ LoseReports(p)

Next ==
    \/ \E p \in Procs : Begin(p) \/ Step(p) \/ Fault(p)
    \/ \E k \in Keys : TransferOwnership(k)

Spec == Init /\ [][Next]_vars

\* A started run proceeds, and no input is given up: it is submitted again and
\* again.
FairSpec ==
    /\ Spec
    /\ \A p \in Procs : WF_vars(Step(p))
    /\ \A p \in Procs, i \in Inputs : SF_vars(\E r \in Releases : Start(p, i, r))

----------------------------------------------------------------------------
(* Properties *)

\* The types of the variables, and how a run's bookkeeping goes with its step: it
\* holds a contract ID exactly while it deploys, initializes or configures one.
TypeOK ==
    /\ ledger \in [IDs -> Contract]
    /\ ds \in [Keys -> IDs \cup {NoID}]
    /\ reports \in [Procs -> [seq: SUBSET [k: Inputs, out: [Types -> IDs \cup {NoID}]],
                             op: SUBSET [k: OpKeys, out: IDs]]]
    /\ pc \in [Procs -> {"idle", "ensure", "deploy", "inspect", "initialize", "config", "set",
                         "finish", "record"}]
    /\ req \in [Procs -> Inputs \cup {NoRun}] /\ rel \in [Procs -> Releases \cup {NoRun}]
    /\ env \in [Procs -> [Keys -> IDs \cup {NoID}]]
    /\ have \in [Procs -> [Types -> IDs \cup {NoID}]]
    /\ id \in [Procs -> IDs \cup {NoID}]
    /\ owner \in [Procs -> {Deployer, Governance, NoOwner}]
    /\ faults \in 0..MaxFaults
    /\ \A p \in Procs :
         /\ pc[p] # "idle" => req[p] \in Inputs /\ rel[p] \in Releases
         /\ pc[p] \in {"deploy", "inspect", "initialize", "config", "set"} <=> id[p] # NoID
         /\ pc[p] \in {"ensure", "deploy", "inspect", "initialize", "config", "set"} =>
              Missing(have[p]) # {}

Exists(a) == ledger[a].wasm # NoWasm

\* At most one instance of each artifact per chain, type and qualifier, whatever
\* runs crash, lose results or reports, or race each other: a run adopts what
\* resolveDeploymentIdentity finds instead of creating it again.
OneInstance ==
    \A a, b \in IDs :
       /\ Exists(a) /\ a[1] = b[1] /\ a[2] = b[2] /\ a[3] = b[3]
       /\ ledger[a].wasm = ledger[b].wasm
       => a = b

\* Creating and initializing a contract are two transactions, yet no run records
\* a contract that is not initialized, adopted contracts included.
RecordedInitialized ==
    \A k \in Keys : ds[k] # NoID =>
       IF k[2] = "Timelock" THEN ledger[ds[k]].init # NoInit
       ELSE ledger[ds[k]].owner # NoOwner /\ ledger[ds[k]].cfg # NoConfig

OneRelease == \A r, s \in Releases : r.mcm = s.mcm

\* When all runs use the same MCMS artifact, the roles of a recorded timelock are
\* held by the MCMs recorded with it, even if another run initialized it.
Wired ==
    OneRelease => \A c \in Chains, q \in Qualifiers :
       ds[<<c, "Timelock", q>>] # NoID =>
          LET tl == ledger[ds[<<c, "Timelock", q>>]].init IN
          /\ tl.p = ds[<<c, "Proposer", q>>]
          /\ tl.c = ds[<<c, "Canceller", q>>]
          /\ tl.b = ds[<<c, "Bypasser", q>>]

\* The refinement mapping: the contracts of a key are the ones on the ledger.
Created == [k \in Keys |-> {a \in IDs : Exists(a) /\ <<a[1], a[2], a[3]>> = k}]
Promise == INSTANCE DeploymentRecord WITH
    Addrs <- IDs, NoAddr <- NoID, refs <- ds, created <- Created

\* What is recorded are contracts of that chain, type and qualifier
\* (DeploymentRecord), although contract IDs are derived, adopted and reused.
RefinesRecord == Promise!RecordSpec

\* opDeployTimelock "ensures it is initialized with the MCMS role topology": the
\* timelock it returns gives its roles to the MCMs it was called with.
TimelockTopology ==
    \A p \in Procs :
       (pc[p] = "finish" /\ "Timelock" \in Discovered(p)) =>
          LET tl == ledger[have[p]["Timelock"]].init IN
          <<tl.p, tl.c, tl.b>> = <<have[p]["Proposer"], have[p]["Canceller"], have[p]["Bypasser"]>>

----------------------------------------------------------------------------
(* The inductive invariant behind the safety properties.                   *)

\* Contract a belongs to chain c, type t and qualifier q, is on the ledger and
\* initialized.
Ready(a) ==
    IF a[2] = "Timelock" THEN ledger[a].init # NoInit
    ELSE ledger[a].owner # NoOwner /\ ledger[a].cfg # NoConfig
Belongs(c, t, q, a) == a \in IDs /\ a[1] = c /\ a[2] = t /\ a[3] = q
Usable(c, t, q, a) == Belongs(c, t, q, a) /\ Exists(a) /\ Ready(a)

\* The salt attempts are taken in order, each by an artifact of its type.
AttemptsInOrder ==
    /\ \A a, b \in IDs : Exists(b) /\ Belongs(b[1], b[2], b[3], a) /\ a[4] < b[4] => Exists(a)
    /\ \A a \in IDs : Exists(a) => ledger[a].wasm \in {WasmHash(r, a[2]) : r \in Releases}

\* A timelock's roles went to initialized MCMs of its chain and qualifier.
HoldersUsable ==
    \A a \in IDs : ledger[a].init # NoInit =>
       /\ Usable(a[1], "Proposer", a[3], ledger[a].init.p)
       /\ Usable(a[1], "Canceller", a[3], ledger[a].init.c)
       /\ Usable(a[1], "Bypasser", a[3], ledger[a].init.b)

\* Refs, and the refs a run has loaded, are usable; a timelock is recorded with
\* its MCMs.
RefsUsable ==
    /\ \A k \in Keys : ds[k] # NoID => Usable(k[1], k[2], k[3], ds[k])
    /\ \A p \in Procs, k \in Keys :
         env[p][k] # NoID => ds[k] # NoID /\ Usable(k[1], k[2], k[3], env[p][k])
    /\ \A c \in Chains, q \in Qualifiers : ds[<<c, "Timelock", q>>] # NoID =>
         \A t \in MCMTypes : ds[<<c, t, q>>] # NoID

\* What a report returns is usable, and what a sequence report leaves out is
\* recorded.
Complete(i, out) ==
    \A t \in Types : IF out[t] # NoID THEN Usable(i.c, t, i.q, out[t]) ELSE ds[<<i.c, t, i.q>>] # NoID
ReportsUsable ==
    \A p \in Procs :
       /\ \A r \in reports[p].op : Usable(r.k.c, r.k.t, r.k.q, r.out)
       /\ \A r \in reports[p].seq : Complete(r.k, r.out)

\* What a run has collected is usable.  The contract it works on is its key's; while
\* it is not created, the attempts below hold other artifacts.
Skipped(p) ==
    \A a \in IDs : Belongs(req[p].c, Current(p), req[p].q, a) /\ a[4] < id[p][4] =>
       ledger[a].wasm \notin {NoWasm, WasmHash(rel[p], Current(p))}
RunUsable(p) ==
    /\ \A t \in Types : have[p][t] # NoID => Usable(req[p].c, t, req[p].q, have[p][t])
    /\ pc[p] = "finish" => Missing(have[p]) = {}
    /\ pc[p] = "record" => Complete(req[p], have[p])
    /\ id[p] # NoID => Belongs(req[p].c, Current(p), req[p].q, id[p])
    /\ pc[p] = "deploy" => Skipped(p)
    /\ pc[p] \in {"inspect", "initialize", "config", "set"} => Exists(id[p])
    /\ pc[p] \in {"config", "set"} => Current(p) # "Timelock" /\ ledger[id[p]].owner # NoOwner

IInv ==
    /\ TypeOK /\ OneInstance /\ AttemptsInOrder /\ HoldersUsable /\ RefsUsable /\ ReportsUsable
    /\ \A p \in Procs : RunUsable(p)

\* Runs that are repeated succeed in the end: the four contracts are recorded,
\* whatever an interrupted or a concurrent run left on the ledger.
EventuallyRecorded ==
    <>(\A i \in Inputs, t \in Types : ds[<<i.c, t, i.q>>] # NoID)
=============================================================================
