--------------------------- MODULE CustomTopology ---------------------------
(***************************************************************************)
(* The deploy-custom-topology changeset and its EVM sequence:              *)
(*   mcms/changesets/deploy-custom-topology/changeset.go                   *)
(*   mcms/evm/deploy-custom-topology/sequence.go                           *)
(*                                                                         *)
(* An input names any number of MCMs and timelocks per chain by ref, wires *)
(* timelock roles to refs or addresses, and moves ownable contracts to the *)
(* timelocks.  Nothing is looked up in the datastore: what a retry finds   *)
(* again it finds in the reports of its bundle.  A failed run returns the  *)
(* refs of the chains it finished, and no proposal.                        *)
(***************************************************************************)
EXTENDS Integers, Sequences, FiniteSets

CONSTANTS
    Chains,      \* chain selectors (naturals: Apply sorts them)
    Inputs,      \* [by: chain -> topology, mcms: whether Input.MCMS is set]
    Deployer, Nobody, Eoa,
    NoConfig, NoInput,
    MaxAddr,     \* bound: contracts per chain
    MaxFails     \* bound: failed runs, lost results and fresh bundles

\* A topology is [mcms, tls]: mcms a sequence of [ref, t, q, cfg], tls a sequence
\* of [ref, q, delay, proxy, roles, take]; a role holder is <<"ref", r>> or
\* <<"addr", a>>.
Roles == {"PROPOSER", "CANCELLER", "BYPASSER", "EXECUTOR", "ADMIN"}

ASSUME ChainsAssumption ==
    Chains \subseteq Nat /\ \A i \in Inputs : DOMAIN i.by \in (SUBSET Chains) \ {{}}
ASSUME BoundsAssumption == {MaxAddr, MaxFails} \subseteq Nat
\* No address that is deployed here is the deployer's.
ASSUME ValuesAssumption ==
    Deployer \notin Nat /\ Nobody \notin Nat /\ Deployer # Nobody /\ NoInput \notin Inputs

VARIABLES
    code,       \* [Chains -> Seq(contract)]: an address is an index
    ds,         \* address refs: <<chain, type, qualifier>> -> address
    proposals,  \* timelock proposals returned and not executed
    reports,    \* successful reports of the bundle
    pc, req, todo,
    ms, ts,     \* MCM and timelock specs of the chain still to be deployed
    refToAddr,  \* spec ref -> address, for the chain in progress
    grants,     \* role grants of the timelock in progress
    takes,      \* contracts still to be transferred to that timelock
    out, agg,   \* [refs, first, batches] of the chain in progress, of the finished
                \* chains: the refs as the datastore takes them, where the last of two
                \* with the same key stays, and the first MCM ref of each key
    unmoved,    \* targets this run did not move: not the deployer's, or moved on since
    reset,      \* <<chain, MCM>> whose signer config replaced another
    fails

chainVars == <<ms, ts, refToAddr, grants, takes, out>>
vars == <<code, ds, proposals, reports, pc, req, todo, chainVars, agg, unmoved, reset, fails>>

NoOutput == [refs |-> <<>>, first |-> <<>>, batches |-> {}]
NoReports == [op \in {"chain", "deploy", "config", "grant", "transfer"} |-> {}]
Reusable(op, k) == \E r \in reports[op] : r.k = k
OutputOf(op, k) == (CHOOSE r \in reports[op] : r.k = k).out
Report(op, k, o) == reports' = [reports EXCEPT ![op] = @ \cup {[k |-> k, out |-> o]}]

elems(s) == {s[n] : n \in DOMAIN s}

\* A map of one entry, and the map that has f's entries and, for other keys, g's.
Entry(k, a) == [x \in {k} |-> a]
Over(f, g) == [k \in DOMAIN f \cup DOMAIN g |-> IF k \in DOMAIN f THEN f[k] ELSE g[k]]

----------------------------------------------------------------------------
(* VerifyPreconditions *)

Refs(s) == {s[n].ref : n \in DOMAIN s}
Holders(tl) == (UNION {elems(tl.roles[r]) : r \in Roles}) \cup elems(tl.take)

\* A role holder is either a ref or an address; an MCM is of one of three types
\* (mcmTypeVersion), none of them a timelock's or a call proxy's.
WellFormed(t) ==
    /\ t.mcms \in Seq(elems(t.mcms)) /\ t.tls \in Seq(elems(t.tls))
    /\ \A m \in elems(t.mcms) : m.t \notin {"Timelock", "CallProxy"} /\ m.cfg # NoConfig
    /\ \A tl \in elems(t.tls) : \A h \in Holders(tl) : h[1] \in {"ref", "addr"}
ASSUME InputsAssumption == \A i \in Inputs : \A c \in DOMAIN i.by : WellFormed(i.by[c])

validateRoleHolders(tl, declared) ==
    \A h \in Holders(tl) : h[1] = "ref" => h[2] \in declared

validateChainConfig(t, mcms) ==
    /\ t.mcms # <<>> \/ t.tls # <<>>
    /\ Cardinality(Refs(t.mcms)) = Len(t.mcms)
    /\ Cardinality(Refs(t.tls)) = Len(t.tls)
    /\ Refs(t.mcms) \cap Refs(t.tls) = {}
    /\ \A tl \in elems(t.tls) :
          validateRoleHolders(tl, Refs(t.mcms)) /\ (tl.take # <<>> => mcms)

validateConfig(i) == \A c \in DOMAIN i.by : validateChainConfig(i.by[c], i.mcms)

----------------------------------------------------------------------------
(* Apply *)

Start(i) ==
    /\ pc = "idle" /\ validateConfig(i)
    /\ req' = i /\ todo' = DOMAIN i.by /\ agg' = NoOutput /\ pc' = "chain"
    /\ unmoved' = {}
    /\ UNCHANGED <<code, ds, proposals, reports, chainVars, reset, fails>>

\* The chain Apply is at, its topology and the input of its sequence.
ch == CHOOSE c \in todo : \A d \in todo : c <= d
cfg == req.by[ch]
ChainInput == [ch |-> ch, cfg |-> cfg, mcms |-> req.mcms]

Merge_Last(o) == agg' = o
Merge(o) ==
    agg' = [refs |-> Over(o.refs, agg.refs), first |-> Over(agg.first, o.first),
            batches |-> agg.batches \cup o.batches]

\* Targets of a reused report that have gone to another timelock since.
MovedOn(o) ==
    {<<ch, x>> : x \in UNION {{y \in b.to : b.tl \notin {code[ch][y].pending, code[ch][y].owner}} :
                                 b \in o.batches}}

ReuseChain ==
    /\ pc = "chain" /\ todo # {} /\ Reusable("chain", ChainInput)
    /\ Merge(OutputOf("chain", ChainInput))
    /\ unmoved' = unmoved \cup MovedOn(OutputOf("chain", ChainInput))
    /\ todo' = todo \ {ch}
    /\ UNCHANGED <<code, ds, proposals, reports, pc, req, chainVars, reset, fails>>

StartChain ==
    /\ pc = "chain" /\ todo # {} /\ ~Reusable("chain", ChainInput)
    /\ ms' = cfg.mcms /\ ts' = cfg.tls /\ refToAddr' = <<>>
    /\ out' = NoOutput
    /\ pc' = "deploy"
    /\ UNCHANGED <<code, ds, proposals, reports, req, todo, grants, takes, agg, unmoved, reset, fails>>

ChainDone ==
    /\ pc = "deploy" /\ ms = <<>> /\ ts = <<>>
    /\ Report("chain", ChainInput, out)
    /\ Merge(out)
    /\ todo' = todo \ {ch} /\ pc' = "chain" /\ out' = NoOutput /\ refToAddr' = <<>>
    /\ UNCHANGED <<code, ds, proposals, req, ms, ts, grants, takes, unmoved, reset, fails>>

----------------------------------------------------------------------------
(* Deployments *)

MCM == Head(ms)
Timelock == Head(ts)
tlAddr == refToAddr[Timelock.ref]

newAddressRef(t, q, a) == Entry(<<ch, t, q>>, a)
NoRoles == [r \in Roles |-> {}]

resolveHolders(hs) ==
    {IF h[1] = "ref" THEN refToAddr[h[2]] ELSE h[2] : h \in elems(hs)}

\* The idempotency key and the input of a deploy operation.
DeployKey_ChainOnly(kind, ref, in) == [key |-> <<ch>>, in |-> <<>>]
DeployKey(kind, ref, in) == [key |-> <<ch, kind, ref>>, in |-> in]

\* Deploying returns the address of the reused report or of a new contract.
Deployed(k, c) ==
    IF Reusable("deploy", k) THEN code ELSE [code EXCEPT ![ch] = Append(@, c)]
DeployedAddress(k) ==
    IF Reusable("deploy", k) THEN OutputOf("deploy", k) ELSE Len(code[ch]) + 1

DeployOp(k, c) ==
    /\ Len(code[ch]) < MaxAddr
    /\ code' = Deployed(k, c)
    /\ Report("deploy", k, DeployedAddress(k))

NewContract(kind, roles, owner) ==
    [kind |-> kind, cfg |-> NoConfig, roles |-> roles, owner |-> owner, pending |-> Nobody]

mcmKey == DeployKey("mcm", MCM.ref, [t |-> MCM.t, q |-> MCM.q])

deployMCM ==
    /\ pc = "deploy" /\ ms # <<>>
    /\ DeployOp(mcmKey, NewContract(MCM.t, NoRoles, Deployer))
    /\ refToAddr' = Over(Entry(MCM.ref, DeployedAddress(mcmKey)), refToAddr)
    /\ pc' = "config"
    /\ UNCHANGED <<ds, proposals, req, todo, ms, ts, grants, takes, out, agg, unmoved, reset, fails>>

configKey == [ch |-> ch, a |-> refToAddr[MCM.ref], cfg |-> MCM.cfg]

Configured == [code EXCEPT ![ch][refToAddr[MCM.ref]].cfg = MCM.cfg]
Replaced ==
    IF code[ch][refToAddr[MCM.ref]].cfg \in {NoConfig, MCM.cfg} THEN reset
    ELSE reset \cup {<<ch, refToAddr[MCM.ref]>>}

deployMCMWithConfig ==
    /\ pc = "config"
    /\ IF Reusable("config", configKey) THEN UNCHANGED <<code, reset>>
       ELSE code' = Configured /\ reset' = Replaced
    /\ Report("config", configKey, {})
    /\ LET ref == newAddressRef(MCM.t, MCM.q, refToAddr[MCM.ref])
       IN  out' = [out EXCEPT !.refs = Over(ref, @), !.first = Over(@, ref)]
    /\ ms' = Tail(ms) /\ pc' = "deploy"
    /\ UNCHANGED <<ds, proposals, req, todo, ts, refToAddr, grants, takes, agg, unmoved, fails>>

\* The constructor grants proposers, cancellers and bypassers and makes the
\* deployer the admin; executors are granted afterwards.
ConstructorRoles ==
    [r \in Roles |-> CASE r = "EXECUTOR" -> {}
                       [] r = "ADMIN"    -> {Deployer}
                       [] OTHER          -> resolveHolders(Timelock.roles[r])]

timelockKey == DeployKey("timelock", Timelock.ref,
    [q |-> Timelock.q, delay |-> Timelock.delay, roles |-> ConstructorRoles])

deployTimelock ==
    /\ pc = "deploy" /\ ms = <<>> /\ ts # <<>>
    /\ DeployOp(timelockKey, NewContract("Timelock", ConstructorRoles, Nobody))
    /\ refToAddr' = Over(Entry(Timelock.ref, DeployedAddress(timelockKey)), refToAddr)
    /\ out' = [out EXCEPT !.refs =
                 Over(newAddressRef("Timelock", Timelock.q, DeployedAddress(timelockKey)), @)]
    /\ pc' = "proxy"
    /\ UNCHANGED <<ds, proposals, req, todo, ms, ts, grants, takes, agg, unmoved, reset, fails>>

RoleOrder == <<"PROPOSER", "CANCELLER", "BYPASSER", "EXECUTOR", "ADMIN">>

\* grantRoles: per role, the addresses that do not hold it yet; holders of ADMIN
\* are not read.  proxy is the call proxy, if any.
Granted(n) == IF RoleOrder[n] = "ADMIN" THEN {} ELSE code[ch][tlAddr].roles[RoleOrder[n]]
grantRoles(proxy) ==
    [n \in 1..5 |-> (resolveHolders(Timelock.roles[RoleOrder[n]])
                       \cup CASE RoleOrder[n] = "EXECUTOR" -> proxy
                              [] RoleOrder[n] = "ADMIN"    -> {tlAddr}
                              [] OTHER                     -> {}) \ Granted(n)]

BeginGrants(proxy) ==
    /\ grants' = grantRoles(proxy)
    /\ takes' = resolveHolders(Timelock.take)
    /\ pc' = "grant"

proxyKey == DeployKey("callproxy", Timelock.ref, [q |-> Timelock.q, tl |-> tlAddr])

deployCallProxy ==
    /\ pc = "proxy" /\ Timelock.proxy
    /\ DeployOp(proxyKey, NewContract("CallProxy", NoRoles, Nobody))
    /\ out' = [out EXCEPT !.refs =
                 Over(newAddressRef("CallProxy", Timelock.q, DeployedAddress(proxyKey)), @)]
    /\ BeginGrants({DeployedAddress(proxyKey)})
    /\ UNCHANGED <<ds, proposals, req, todo, ms, ts, refToAddr, agg, unmoved, reset, fails>>

skipCallProxy ==
    /\ pc = "proxy" /\ ~Timelock.proxy
    /\ BeginGrants({})
    /\ UNCHANGED <<code, ds, proposals, reports, req, todo, ms, ts, refToAddr, out, agg, unmoved,
                   reset, fails>>

----------------------------------------------------------------------------
(* grantRoles and transferContractsToTimelock *)

Granting == \E n \in 1..5 : grants[n] # {}
NextRole == CHOOSE n \in 1..5 : grants[n] # {} /\ \A k \in 1..(n - 1) : grants[k] = {}
Grantee == CHOOSE a \in grants[NextRole] : TRUE
grantKey == [ch |-> ch, tl |-> tlAddr, role |-> NextRole, a |-> Grantee]

RoleGranted == [code EXCEPT ![ch][tlAddr].roles[RoleOrder[NextRole]] = @ \cup {Grantee}]

grantRole ==
    /\ pc = "grant" /\ Granting
    /\ code' = IF Reusable("grant", grantKey) THEN code ELSE RoleGranted
    /\ Report("grant", grantKey, {})
    /\ grants' = [grants EXCEPT ![NextRole] = @ \ {Grantee}]
    /\ UNCHANGED <<ds, proposals, pc, req, todo, ms, ts, refToAddr, takes, out, agg, unmoved, reset, fails>>

Target == CHOOSE x \in takes : TRUE
ownableContractIdempotencyKey == [ch |-> ch, x |-> Target, tl |-> tlAddr]
Transferred ==
    IF code[ch][Target].owner = Deployer
    THEN [code EXCEPT ![ch][Target].pending = tlAddr] ELSE code

\* A target that is not there or not ownable fails the run.
OwnerRead == Target \in DOMAIN code[ch] /\ code[ch][Target].owner # Nobody

\* A contract the timelock owns is left out; otherwise the deployer transfers
\* it (a transfer by another account than the owner is not sent, and succeeds).
transferContractToTimelock ==
    /\ pc = "grant" /\ ~Granting /\ takes # {} /\ OwnerRead
    /\ IF code[ch][Target].owner = tlAddr
       THEN takes' = takes \ {Target} /\ UNCHANGED <<code, reports, pc, unmoved>>
       ELSE /\ code' = IF Reusable("transfer", ownableContractIdempotencyKey) THEN code
                       ELSE Transferred
            /\ Report("transfer", ownableContractIdempotencyKey, {})
            /\ unmoved' = IF code'[ch][Target].pending = tlAddr THEN unmoved
                          ELSE unmoved \cup {<<ch, Target>>}
            /\ pc' = "accept" /\ takes' = takes
    /\ UNCHANGED <<ds, proposals, req, todo, ms, ts, refToAddr, grants, out, agg, reset, fails>>

\* The owner is read again: the transfer may have been accepted meanwhile.
Batches(B) == {[ch |-> ch, tl |-> tlAddr, to |-> B]}
acceptOwnership ==
    /\ pc = "accept"
    /\ LET old == {b \in out.batches : b.tl = tlAddr}
           to == (UNION {b.to : b \in old}) \cup {Target}
       IN  out' = IF code[ch][Target].owner = tlAddr THEN out
                  ELSE [out EXCEPT !.batches = (@ \ old) \cup Batches(to)]
    /\ takes' = takes \ {Target} /\ pc' = "grant"
    /\ UNCHANGED <<code, ds, proposals, reports, req, todo, ms, ts, refToAddr, grants, agg, unmoved,
                   reset, fails>>

timelockDone ==
    /\ pc = "grant" /\ ~Granting /\ takes = {}
    /\ ts' = Tail(ts) /\ pc' = "deploy" /\ grants' = <<>>
    /\ UNCHANGED <<code, ds, proposals, reports, req, todo, ms, refToAddr, takes, out, agg, unmoved,
                   reset, fails>>

----------------------------------------------------------------------------
(* buildOutput *)

sortedQualifiersWithTransfers ==
    {tl.q : tl \in {t \in UNION {elems(req.by[c].tls) : c \in DOMAIN req.by} : t.take # <<>>}}

MCMSpecs(c, r) == {m \in elems(req.by[c].mcms) : m.ref = r}

\* An MCM ref is resolved to the first aggregated ref of its type and qualifier.
resolveRoleHolderAddress_AddrOnly(c, h) == IF h[1] = "addr" THEN {h[2]} ELSE {}
resolveRoleHolderAddress(c, h) ==
    IF h[1] = "addr" THEN {h[2]}
    ELSE {agg.first[<<c, m.t, m.q>>] : m \in {s \in MCMSpecs(c, h[2]) :
                                                <<c, s.t, s.q>> \in DOMAIN agg.first}}

transferTargets(c, tl) == UNION {resolveRoleHolderAddress(c, h) : h \in elems(tl.take)}
transferTargetAddressesForQualifier(c, q) ==
    UNION {transferTargets(c, tl) : tl \in {t \in elems(req.by[c].tls) : t.q = q}}

batchOpMatchesTargets(b, targets) == b.to \cap targets # {}

batchOpsForQualifier_All(q) == agg.batches
batchOpsForQualifier(q) ==
    {b \in agg.batches : batchOpMatchesTargets(b, transferTargetAddressesForQualifier(b.ch, q))}

\* The proposal of a qualifier: its timelock is resolved per chain from the refs
\* of this run (outDS).
ProposalTimelock(c, q) == agg.refs[<<c, "Timelock", q>>]
proposalInputForQualifier(q) ==
    {[q |-> q, ch |-> b.ch, tl |-> ProposalTimelock(b.ch, q), to |-> b.to] :
       b \in batchOpsForQualifier(q)}

End == pc' = "idle" /\ todo' = {} /\ req' = NoInput /\ agg' = NoOutput
Reset ==
    /\ End
    /\ ms' = <<>> /\ ts' = <<>> /\ refToAddr' = <<>> /\ grants' = <<>> /\ takes' = {}
    /\ out' = NoOutput

buildOutput ==
    /\ pc = "chain" /\ todo = {}
    /\ ds' = Over(agg.refs, ds)
    /\ proposals' = proposals \cup
          IF req.mcms THEN UNION {proposalInputForQualifier(q) : q \in sortedQualifiersWithTransfers}
          ELSE {}
    /\ End
    /\ UNCHANGED <<code, reports, chainVars, unmoved, reset, fails>>

\* A step fails: the refs of the finished chains are returned with the error,
\* and the caller records them or not.  There is no proposal.
ErrorRefs_WithChain == Over(out.refs, agg.refs)
ErrorRefs == agg.refs
Fail ==
    /\ pc # "idle" /\ fails < MaxFails /\ fails' = fails + 1
    /\ ds' \in {ds, Over(ErrorRefs, ds)}
    /\ reports' \in {reports, NoReports}
    /\ Reset
    /\ UNCHANGED <<code, proposals, unmoved, reset>>

\* A transaction is mined and its result lost: no report, and the run fails.
\* The retry may have a fresh bundle, as after a crash.
LoseResult(c, s) ==
    /\ code' = c /\ reset' = s
    /\ fails < MaxFails /\ fails' = fails + 1
    /\ reports' \in {reports, NoReports}
    /\ Reset
    /\ UNCHANGED <<ds, proposals, unmoved>>

LoseDeployMCM ==
    /\ pc = "deploy" /\ ms # <<>> /\ ~Reusable("deploy", mcmKey)
    /\ LoseResult(Deployed(mcmKey, NewContract(MCM.t, NoRoles, Deployer)), reset)
LoseConfig ==
    /\ pc = "config" /\ ~Reusable("config", configKey) /\ LoseResult(Configured, Replaced)
LoseDeployTimelock ==
    /\ pc = "deploy" /\ ms = <<>> /\ ts # <<>> /\ ~Reusable("deploy", timelockKey)
    /\ LoseResult(Deployed(timelockKey, NewContract("Timelock", ConstructorRoles, Nobody)), reset)
LoseDeployCallProxy ==
    /\ pc = "proxy" /\ Timelock.proxy /\ ~Reusable("deploy", proxyKey)
    /\ LoseResult(Deployed(proxyKey, NewContract("CallProxy", NoRoles, Nobody)), reset)
LoseGrant ==
    /\ pc = "grant" /\ Granting
    /\ ~Reusable("grant", grantKey) /\ LoseResult(RoleGranted, reset)
LoseTransfer ==
    /\ pc = "grant" /\ ~Granting /\ takes # {} /\ OwnerRead
    /\ code[ch][Target].owner # tlAddr
    /\ ~Reusable("transfer", ownableContractIdempotencyKey) /\ LoseResult(Transferred, reset)

\* The next run has a fresh bundle: no report to reuse.
NewBundle ==
    /\ pc = "idle" /\ fails < MaxFails /\ fails' = fails + 1
    /\ reports' = NoReports
    /\ UNCHANGED <<code, ds, proposals, pc, req, todo, chainVars, agg, unmoved, reset>>

\* A timelock executes a batch of accepts; all its calls must succeed.
ExecuteBatch(p) ==
    /\ \A x \in p.to : code[p.ch][x].pending = p.tl
    /\ code' = [code EXCEPT ![p.ch] = [a \in DOMAIN @ |->
                   IF a \in p.to THEN [@[a] EXCEPT !.owner = p.tl, !.pending = Nobody] ELSE @[a]]]
    /\ proposals' = proposals \ {p}
    /\ UNCHANGED <<ds, reports, pc, req, todo, chainVars, agg, unmoved, reset, fails>>

----------------------------------------------------------------------------
Token == NewContract("Token", NoRoles, Deployer)

Init ==
    /\ code = [c \in Chains |-> <<Token>>]
    /\ ds = <<>> /\ proposals = {} /\ reports = NoReports
    /\ pc = "idle" /\ req = NoInput /\ todo = {}
    /\ ms = <<>> /\ ts = <<>> /\ refToAddr = <<>> /\ grants = <<>> /\ takes = {}
    /\ out = NoOutput /\ agg = NoOutput /\ unmoved = {} /\ reset = {}
    /\ fails = 0

Run ==
    \/ ReuseChain \/ StartChain \/ ChainDone \/ buildOutput
    \/ deployMCM \/ deployMCMWithConfig \/ deployTimelock \/ deployCallProxy \/ skipCallProxy
    \/ grantRole \/ transferContractToTimelock \/ acceptOwnership \/ timelockDone
Lose == LoseDeployMCM \/ LoseConfig \/ LoseDeployTimelock \/ LoseDeployCallProxy
        \/ LoseGrant \/ LoseTransfer
Next ==
    \/ \E i \in Inputs : Start(i)
    \/ Run \/ Fail \/ Lose \/ NewBundle
    \/ \E p \in proposals : ExecuteBatch(p)

Spec == Init /\ [][Next]_vars

\* A run goes on until it returns; operators keep running every input.
FairSpec == Spec /\ WF_vars(Run) /\ \A i \in Inputs : SF_vars(Start(i))

----------------------------------------------------------------------------
(* Properties *)

Finished == DOMAIN req.by \ todo

\* The address a holder of chain c's topology has according to the refs r.
Recorded(r, c, h) ==
    IF h[1] = "addr" THEN h[2]
    ELSE LET m == CHOOSE s \in MCMSpecs(c, h[2]) : TRUE IN r[<<c, m.t, m.q>>]

Complete(r, c) ==
    /\ \A m \in elems(req.by[c].mcms) :
          LET a == r[<<c, m.t, m.q>>]
          IN  code[c][a].kind = m.t /\ (code[c][a].cfg = m.cfg \/ <<c, a>> \in reset)
    /\ \A tl \in elems(req.by[c].tls) :
          LET a == r[<<c, "Timelock", tl.q>>]
          IN  /\ code[c][a].kind = "Timelock"
              /\ \A n \in Roles : \A h \in elems(tl.roles[n]) :
                    Recorded(r, c, h) \in code[c][a].roles[n]
              /\ a \in code[c][a].roles["ADMIN"]
              /\ tl.proxy => r[<<c, "CallProxy", tl.q>>] \in code[c][a].roles["EXECUTOR"]

\* The specs of chain c are filed under refs of their own, and no contract is to
\* go to two timelocks. Nothing checks either.
OwnRefs(c) ==
    /\ \A m, n \in elems(req.by[c].mcms) : m.t = n.t /\ m.q = n.q => m = n
    /\ \A t, u \in elems(req.by[c].tls) : t.q = u.q => t = u
OwnTargets(c) ==
    \A t, u \in elems(req.by[c].tls) : t # u => transferTargets(c, t) \cap transferTargets(c, u) = {}

\* What a run records, also a failed one, is whole chains: every MCM of a
\* recorded chain has its config, unless another input replaced it since, and every
\* timelock has its roles wired to the very MCMs and call proxy recorded with it
\* (buildOutput, runEVMDeployTopology). Specs that share a ref replace each other.
RecordComplete ==
    [][ds' # ds =>
         /\ \A c \in {k[1] : k \in DOMAIN agg.refs} : c \in Finished /\ (OwnRefs(c) => Complete(ds', c))
         /\ \A k \in DOMAIN ds' : k \notin DOMAIN agg.refs => k \in DOMAIN ds /\ ds'[k] = ds[k]]_vars

\* A successful run leaves no transfer half done: each contract it moved is
\* pending for the timelock of its topology, and the proposal of that timelock's
\* qualifier, addressed to that timelock, accepts it (batchOpsForQualifier); when
\* the topology keeps its refs and targets apart.
TransfersProposed ==
    [][buildOutput =>
         \A c \in {d \in DOMAIN req.by : OwnRefs(d) /\ OwnTargets(d)} :
         \A tl \in elems(req.by[c].tls) : \A h \in elems(tl.take) :
            LET a == ProposalTimelock(c, tl.q)
                x == Recorded(agg.refs, c, h)
            IN  \/ code[c][x].owner = a
                \/ <<c, x>> \in unmoved
                \/ /\ code[c][x].pending = a
                   /\ \E p \in proposals' : p.ch = c /\ p.tl = a /\ x \in p.to]_vars

\* A proposal never accepts a contract for a timelock it was not moved to: the
\* batches of one qualifier stay out of the proposals of the others, when the
\* topology keeps its refs and targets apart.
NoForeignAccept ==
    [][buildOutput =>
         \A p \in {q \in proposals' \ proposals : OwnRefs(q.ch) /\ OwnTargets(q.ch)} :
            \A x \in p.to : <<p.ch, x>> \notin unmoved =>
               code[p.ch][x].pending = p.tl \/ code[p.ch][x].owner = p.tl]_vars

\* The refs of a run and of the datastore point at contracts of the type they
\* are filed under, and every address of the run is a deployed contract.
TypeOK ==
    /\ pc \in {"idle", "chain", "deploy", "config", "proxy", "grant", "accept"}
    /\ req \in Inputs \cup {NoInput} /\ (pc = "idle" <=> req = NoInput)
    /\ todo \subseteq Chains /\ fails \in 0..MaxFails
    /\ \A r \in {ds, agg.refs, out.refs} : \A k \in DOMAIN r :
          r[k] \in DOMAIN code[k[1]] /\ code[k[1]][r[k]].kind = k[2]
    /\ \A r \in DOMAIN refToAddr : refToAddr[r] \in DOMAIN code[ch]
    /\ \A p \in proposals : p.to \subseteq DOMAIN code[p.ch]
    /\ unmoved \subseteq UNION {{c} \X DOMAIN code[c] : c \in Chains}

\* Every input is eventually deployed and recorded, whatever failed before.
EventuallyRecorded ==
    \A i \in Inputs : <>(\A c \in DOMAIN i.by :
        /\ \A m \in elems(i.by[c].mcms) : <<c, m.t, m.q>> \in DOMAIN ds
        /\ \A t \in elems(i.by[c].tls) : <<c, "Timelock", t.q>> \in DOMAIN ds)
=============================================================================
