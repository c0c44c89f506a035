------------------------ MODULE EvmMcmsDeployProofs ------------------------
(***************************************************************************)
(* Proofs about EvmMcmsDeploy, for every value of its constants.  First    *)
(* the inductive invariant IInv and what follows from it, then what a      *)
(* recorded set is: whole and wired.                                       *)
(*                                                                         *)
(* WiringInv is inductive relative to IInv.  Its heart is ExecutorFirst:   *)
(* grantTimelockRoles skips all grants once the deployer lost its admin    *)
(* role, which is right only because a timelock that rules itself got its  *)
(* executor before, whichever run granted it.                              *)
(***************************************************************************)
EXTENDS EvmMcmsDeploy, ProofLemmas, TLAPS

----------------------------------------------------------------------------
(* The operators of the model *)

\* An input maps chains to chain configurations.
LEMMA InputType ==
    ASSUME NEW i \in Inputs
    PROVE  /\ DOMAIN i \subseteq Chains
           /\ \A c \in DOMAIN i : i[c] \in ChainConfig
BY InputsAssumption

\* The next chain Apply takes is one of the chains left.
LEMMA SelectorType ==
    ASSUME todo \subseteq Chains, todo # {}
    PROVE  NextSelector \in todo
<1>1. \E c \in todo : \A d \in todo : c <= d
  BY ChainsAssumption, LeastNat
<1>2. QED
  BY <1>1 DEF NextSelector

\* The next contract to deploy is one that the datastore does not record.
LEMMA CurrentType ==
    ASSUME existing \in [Types -> Addr0], Missing(existing) # {}
    PROVE  Current \in Types /\ existing[Current] = ZeroAddr
<1> DEFINE M == Missing(existing)
           i == CHOOSE x \in M : \A y \in M : x <= y
<1>1. M \subseteq 1..5 /\ M # {}
  BY DEF Missing
<1>2. M \subseteq Nat
  BY <1>1
<1>3. \E x \in M : \A y \in M : x <= y
  BY <1>1, <1>2, LeastNat
<1> HIDE DEF M
<1>4. i \in M
  BY <1>3
<1>5. Current = DeployOrder[i]
  BY DEF Current, M
<1>6. i \in 1..5 /\ existing[DeployOrder[i]] = ZeroAddr
  BY <1>4 DEF M, Missing
<1> HIDE DEF i
<1>7. DeployOrder[i] \in Types
  <2>1. i = 1 \/ i = 2 \/ i = 3 \/ i = 4 \/ i = 5
    BY <1>6
  <2>2. QED
    BY <2>1 DEF DeployOrder, Types, MCMTypes
<1>8. QED
  BY <1>5, <1>6, <1>7

\* The stage after the addresses ex: deploy what is missing, else grant roles.
LEMMA StageType ==
    ASSUME NEW ex
    PROVE  /\ NextStage(ex) \in {"admin", "deploy"}
           /\ NextStage(ex) = "deploy" => Missing(ex) # {}
           /\ NextStage(ex) = "admin" => Missing(ex) = {}
BY DEF NextStage

----------------------------------------------------------------------------
(* What the transactions do to the chains *)

\* Contracts stay, keep the input they were created from, and stay configured.
Grows ==
    \A c \in Chains :
       /\ DOMAIN code[c] \subseteq DOMAIN code'[c]
       /\ \A a \in DOMAIN code[c] :
             /\ code'[c][a].in = code[c][a].in
             /\ code[c][a].cfg # NoConfig => code'[c][a].cfg # NoConfig

CodeType ==
    /\ code \in [Chains -> Seq(Contract)]
    /\ \A c \in Chains : Len(code[c]) <= MaxAddr

\* The deploy operations have well-formed inputs.
LEMMA DeployInType ==
    ASSUME TypeOK, InSequence, NEW t \in Types
    PROVE  /\ DeployIn(t) \in DeployInput
           /\ DeployIn(t).t = t /\ DeployIn(t).q = qualifier
           /\ NewContract(DeployIn(t)) \in Contract
<1>1. cc \in ChainConfig /\ existing \in [Types -> Addr0]
  BY InputType DEF TypeOK, cc
<1>2. qualifier \in Qualifiers /\ cc.delay \in Nat
  BY <1>1, DelaysAssumption DEF ChainConfig, qualifier
<1>3. /\ existing["Proposer"] \in Addr0 /\ existing["Canceller"] \in Addr0
      /\ existing["Bypasser"] \in Addr0 /\ existing["Timelock"] \in Addr0
  BY <1>1 DEF Types, MCMTypes
<1>4. Addr0 \subseteq Int /\ Addr0 \subseteq Accounts /\ Deployer \in Accounts
  BY DEF Addr0, Accounts
<1>5. ConstructorArgs(t) \in Seq(Int)
  <2>1. CASE t \in MCMTypes
    BY <2>1 DEF ConstructorArgs, MCMTypes
  <2>2. CASE t = "Timelock"
    BY <2>2, <1>2, <1>3, <1>4 DEF ConstructorArgs, MCMTypes
  <2>3. CASE t = "CallProxy"
    BY <2>3, <1>3, <1>4 DEF ConstructorArgs, MCMTypes
  <2>4. QED
    BY <2>1, <2>2, <2>3 DEF Types
<1>6. DeployIn(t) \in DeployInput /\ DeployIn(t).t = t /\ DeployIn(t).q = qualifier
  BY <1>2, <1>5 DEF DeployIn, DeployInput
<1>7. ConstructorRoles(DeployIn(t)) \in [Roles -> SUBSET Accounts]
  <2>1. CASE t # "Timelock"
    BY <2>1, <1>6 DEF ConstructorRoles, NoRoles
  <2>2. CASE t = "Timelock"
    <3>1. DeployIn(t).args = <<cc.delay, existing["Proposer"], existing["Canceller"], existing["Bypasser"]>>
      BY <2>2 DEF DeployIn, ConstructorArgs, MCMTypes
    <3>2. /\ DeployIn(t).args[2] \in Accounts /\ DeployIn(t).args[3] \in Accounts
          /\ DeployIn(t).args[4] \in Accounts
      <4>1. /\ DeployIn(t).args[2] = existing["Proposer"]
            /\ DeployIn(t).args[3] = existing["Canceller"]
            /\ DeployIn(t).args[4] = existing["Bypasser"]
        BY <3>1
      <4>2. QED
        BY <4>1, <1>3, <1>4
    <3> DEFINE R(r) == CASE r = "PROPOSER"  -> {DeployIn(t).args[2]}
                         [] r = "CANCELLER" -> {DeployIn(t).args[3], DeployIn(t).args[2],
                                                DeployIn(t).args[4]}
                         [] r = "BYPASSER"  -> {DeployIn(t).args[4]}
                         [] r = "EXECUTOR"  -> {}
                         [] r = "ADMIN"     -> {Deployer}
    <3>3. ConstructorRoles(DeployIn(t)) = [r \in Roles |-> R(r)]
      BY <2>2, <1>6 DEF ConstructorRoles
    <3>4. ASSUME NEW r \in Roles PROVE R(r) \in SUBSET Accounts
      BY <3>2, <1>4 DEF Roles
    <3> HIDE DEF R
    <3>5. QED
      BY <3>3, <3>4
  <2>3. QED
    BY <2>1, <2>2
<1>8. QED
  BY <1>6, <1>7 DEF NewContract, Contract

\* Creating a contract appends it at the next address.
LEMMA CreateGrows ==
    ASSUME CodeType, ch \in Chains, NEW in, NewContract(in) \in Contract,
           Create(in), Len(code[ch]) < MaxAddr
    PROVE  /\ CodeType' /\ Grows
           /\ DOMAIN code'[ch] = DOMAIN code[ch] \cup {Len(code[ch]) + 1}
           /\ code'[ch][Len(code[ch]) + 1] = NewContract(in)
           /\ \A c \in Chains \ {ch} : code'[c] = code[c]
           /\ \A a \in DOMAIN code[ch] : code'[ch][a] = code[ch][a]
           /\ Len(code[ch]) + 1 \in Addr
<1> DEFINE s == code[ch]  n == NewContract(in)
<1>1. s \in Seq(Contract) /\ Len(s) \in Nat /\ DOMAIN s = 1..Len(s)
  BY DEF CodeType
<1>2. /\ Append(s, n) \in Seq(Contract)
      /\ Len(Append(s, n)) = Len(s) + 1
      /\ DOMAIN Append(s, n) = 1..(Len(s) + 1)
      /\ \A a \in 1..Len(s) : Append(s, n)[a] = s[a]
      /\ Append(s, n)[Len(s) + 1] = n
  BY <1>1
<1>3. code' = [code EXCEPT ![ch] = Append(s, n)]
  BY DEF Create
<1> HIDE DEF s, n
<1>4. /\ code'[ch] = Append(s, n)
      /\ \A c \in Chains \ {ch} : code'[c] = code[c]
      /\ code' \in [Chains -> Seq(Contract)]
  BY <1>2, <1>3 DEF CodeType
<1>5. Len(s) + 1 <= MaxAddr /\ Len(s) + 1 \in Addr
  BY <1>1, BoundsAssumption DEF s, Addr
<1>6. CodeType'
  BY <1>2, <1>4, <1>5 DEF CodeType
<1>7. /\ DOMAIN code'[ch] = DOMAIN code[ch] \cup {Len(s) + 1}
      /\ \A a \in DOMAIN code[ch] : code'[ch][a] = code[ch][a]
  BY <1>1, <1>2, <1>4 DEF s
<1>8. Grows
  BY <1>4, <1>7 DEF Grows
<1>9. QED
  BY <1>2, <1>4, <1>5, <1>6, <1>7, <1>8 DEF s, n

Updated(c, a, con) == [code EXCEPT ![c] = [code[c] EXCEPT ![a] = con]]

\* Changing the config or the roles of a contract changes nothing else.
LEMMA UpdateGrows ==
    ASSUME CodeType, NEW c \in Chains, NEW a \in DOMAIN code[c], NEW con \in Contract,
           code' = Updated(c, a, con),
           con.in = code[c][a].in,
           code[c][a].cfg # NoConfig => con.cfg # NoConfig
    PROVE  /\ CodeType' /\ Grows
           /\ \A d \in Chains : DOMAIN code'[d] = DOMAIN code[d]
           /\ code'[c][a] = con
<1> DEFINE s == [code[c] EXCEPT ![a] = con]
<1>1. code[c] \in Seq(Contract) /\ Len(code[c]) \in Nat /\ DOMAIN code[c] = 1..Len(code[c])
  BY DEF CodeType
<1>2. /\ s \in Seq(Contract) /\ Len(s) = Len(code[c]) /\ DOMAIN s = DOMAIN code[c]
      /\ s[a] = con /\ \A b \in DOMAIN code[c] : b # a => s[b] = code[c][b]
  BY <1>1
<1>3. code' = [code EXCEPT ![c] = s]
  BY DEF Updated
<1> HIDE DEF s
<1>4. /\ code'[c] = s /\ \A d \in Chains \ {c} : code'[d] = code[d]
      /\ code' \in [Chains -> Seq(Contract)]
  BY <1>2, <1>3 DEF CodeType
<1>5. CodeType'
  BY <1>2, <1>4 DEF CodeType
<1>6. QED
  BY <1>2, <1>4, <1>5 DEF Grows

\* A contract on a chain is well formed, and its address is an address.
LEMMA ContractType ==
    ASSUME CodeType, NEW c \in Chains, NEW a \in DOMAIN code[c]
    PROVE  code[c][a] \in Contract /\ a \in Addr
BY BoundsAssumption DEF CodeType, Addr

\* Setting the config of the MCM being deployed.
LEMMA ConfiguredGrows ==
    ASSUME TypeOK, SequenceOK, pc = "config", code' = Configured
    PROVE  /\ CodeType' /\ Grows
           /\ \A d \in Chains : DOMAIN code'[d] = DOMAIN code[d]
           /\ code'[ch][target].cfg # NoConfig
<1>1. /\ CodeType /\ ch \in Chains /\ target \in DOMAIN code[ch]
      /\ Current \in MCMTypes /\ cc \in ChainConfig
  BY InputType DEF TypeOK, CodeType, SequenceOK, Deployed, InSequence, cc
<1> DEFINE v == cc.cfg[Current]
           con == [code[ch][target] EXCEPT !.cfg = v]
<1>2. v \in Signers /\ v # NoConfig
  BY <1>1, SentinelAssumption DEF ChainConfig
<1>3. code[ch][target] \in Contract
  BY <1>1, ContractType
<1>4. con \in Contract /\ con.in = code[ch][target].in /\ con.cfg = v
  BY <1>2, <1>3 DEF Contract
<1>5. code' = Updated(ch, target, con)
  BY DEF Configured, Updated
<1> HIDE DEF con, v
<1>6. QED
  BY <1>1, <1>2, <1>4, <1>5, UpdateGrows

\* Replacing one role of a timelock.
LEMMA RolesGrow ==
    ASSUME CodeType, NEW c \in Chains, NEW a \in DOMAIN code[c], NEW r \in Roles,
           NEW S \in SUBSET Accounts, code' = [code EXCEPT ![c][a].roles[r] = S]
    PROVE  /\ CodeType' /\ Grows
           /\ \A d \in Chains : DOMAIN code'[d] = DOMAIN code[d]
<1> DEFINE con == [code[c][a] EXCEPT !.roles = [code[c][a].roles EXCEPT ![r] = S]]
<1>1. code[c][a] \in Contract
  BY ContractType
<1>2. con \in Contract /\ con.in = code[c][a].in /\ con.cfg = code[c][a].cfg
  BY <1>1 DEF Contract
<1>3. code' = Updated(c, a, con)
  BY DEF Updated
<1> HIDE DEF con
<1>4. QED
  BY <1>2, <1>3, UpdateGrows

\* Nothing that holds of a contract is undone while the chains only grow.
LEMMA Stable ==
    ASSUME Grows, NEW c \in Chains, NEW t, NEW q, NEW a
    PROVE  /\ Deployed(c, t, q, a) => Deployed(c, t, q, a)'
           /\ Usable(c, t, q, a) => Usable(c, t, q, a)'
BY DEF Grows, Deployed, Usable

\* A report stays true while the chains only grow.
LEMMA ReportStable ==
    ASSUME Grows, NEW r
    PROVE  /\ DeployReportOK(r) => DeployReportOK(r)'
           /\ ConfigReportOK(r) => ConfigReportOK(r)'
           /\ MCMReportOK(r) => MCMReportOK(r)'
           /\ ChainReportOK(r) => ChainReportOK(r)'
<1>1. DeployReportOK(r) => DeployReportOK(r)'
  BY DEF DeployReportOK, Grows
<1>2. ConfigReportOK(r) => ConfigReportOK(r)'
  BY DEF ConfigReportOK, Grows
<1>3. MCMReportOK(r) => MCMReportOK(r)'
  BY Stable DEF MCMReportOK
<1>4. ChainReportOK(r) => ChainReportOK(r)'
  BY Stable DEF ChainReportOK
<1>5. QED
  BY <1>1, <1>2, <1>3, <1>4

\* Reports that are kept stay true while the chains only grow.
LEMMA ReportsStable ==
    ASSUME Grows, ReportsOK, UNCHANGED reports
    PROVE  ReportsOK'
BY ReportStable DEF ReportsOK

\* So do the refs that are kept.
LEMMA RefsStable ==
    ASSUME Grows, RefsOK, UNCHANGED <<ds, agg>>
    PROVE  RefsOK'
<1>1. \A k \in Keys : k[1] \in Chains
  BY DEF Keys
<1>2. QED
  BY <1>1, Stable DEF RefsOK

----------------------------------------------------------------------------
(* The inductive invariant *)

\* The part of TypeOK that is about the chains.
LEMMA CodeTypeOK == TypeOK => CodeType
BY DEF TypeOK, CodeType

\* A step that leaves the chains alone lets them grow trivially.
LEMMA Unchanged == UNCHANGED code => Grows
BY DEF Grows

\* The inductive invariant holds initially: no contract, no ref, no report.
LEMMA InitIInv == Init => IInv
<1> SUFFICES ASSUME Init PROVE IInv
  OBVIOUS
<1>1. req \in Inputs /\ ch \in DOMAIN req /\ ch \in Chains
  BY InputType DEF Init
<1>2. \A c \in Chains : code[c] = <<>> /\ Len(code[c]) = 0 /\ code[c] \in Seq(Contract)
  BY DEF Init
<1>3. ds \in [Keys -> Addr0] /\ agg \in [Keys -> Addr0] /\ existing \in [Types -> Addr0]
  BY BoundsAssumption DEF Init, NoRefs, NoAddresses, Addr0, ZeroAddr
<1>4. code \in [Chains -> Seq(Contract)]
  BY <1>2 DEF Init
<1>5. /\ target \in Addr0 /\ grants \in [Roles -> Seq(Addr0)] /\ \A r \in Roles : Len(grants[r]) <= 3
      /\ fails \in 0..MaxFails /\ losses \in 0..MaxLosses
      /\ deletes \in 0..MaxDeletes
  BY BoundsAssumption DEF Init, NoGrants, Addr0, ZeroAddr
<1>6. TypeOK
  BY <1>1, <1>2, <1>3, <1>4, <1>5, BoundsAssumption DEF TypeOK, Init, InSequence, NoReports
<1>7. ReportsOK /\ DeployReportsOK
  BY <1>2 DEF Init, NoReports, ReportsOK, DeployReportsOK
<1>8. RefsOK /\ SequenceOK
  BY DEF Init, RefsOK, SequenceOK, InSequence, NoRefs
<1>9. QED
  BY <1>6, <1>7, <1>8 DEF IInv

\* When Apply returns, only the datastore and the counters need an argument.
LEMMA ReturnOK ==
    ASSUME IInv, Return, CodeType', DOMAIN reports' = DOMAIN reports,
           ds' \in [Keys -> Addr0],
           \A k \in Keys : (ds[k] # ZeroAddr => Usable(k[1], k[2], k[3], ds[k]))',
           fails' \in 0..MaxFails, losses' \in 0..MaxLosses,
           deletes' \in 0..MaxDeletes
    PROVE  TypeOK' /\ RefsOK' /\ SequenceOK'
<1>1. /\ agg' = NoRefs /\ agg' \in [Keys -> Addr0] /\ existing' \in [Types -> Addr0]
      /\ target' = ZeroAddr /\ target' \in Addr0 /\ grants' \in [Roles -> Seq(Addr0)]
      /\ \A r \in Roles : Len(grants'[r]) <= 3
  BY BoundsAssumption DEF Return, NoRefs, NoAddresses, NoGrants, Addr0, ZeroAddr
<1>2. /\ req' = req /\ ch' = ch /\ todo' = {} /\ pc' = "idle" /\ fresh' = {} /\ rix' = 1
      /\ pending' = {}
  BY DEF Return
<1>3. TypeOK'
  BY <1>1, <1>2 DEF TypeOK, IInv, InSequence, CodeType
<1>4. RefsOK'
  BY <1>1 DEF RefsOK, NoRefs
<1>5. SequenceOK'
  BY <1>2 DEF SequenceOK, InSequence
<1>6. QED
  BY <1>3, <1>4, <1>5

\* Apply starts (VerifyPreconditions passed).
LEMMA StartOK ==
    ASSUME IInv, NEW i \in Inputs, Start(i)
    PROVE  IInv'
<1>1. Grows
  BY Unchanged DEF Start
<1>2. TypeOK'
  BY InputType, BoundsAssumption DEF IInv, TypeOK, Start, grantVars, counters, InSequence
<1>3. ReportsOK' /\ RefsOK'
  BY <1>1, ReportsStable, RefsStable DEF IInv, Start
<1>4. SequenceOK' /\ DeployReportsOK'
  BY DEF IInv, Start, SequenceOK, InSequence, DeployReportsOK, counters
<1>5. QED
  BY <1>2, <1>3, <1>4 DEF IInv

\* Apply returns an error and records nothing.
LEMMA FailOK ==
    ASSUME IInv, Fail
    PROVE  IInv'
<1>1. Grows /\ CodeType'
  BY Unchanged, CodeTypeOK DEF Fail, IInv, CodeType
<1>2. \A k \in Keys : (ds[k] # ZeroAddr => Usable(k[1], k[2], k[3], ds[k]))'
  BY DEF Fail, IInv, RefsOK, Usable, Deployed
<1>3. /\ ds' \in [Keys -> Addr0] /\ fails' \in 0..MaxFails
      /\ losses' \in 0..MaxLosses /\ deletes' \in 0..MaxDeletes
      /\ DOMAIN reports' = DOMAIN reports /\ Return
  BY BoundsAssumption DEF Fail, Abort, IInv, TypeOK
<1>4. TypeOK' /\ RefsOK' /\ SequenceOK'
  BY <1>1, <1>2, <1>3, ReturnOK
<1>5. ReportsOK' /\ DeployReportsOK'
  BY <1>1, ReportsStable DEF Fail, IInv, DeployReportsOK
<1>6. QED
  BY <1>4, <1>5 DEF IInv

\* Apply writes the merged refs: agg, which RefsOK covers, becomes the datastore.
LEMMA FinishOK ==
    ASSUME IInv, Finish
    PROVE  IInv'
<1>1. Grows /\ CodeType'
  BY Unchanged, CodeTypeOK DEF Finish, IInv, CodeType
<1>2. \A k \in Keys : (ds[k] # ZeroAddr => Usable(k[1], k[2], k[3], ds[k]))'
  BY DEF Finish, IInv, RefsOK, Usable, Deployed
<1>3. /\ ds' \in [Keys -> Addr0] /\ fails' \in 0..MaxFails
      /\ losses' \in 0..MaxLosses /\ deletes' \in 0..MaxDeletes
      /\ DOMAIN reports' = DOMAIN reports /\ Return
  BY DEF Finish, IInv, TypeOK, counters
<1>4. TypeOK' /\ RefsOK' /\ SequenceOK'
  BY <1>1, <1>2, <1>3, ReturnOK
<1>5. ReportsOK' /\ DeployReportsOK'
  BY <1>1, ReportsStable DEF Finish, IInv, DeployReportsOK, counters
<1>6. QED
  BY <1>4, <1>5 DEF IInv

\* A reused output is the output of a report with that key.
LEMMA ReusedReport ==
    ASSUME NEW set, NEW k, Reusable(set, k)
    PROVE  \E r \in set : r.k = k /\ OutputOf(set, k) = r.out
BY DEF Reusable, OutputOf

\* Merging one chain's output changes only refs of that chain and qualifier, to
\* the addresses of the output (mergeOutputs).
LEMMA WriteRefsType ==
    ASSUME NEW base \in [Keys -> Addr0], NEW c, NEW q, NEW F, NEW addrs \in [Types -> Addr0]
    PROVE  /\ WriteRefs(base, c, q, F, addrs) \in [Keys -> Addr0]
           /\ \A k \in Keys : \/ WriteRefs(base, c, q, F, addrs)[k] = base[k]
                              \/ /\ k[1] = c /\ k[3] = q /\ k[2] \in F /\ k[2] \in Types
                                 /\ WriteRefs(base, c, q, F, addrs)[k] = addrs[k[2]]
<1>1. \A k \in Keys : k[2] \in Types
  BY DEF Keys
<1>2. QED
  BY <1>1 DEF WriteRefs

\* A chain's report is reused: ReportsOK says what its output is worth.
LEMMA ReuseChainOK ==
    ASSUME IInv, ReuseChain
    PROVE  IInv'
<1> DEFINE n == NextSelector
           out == OutputOf(reports.chain, ChainKey(n))
           F == {t \in Types : out[t] # ZeroAddr}
<1>1. n \in todo /\ n \in DOMAIN req /\ n \in Chains
  BY SelectorType, InputType DEF IInv, TypeOK, ReuseChain
<1>2. PICK r \in reports.chain : r.k = ChainKey(n) /\ out = r.out
  BY ReusedReport DEF ReuseChain
<1>3. /\ out \in [Types -> Addr0]
      /\ \A t \in Types : out[t] # ZeroAddr => Usable(n, t, req[n].q, out[t])
  BY <1>2 DEF IInv, ReportsOK, ChainReportOK, ChainKey
<1>4. agg' = WriteRefs(agg, n, req[n].q, F, out)
  BY DEF ReuseChain
<1> HIDE DEF n, out, F
<1>5. /\ agg' \in [Keys -> Addr0]
      /\ \A k \in Keys : \/ agg'[k] = agg[k]
                         \/ /\ k[1] = n /\ k[3] = req[n].q /\ k[2] \in Types
                            /\ agg'[k] = out[k[2]]
  <2>1. agg \in [Keys -> Addr0] /\ out \in [Types -> Addr0]
    BY <1>3 DEF IInv, TypeOK
  <2>2. QED
    BY <2>1, <1>4, WriteRefsType
<1>6. Grows
  BY Unchanged DEF ReuseChain
<1>7. TypeOK'
  BY <1>5 DEF IInv, TypeOK, ReuseChain, InSequence, grantVars, counters
<1>8. RefsOK'
  <2>1. UNCHANGED <<code, ds>>
    BY DEF ReuseChain
  <2>2. ASSUME NEW k \in Keys, agg'[k] # ZeroAddr
        PROVE  Usable(k[1], k[2], k[3], agg'[k])
    BY <2>2, <1>3, <1>5 DEF IInv, RefsOK
  <2>3. QED
    BY <2>1, <2>2 DEF IInv, RefsOK, Usable, Deployed
<1>9. ReportsOK' /\ SequenceOK' /\ DeployReportsOK'
  BY <1>6, ReportsStable DEF IInv, ReuseChain, SequenceOK, InSequence, DeployReportsOK, counters
<1>10. QED
  BY <1>7, <1>8, <1>9 DEF IInv

\* A chain's sequence starts from the recorded addresses (loadDeployedAddresses).
LEMMA StartChainOK ==
    ASSUME IInv, StartChain
    PROVE  IInv'
<1>1. NextSelector \in todo /\ NextSelector \in DOMAIN req /\ NextSelector \in Chains
  BY SelectorType, InputType DEF IInv, TypeOK, StartChain
<1>2. req[NextSelector].q \in Qualifiers
  BY <1>1, InputType DEF IInv, TypeOK, ChainConfig
<1>3. \A t \in Types : /\ <<NextSelector, t, req[NextSelector].q>> \in Keys
                       /\ existing'[t] = ds[<<NextSelector, t, req[NextSelector].q>>]
  BY <1>1, <1>2 DEF Keys, StartChain, loadDeployedAddresses
<1>4. existing' \in [Types -> Addr0]
  BY <1>3 DEF StartChain, loadDeployedAddresses, IInv, TypeOK
<1>5. /\ pc' \in {"admin", "deploy"}
      /\ pc' = "deploy" => Missing(existing') # {}
      /\ pc' = "admin" => Missing(existing') = {}
  BY StageType DEF StartChain
<1>6. Grows
  BY Unchanged DEF StartChain
<1>7. TypeOK'
  BY <1>1, <1>4, <1>5 DEF IInv, TypeOK, StartChain, InSequence, grantVars, counters, Missing
<1>8. SequenceOK'
  <2>1. /\ ch' = NextSelector /\ req' = req /\ code' = code /\ qualifier' = req[NextSelector].q
    BY DEF StartChain, qualifier, cc
  <2>2. \A t \in Types : existing'[t] # ZeroAddr =>
           Usable(NextSelector, t, req[NextSelector].q, existing'[t])
    BY <1>3 DEF IInv, RefsOK
  <2>3. QED
    BY <2>1, <2>2, <1>5 DEF SequenceOK, Usable, Deployed, Missing
<1>9. ReportsOK' /\ RefsOK' /\ DeployReportsOK'
  BY <1>6, ReportsStable, RefsStable DEF IInv, StartChain, DeployReportsOK, counters
<1>10. QED
  BY <1>7, <1>8, <1>9 DEF IInv

\* An address joins the deployer's set: the sequence goes on with the next stage.
LEMMA ObtainedOK ==
    ASSUME IInv, InSequence, NEW t \in Types, NEW a \in Addr0, Obtained(t, a),
           CodeType', Grows, Usable(ch, t, qualifier, a)',
           UNCHANGED <<ds, req, todo, ch, agg, grantVars, counters>>,
           pc \in {"deploy", "config"}, target' = ZeroAddr, DOMAIN reports' = DOMAIN reports
    PROVE  TypeOK' /\ SequenceOK'
<1>1. existing' \in [Types -> Addr0] /\ existing' = [existing EXCEPT ![t] = a]
  BY DEF Obtained, IInv, TypeOK
<1>2. /\ pc' \in {"admin", "deploy"}
      /\ pc' = "deploy" => Missing(existing)' # {}
      /\ pc' = "admin" => Missing(existing)' = {}
  <2>1. pc' = NextStage(existing')
    BY DEF Obtained
  <2>2. QED
    BY <2>1, StageType DEF Missing
<1>3. TypeOK'
  <2>1. target' \in Addr0 /\ fresh' \subseteq Types
    BY BoundsAssumption DEF Obtained, IInv, TypeOK, ZeroAddr, Addr0
  <2>2. QED
    BY <1>1, <1>2, <2>1 DEF IInv, TypeOK, CodeType, InSequence, grantVars, counters
<1>4. ASSUME NEW u \in Types, existing'[u] # ZeroAddr
      PROVE  Usable(ch, u, qualifier, existing[u])'
  <2>1. UNCHANGED <<ch, qualifier>> /\ ch \in Chains
    BY DEF qualifier, cc, IInv, TypeOK
  <2>2. CASE u = t
    BY <2>2, <1>1 DEF IInv, TypeOK
  <2>3. CASE u # t
    <3>1. existing'[u] = existing[u] /\ Usable(ch, u, qualifier, existing[u])
      BY <2>3, <1>1, <1>4 DEF IInv, TypeOK, SequenceOK
    <3>2. PICK c, q, b : c \in Chains /\ c = ch /\ q = qualifier /\ b = existing[u]
      BY <2>1
    <3>3. Usable(c, u, q, b)'
      BY <3>1, <3>2, Stable
    <3>4. QED
      BY <3>1, <3>2, <3>3, <2>1 DEF Usable, Deployed
  <2>4. QED
    BY <2>2, <2>3
<1>5. SequenceOK'
  BY <1>2, <1>4 DEF SequenceOK
<1>6. QED
  BY <1>3, <1>5

\* While a contract is being deployed, the sequence has a current contract.
LEMMA CurrentInSequence ==
    ASSUME IInv, pc \in {"deploy", "config"}
    PROVE  /\ InSequence /\ ch \in Chains /\ ch \in DOMAIN req
           /\ Current \in Types /\ existing[Current] = ZeroAddr
           /\ qualifier \in Qualifiers
<1>1. InSequence /\ ch \in Chains /\ ch \in DOMAIN req
  BY DEF IInv, TypeOK, InSequence
<1>2. Current \in Types /\ existing[Current] = ZeroAddr
  BY CurrentType DEF IInv, TypeOK
<1>3. qualifier \in Qualifiers
  BY <1>1, InputType DEF IInv, TypeOK, qualifier, cc, ChainConfig
<1>4. QED
  BY <1>1, <1>2, <1>3

\* The report of seqDeployMCMWithConfig is reused: its MCM is configured.
LEMMA ReuseMCMSequenceOK ==
    ASSUME IInv, ReuseMCMSequence
    PROVE  IInv'
<1>1. InSequence /\ ch \in Chains /\ Current \in MCMTypes
  BY CurrentInSequence DEF ReuseMCMSequence, MCMSequenceDone
<1>2. PICK t, a : t \in Types /\ t = Current /\ a = OutputOf(reports.mcm, MCMKey(Current))
  BY <1>1 DEF Types
<1>3. PICK r \in reports.mcm : r.k = MCMKey(t) /\ a = r.out
  BY <1>2, ReusedReport DEF ReuseMCMSequence, MCMSequenceDone
<1>4. Usable(ch, t, qualifier, a)
  BY <1>3 DEF IInv, ReportsOK, MCMReportOK, MCMKey, chainSequenceIdempotencyKey
<1>5. Obtained(t, a)
  BY <1>2 DEF ReuseMCMSequence
<1>6. Grows /\ CodeType /\ CodeType'
  BY Unchanged, CodeTypeOK DEF ReuseMCMSequence, IInv, CodeType
<1>7. a \in Addr0
  BY <1>1, <1>4, <1>6, ContractType DEF Usable, Deployed, Addr, Addr0
<1>8. Usable(ch, t, qualifier, a)'
  BY <1>1, <1>4 DEF ReuseMCMSequence, Usable, Deployed, qualifier, cc
<1>9. TypeOK' /\ SequenceOK'
  <2>1. /\ UNCHANGED <<ds, req, todo, ch, agg, grantVars, counters>>
        /\ pc \in {"deploy", "config"} /\ target' = ZeroAddr /\ DOMAIN reports' = DOMAIN reports
    BY DEF ReuseMCMSequence, IInv, TypeOK
  <2>2. QED
    <3>1. t \in Types
      BY <1>2
    <3>2. QED
      BY <3>1, <2>1, <1>1, <1>5, <1>6, <1>7, <1>8, ObtainedOK
<1>10. ReportsOK' /\ RefsOK' /\ DeployReportsOK'
  BY <1>6, ReportsStable, RefsStable DEF IInv, ReuseMCMSequence, DeployReportsOK, counters
<1>11. QED
  BY <1>9, <1>10 DEF IInv

\* The addresses the sequence has collected stay usable.
LEMMA ExistingStable ==
    ASSUME IInv, InSequence, Grows, UNCHANGED <<existing, req, ch>>
    PROVE  \A t \in Types : (existing[t] # ZeroAddr => Usable(ch, t, qualifier, existing[t]))'
<1> SUFFICES ASSUME NEW t \in Types, existing[t] # ZeroAddr
             PROVE  Usable(ch, t, qualifier, existing[t])'
  OBVIOUS
<1>1. PICK c, q, b : c \in Chains /\ c = ch /\ q = qualifier /\ b = existing[t]
  BY DEF IInv, TypeOK
<1>2. Usable(c, t, q, b)
  BY <1>1 DEF IInv, SequenceOK
<1>3. Usable(c, t, q, b)'
  <2>1. c \in Chains
    BY <1>1
  <2>2. QED
    BY <2>1, <1>2, Stable
<1>4. c = ch' /\ q = qualifier' /\ b = existing'[t]
  BY <1>1 DEF qualifier, cc
<1>5. QED
  BY <1>3, <1>4 DEF Usable, Deployed

\* A deploy operation returned: the MCM is configured next, or the sequence goes on.
LEMMA AfterDeployOK ==
    ASSUME IInv, pc = "deploy", NEW a \in Addr, AfterDeploy(a), CodeType', Grows,
           NEW t \in Types, t = Current, Deployed(ch, t, qualifier, a)',
           UNCHANGED <<ds, req, todo, ch, agg, grantVars, counters>>,
           DOMAIN reports' = DOMAIN reports
    PROVE  TypeOK' /\ SequenceOK'
<1>1. InSequence /\ ch \in Chains /\ a \in Addr0 /\ a # ZeroAddr /\ target = ZeroAddr
  BY CurrentInSequence DEF Addr, Addr0, ZeroAddr, IInv, TypeOK
<1>2. CASE t \in MCMTypes
  <2>1. pc' = "config" /\ target' = a /\ UNCHANGED <<existing, fresh>>
    BY <1>2 DEF AfterDeploy
  <2>2. TypeOK'
    BY <2>1, <1>1 DEF IInv, TypeOK, CodeType, InSequence, grantVars, counters, Missing
  <2>3. Current' = t
    BY <2>1 DEF Current, Missing
  <2>4. \A u \in Types : (existing[u] # ZeroAddr => Usable(ch, u, qualifier, existing[u]))'
    BY <2>1, <1>1, ExistingStable
  <2>5. Deployed(ch, Current, qualifier, target)'
    BY <2>1, <2>3 DEF Deployed
  <2>6. SequenceOK'
    BY <2>1, <2>3, <2>4, <2>5, <1>2 DEF SequenceOK
  <2>7. QED
    BY <2>2, <2>6
<1>3. CASE t \notin MCMTypes
  <2>1. Obtained(t, a) /\ target' = ZeroAddr
    BY <1>1, <1>3 DEF AfterDeploy
  <2>2. Usable(ch, t, qualifier, a)'
    BY <1>3 DEF Usable
  <2>3. QED
    BY <2>1, <2>2, <1>1, ObtainedOK
<1>4. QED
  BY <1>2, <1>3

\* The report of a deploy operation is reused: its contract exists.
LEMMA ReuseDeployOK ==
    ASSUME IInv, ReuseDeploy
    PROVE  IInv'
<1>1. InSequence /\ ch \in Chains /\ Current \in Types
  BY CurrentInSequence DEF ReuseDeploy
<1>2. PICK t, a : t \in Types /\ t = Current /\ a = OutputOf(reports.deploy, DeployKey(Current))
  BY <1>1
<1>3. PICK r \in reports.deploy : r.k = DeployKey(t) /\ a = r.out
  BY <1>2, ReusedReport DEF ReuseDeploy
<1>4. a \in DOMAIN code[ch] /\ code[ch][a].in = DeployIn(t)
  BY <1>3 DEF IInv, ReportsOK, DeployReportOK, DeployKey, chainIdempotencyKey
<1>5. Deployed(ch, t, qualifier, a)
  BY <1>4 DEF Deployed, DeployIn
<1>6. Grows /\ CodeType /\ CodeType'
  BY Unchanged, CodeTypeOK DEF ReuseDeploy, IInv, CodeType
<1>7. a \in Addr
  BY <1>1, <1>4, <1>6, ContractType
<1>8. Deployed(ch, t, qualifier, a)'
  BY <1>5 DEF ReuseDeploy, Deployed, qualifier, cc
<1>9. TypeOK' /\ SequenceOK'
  <2>1. /\ UNCHANGED <<ds, req, todo, ch, agg, grantVars, counters>>
        /\ pc = "deploy" /\ DOMAIN reports' = DOMAIN reports /\ AfterDeploy(a)
    BY <1>2 DEF ReuseDeploy
  <2>2. QED
    BY <2>1, <1>2, <1>6, <1>7, <1>8, AfterDeployOK
<1>10. ReportsOK' /\ RefsOK' /\ DeployReportsOK'
  BY <1>6, ReportsStable, RefsStable DEF IInv, ReuseDeploy, DeployReportsOK, counters
<1>11. QED
  BY <1>9, <1>10 DEF IInv

\* A lost transaction result: the chain may have changed, the run goes on or aborts.
LEMMA RetryOrAbortOK ==
    ASSUME IInv, InSequence, CodeType', Grows, RetryOrAbort
    PROVE  IInv'
<1>1. /\ UNCHANGED <<ds, reports, deletes>>
      /\ losses' \in 0..MaxLosses /\ losses' # 0
  BY BoundsAssumption DEF RetryOrAbort, IInv, TypeOK
<1>2. ReportsOK' /\ DeployReportsOK'
  BY <1>1, ReportsStable DEF IInv, DeployReportsOK
<1>3. CASE UNCHANGED <<pc, applyVars, fails>>
  <2>1. UNCHANGED <<pc, req, todo, ch, existing, fresh, target, agg, grants, rix, pending, fails>>
    BY <1>3 DEF applyVars, grantVars
  <2>2. TypeOK'
    BY <2>1, <1>1 DEF IInv, TypeOK, CodeType, InSequence, Missing
  <2>3. RefsOK'
    BY <2>1, <1>1, RefsStable DEF IInv
  <2>4. \A t \in Types : (existing[t] # ZeroAddr => Usable(ch, t, qualifier, existing[t]))'
    BY <2>1, ExistingStable
  <2>5. ASSUME pc' = "config"
        PROVE  Current' \in MCMTypes /\ Deployed(ch, Current, qualifier, target)'
    <3>1. PICK c, t, q, b : c \in Chains /\ c = ch /\ t = Current /\ q = qualifier /\ b = target
      BY DEF IInv, TypeOK
    <3>2. Deployed(c, t, q, b) /\ t \in MCMTypes
      BY <2>1, <2>5, <3>1 DEF IInv, SequenceOK
    <3>3. Deployed(c, t, q, b)'
      <4>1. c \in Chains
        BY <3>1
      <4>2. QED
        BY <4>1, <3>2, Stable
    <3>4. c = ch' /\ t = Current' /\ q = qualifier' /\ b = target'
      BY <2>1, <3>1 DEF Current, Missing, qualifier, cc
    <3>5. QED
      BY <3>2, <3>3, <3>4 DEF Deployed
  <2>6. SequenceOK'
    <3>1. Missing(existing)' = Missing(existing)
      BY <2>1 DEF Missing
    <3>2. QED
      BY <2>1, <2>4, <2>5, <3>1 DEF IInv, SequenceOK
  <2>7. QED
    BY <1>2, <2>2, <2>3, <2>6 DEF IInv
<1>4. CASE Abort
  <2>1. Return /\ fails' \in 0..MaxFails
    BY <1>4, BoundsAssumption DEF Abort, IInv, TypeOK
  <2>2. ASSUME NEW k \in Keys, ds[k] # ZeroAddr
        PROVE  Usable(k[1], k[2], k[3], ds[k])'
    <3>1. PICK b : b = ds[k]
      OBVIOUS
    <3>2. k[1] \in Chains /\ Usable(k[1], k[2], k[3], b)
      BY <2>2, <3>1 DEF IInv, RefsOK, Keys
    <3>3. Usable(k[1], k[2], k[3], b)'
      BY <3>2, Stable
    <3>4. QED
      BY <3>1, <3>3, <1>1 DEF Usable, Deployed
  <2>3. TypeOK' /\ RefsOK' /\ SequenceOK'
    <3>1. /\ ds' \in [Keys -> Addr0] /\ deletes' \in 0..MaxDeletes
          /\ DOMAIN reports' = DOMAIN reports
      BY <1>1 DEF IInv, TypeOK
    <3>2. \A k \in Keys : (ds[k] # ZeroAddr => Usable(k[1], k[2], k[3], ds[k]))'
      BY <2>2, <1>1
    <3>3. QED
      BY <3>1, <3>2, <2>1, <1>1, ReturnOK
  <2>4. QED
    BY <1>2, <2>3 DEF IInv
<1>5. QED
  BY <1>3, <1>4 DEF RetryOrAbort

\* A deploy operation appends a well-formed contract.
LEMMA CreateCurrent ==
    ASSUME IInv, CanDeploy, Create(DeployIn(Current))
    PROVE  /\ CodeType' /\ Grows /\ InSequence /\ ch \in Chains /\ Current \in Types
           /\ Len(code[ch]) + 1 \in Addr
           /\ DOMAIN code'[ch] = DOMAIN code[ch] \cup {Len(code[ch]) + 1}
           /\ code'[ch][Len(code[ch]) + 1].in = DeployIn(Current)
           /\ \A c \in Chains \ {ch} : code'[c] = code[c]
           /\ \A a \in DOMAIN code[ch] : code'[ch][a] = code[ch][a]
<1>1. InSequence /\ ch \in Chains /\ Current \in Types /\ CodeType /\ Len(code[ch]) < MaxAddr
  BY CurrentInSequence, CodeTypeOK DEF CanDeploy, IInv
<1>2. NewContract(DeployIn(Current)) \in Contract
  BY <1>1, DeployInType DEF IInv
<1>3. QED
  BY <1>1, <1>2, CreateGrows DEF NewContract

\* A deploy transaction whose result is lost leaves a contract no report names.
LEMMA LoseDeployOK ==
    ASSUME IInv, LoseDeploy
    PROVE  IInv'
BY CreateCurrent, RetryOrAbortOK DEF LoseDeploy

\* A deploy operation creates a contract and its report.
LEMMA DeployOK ==
    ASSUME IInv, Deploy
    PROVE  IInv'
<1>0. Current \in Types /\ ch \in Chains
  BY CreateCurrent DEF Deploy
<1>1. PICK t, c, a, in :
         /\ t \in Types /\ c \in Chains
         /\ t = Current /\ a = Len(code[ch]) + 1 /\ c = ch /\ in = DeployIn(Current)
  BY <1>0
<1>2. /\ CodeType' /\ Grows /\ InSequence /\ a \in Addr
      /\ DOMAIN code'[c] = DOMAIN code[c] \cup {a} /\ code'[c][a].in = in
      /\ \A d \in Chains \ {c} : code'[d] = code[d]
      /\ \A b \in DOMAIN code[c] : code'[c][b] = code[c][b]
  BY <1>1, CreateCurrent DEF Deploy
<1> DEFINE new == [k |-> [key |-> c, in |-> in], out |-> a]
<1>3. reports' = [reports EXCEPT !["deploy"] = @ \cup {new}]
  BY <1>1 DEF Deploy, AddReport, DeployKey, chainIdempotencyKey
<1>4. /\ reports'.deploy = reports.deploy \cup {new} /\ DOMAIN reports' = DOMAIN reports
      /\ reports'.config = reports.config /\ reports'.mcm = reports.mcm
      /\ reports'.chain = reports.chain
  BY <1>3 DEF IInv, TypeOK
<1>5. in.t = t /\ in.q = qualifier
  BY <1>1 DEF DeployIn
<1>6. TypeOK' /\ SequenceOK'
  <2>1. /\ UNCHANGED <<ds, req, todo, ch, agg, grantVars, counters>>
        /\ pc = "deploy" /\ AfterDeploy(a)
    BY <1>1 DEF Deploy, CanDeploy
  <2>2. Deployed(ch, t, qualifier, a)'
    BY <2>1, <1>1, <1>2, <1>5 DEF Deployed, qualifier, cc
  <2>3. QED
    <3>1. t \in Types /\ t = Current
      BY <1>1
    <3>2. QED
      BY <3>1, <2>1, <2>2, <1>2, <1>4, AfterDeployOK
<1>7. ReportsOK'
  <2>1. DeployReportOK(new)'
    <3>1. c \in Chains
      BY <1>1
    <3>2. QED
      BY <3>1, <1>2 DEF DeployReportOK
  <2>2. QED
    BY <2>1, <1>2, <1>4, ReportStable DEF IInv, ReportsOK
<1>8. DeployReportsOK'
  <2>1. ASSUME NEW r \in reports.deploy PROVE r.k # new.k
    BY <1>1 DEF Deploy, CanDeploy, Reusable, DeployKey, chainIdempotencyKey
  <2>2. \A r1, r2 \in reports'.deploy : r1.k = r2.k => r1 = r2
    BY <2>1, <1>4 DEF IInv, DeployReportsOK
  <2>3. ASSUME losses' = 0, NEW d \in Chains, NEW b \in DOMAIN code'[d]
        PROVE  [k |-> [key |-> d, in |-> code'[d][b].in], out |-> b] \in reports'.deploy
    <3>1. losses = 0
      BY <2>3 DEF Deploy, counters
    <3>2. CASE d = c /\ b = a
      BY <3>2, <1>2, <1>4
    <3>3. CASE ~(d = c /\ b = a)
      BY <3>1, <3>3, <1>2, <1>4 DEF IInv, DeployReportsOK
    <3>4. QED
      BY <3>2, <3>3
  <2>4. QED
    BY <2>2, <2>3 DEF DeployReportsOK
<1>9. RefsOK'
  BY <1>2, RefsStable DEF IInv, Deploy
<1>10. QED
  BY <1>6, <1>7, <1>8, <1>9 DEF IInv

\* SetConfig configures the MCM; the deploy-with-config sequence ends.
LEMMA SetConfigOK ==
    ASSUME IInv, SetConfig
    PROVE  IInv'
<1>1. InSequence /\ ch \in Chains /\ Current \in MCMTypes /\ target \in DOMAIN code[ch]
  BY CurrentInSequence DEF SetConfig, IInv, SequenceOK, Deployed
<1>2. PICK t, c, q, a : t \in Types /\ c \in Chains /\ t = Current /\ c = ch /\ q = qualifier /\ a = target
  BY <1>1 DEF Types
<1>3. /\ CodeType' /\ Grows /\ c \in Chains /\ a \in DOMAIN code'[c] /\ code'[c][a].cfg # NoConfig
      /\ \A d \in Chains : /\ DOMAIN code'[d] = DOMAIN code[d]
                           /\ \A b \in DOMAIN code[d] : code'[d][b].in = code[d][b].in
  <2>1. CASE Reusable(reports.config, ConfigKey)
    <3>1. PICK r \in reports.config : r.k = ConfigKey
      BY <2>1 DEF Reusable
    <3>2. code[c][a].cfg # NoConfig
      BY <1>2, <3>1 DEF IInv, ReportsOK, ConfigReportOK, ConfigKey, outputAddressIdempotencyKey
    <3>3. code' = code
      BY <2>1 DEF SetConfig
    <3>4. QED
      BY <1>1, <1>2, <3>2, <3>3, Unchanged, CodeTypeOK DEF IInv, CodeType
  <2>2. CASE ~Reusable(reports.config, ConfigKey)
    <3>1. code' = Configured
      BY <2>2 DEF SetConfig
    <3>2. /\ CodeType' /\ Grows /\ code'[ch][target].cfg # NoConfig
          /\ \A d \in Chains : DOMAIN code'[d] = DOMAIN code[d]
      BY <3>1, ConfiguredGrows DEF IInv, SetConfig
    <3>3. QED
      BY <3>2, <1>1, <1>2 DEF Grows
  <2>3. QED
    BY <2>1, <2>2
<1>4. Deployed(c, t, q, a)
  BY <1>2 DEF IInv, SequenceOK, SetConfig
<1>5. Usable(c, t, q, a)'
  BY <1>3, <1>4 DEF Usable, Deployed
<1>6. a \in Addr0
  BY <1>2 DEF IInv, TypeOK
<1>7. UNCHANGED <<ds, req, todo, ch, agg, grantVars, counters>> /\ target' = ZeroAddr
  BY DEF SetConfig
<1> DEFINE newC == [k |-> ConfigKey, out |-> target]
           newM == [k |-> MCMKey(Current), out |-> target]
<1>8. /\ reports'.config = reports.config \cup {newC} /\ reports'.mcm = reports.mcm \cup {newM}
      /\ reports'.deploy = reports.deploy /\ reports'.chain = reports.chain
      /\ DOMAIN reports' = DOMAIN reports
  BY DEF SetConfig, IInv, TypeOK
<1>9. TypeOK' /\ SequenceOK'
  <2>1. Obtained(t, a) /\ pc \in {"deploy", "config"}
    BY <1>2 DEF SetConfig
  <2>2. Usable(ch, t, qualifier, a)'
    BY <1>2, <1>5, <1>7 DEF Usable, Deployed, qualifier, cc
  <2>3. QED
    <3>1. t \in Types
      BY <1>2
    <3>2. QED
      BY <3>1, <2>1, <2>2, <1>1, <1>3, <1>6, <1>7, <1>8, ObtainedOK
<1>10. ReportsOK'
  <2>1. PICK rC, rM : rC = newC /\ rM = newM
    OBVIOUS
  <2>2. ConfigReportOK(rC)'
    BY <2>1, <1>2, <1>3 DEF ConfigReportOK, ConfigKey, outputAddressIdempotencyKey
  <2>3. MCMReportOK(rM)'
    BY <2>1, <1>2, <1>5 DEF MCMReportOK, MCMKey, chainSequenceIdempotencyKey
  <2>4. reports'.config = reports.config \cup {rC} /\ reports'.mcm = reports.mcm \cup {rM}
    BY <1>8, <2>1
  <2>5. QED
    BY <2>2, <2>3, <2>4, <1>3, <1>8, ReportStable DEF IInv, ReportsOK
<1>11. DeployReportsOK'
  BY <1>3, <1>7, <1>8 DEF IInv, DeployReportsOK, counters
<1>12. RefsOK'
  BY <1>3, <1>7, RefsStable DEF IInv
<1>13. QED
  BY <1>9, <1>10, <1>11, <1>12 DEF IInv

\* A SetConfig transaction whose result is lost.
LEMMA LoseSetConfigOK ==
    ASSUME IInv, LoseSetConfig
    PROVE  IInv'
BY ConfiguredGrows, RetryOrAbortOK DEF LoseSetConfig, IInv, InSequence

\* When roles are granted all five contracts exist.
LEMMA GrantStage ==
    ASSUME IInv, pc \in {"admin", "role", "grant", "done"}
    PROVE  /\ InSequence /\ ch \in Chains
           /\ \A t \in Types : existing[t] # ZeroAddr /\ existing[t] \in Addr0
           /\ existing["Timelock"] \in DOMAIN code[ch]
           /\ roles \in [Roles -> SUBSET Accounts]
<1>1. InSequence /\ ch \in Chains /\ existing \in [Types -> Addr0] /\ CodeType
  BY CodeTypeOK DEF IInv, TypeOK, InSequence
<1>2. \A i \in 1..5 : existing[DeployOrder[i]] # ZeroAddr
  BY DEF IInv, SequenceOK, Missing
<1>3. \A t \in Types : \E i \in 1..5 : t = DeployOrder[i]
  <2>1. /\ DeployOrder[1] = "Bypasser" /\ DeployOrder[2] = "Canceller" /\ DeployOrder[3] = "Proposer"
        /\ DeployOrder[4] = "Timelock" /\ DeployOrder[5] = "CallProxy"
    BY DEF DeployOrder
  <2>2. 1 \in 1..5 /\ 2 \in 1..5 /\ 3 \in 1..5 /\ 4 \in 1..5 /\ 5 \in 1..5
    OBVIOUS
  <2>3. QED
    BY <2>1, <2>2 DEF Types, MCMTypes
<1>4. \A t \in Types : existing[t] # ZeroAddr /\ existing[t] \in Addr0
  BY <1>1, <1>2, <1>3
<1>5. existing["Timelock"] \in DOMAIN code[ch]
  BY <1>1, <1>4 DEF IInv, SequenceOK, Usable, Deployed, Types
<1>6. roles \in [Roles -> SUBSET Accounts]
  BY <1>1, <1>5, ContractType DEF roles, Contract
<1>7. QED
  BY <1>1, <1>4, <1>5, <1>6

\* grantTimelockRoles goes through five roles.
LEMMA RoleOrderType == \A i \in 1..5 : RoleOrder[i] \in Roles
<1> SUFFICES ASSUME NEW i \in 1..5 PROVE RoleOrder[i] \in Roles
  OBVIOUS
<1>1. i = 1 \/ i = 2 \/ i = 3 \/ i = 4 \/ i = 5
  OBVIOUS
<1>2. QED
  BY <1>1 DEF RoleOrder, Roles

\* A step of the grant sequence disturbs only roles and the sequence's own state.
LEMMA GrantStepOK ==
    ASSUME IInv, pc \in {"admin", "role", "grant"}, pc' \in {"role", "grant", "done"},
           CodeType', Grows, \A d \in Chains : DOMAIN code'[d] = DOMAIN code[d],
           UNCHANGED <<ds, req, todo, ch, existing, fresh, target, agg, counters>>,
           DOMAIN reports' = DOMAIN reports,
           reports'.deploy = reports.deploy, reports'.config = reports.config,
           reports'.mcm = reports.mcm, reports'.chain = reports.chain,
           grants' \in [Roles -> Seq(Addr0)], \A r \in Roles : Len(grants'[r]) <= 3,
           rix' \in 1..6, pending' \subseteq 1..3,
           pc' = "grant" => rix' <= 5 /\ pending' \subseteq DOMAIN grants'[RoleOrder[rix']],
           pc' = "grant" <=> pending' # {}
    PROVE  IInv'
<1>1. TypeOK'
  BY DEF IInv, TypeOK, CodeType, InSequence, counters
<1>2. ReportsOK'
  BY ReportStable DEF IInv, ReportsOK
<1>3. RefsOK'
  BY RefsStable DEF IInv
<1>4. SequenceOK'
  <2>1. \A t \in Types : (existing[t] # ZeroAddr => Usable(ch, t, qualifier, existing[t]))'
    BY ExistingStable, GrantStage
  <2>2. Missing(existing)' = {}
    BY DEF Missing, IInv, SequenceOK
  <2>3. QED
    BY <2>1, <2>2 DEF SequenceOK
<1>5. DeployReportsOK'
  BY DEF IInv, DeployReportsOK, Grows, counters
<1>6. QED
  BY <1>1, <1>2, <1>3, <1>4, <1>5 DEF IInv

\* grantTimelockRoles reads whether the deployer is admin and starts or skips.
LEMMA CheckAdminOK ==
    ASSUME IInv, CheckAdmin
    PROVE  IInv'
<1>1. \A t \in Types : existing[t] \in Addr0
  BY GrantStage DEF CheckAdmin
<1> DEFINE G(r) ==
       CASE r = "PROPOSER"  -> <<existing["Proposer"]>>
         [] r = "CANCELLER" -> <<existing["Proposer"], existing["Canceller"], existing["Bypasser"]>>
         [] r = "BYPASSER"  -> <<existing["Bypasser"]>>
         [] r = "EXECUTOR"  -> <<existing["CallProxy"]>>
         [] r = "ADMIN"     -> IF existing["Timelock"] \in roles["ADMIN"]
                               THEN <<>> ELSE <<existing["Timelock"]>>
<1>2. ASSUME NEW r \in Roles
      PROVE  G(r) \in Seq(Addr0) /\ Len(G(r)) <= 3
  <2>1. /\ existing["Proposer"] \in Addr0 /\ existing["Canceller"] \in Addr0
        /\ existing["Bypasser"] \in Addr0 /\ existing["Timelock"] \in Addr0
        /\ existing["CallProxy"] \in Addr0
    BY <1>1 DEF Types, MCMTypes
  <2>2. QED
    BY <2>1 DEF Roles
<1>3. grants' = [r \in Roles |-> G(r)]
  BY DEF CheckAdmin, roleGrants
<1> HIDE DEF G
<1>4. grants' \in [Roles -> Seq(Addr0)] /\ \A r \in Roles : Len(grants'[r]) <= 3
  BY <1>2, <1>3
<1>5. /\ pc = "admin" /\ pc' \in {"role", "done"} /\ rix' = rix /\ pending' = pending /\ pending = {}
  BY DEF CheckAdmin, IInv, TypeOK
<1>6. /\ Grows /\ CodeType' /\ \A d \in Chains : DOMAIN code'[d] = DOMAIN code[d]
      /\ UNCHANGED <<reports, ds, req, todo, ch, existing, fresh, target, agg, counters>>
  BY Unchanged, CodeTypeOK DEF CheckAdmin, IInv, CodeType
<1>7. rix' \in 1..6 /\ pending' \subseteq 1..3
  BY <1>5 DEF IInv, TypeOK
<1>8. QED
  BY <1>4, <1>5, <1>6, <1>7, GrantStepOK

\* seqGrantRolesTimelock inspects the holders of a role.
LEMMA InspectRoleOK ==
    ASSUME IInv, InspectRole
    PROVE  IInv'
<1>1. /\ pc = "role" /\ rix \in 1..5 /\ RoleOrder[rix] \in Roles
  BY RoleOrderType DEF InspectRole, IInv, TypeOK
<1>2. pending' \subseteq DOMAIN grants[RoleOrder[rix]] /\ DOMAIN grants[RoleOrder[rix]] \subseteq 1..3
  BY <1>1 DEF InspectRole, IInv, TypeOK
<1>3. /\ Grows /\ CodeType' /\ \A d \in Chains : DOMAIN code'[d] = DOMAIN code[d]
      /\ UNCHANGED <<reports, ds, req, todo, ch, existing, fresh, target, agg, counters, grants>>
  BY Unchanged, CodeTypeOK DEF InspectRole, IInv, CodeType
<1>4. /\ pc' \in {"role", "grant", "done"} /\ (pc' = "grant" <=> pending' # {})
      /\ pc' = "grant" => rix' = rix
      /\ rix' \in 1..6
  BY <1>1 DEF InspectRole
<1>5. /\ grants' \in [Roles -> Seq(Addr0)] /\ \A r \in Roles : Len(grants'[r]) <= 3
  BY <1>3 DEF IInv, TypeOK
<1>6. /\ pending' \subseteq 1..3
      /\ pc' = "grant" => rix' <= 5 /\ pending' \subseteq DOMAIN grants'[RoleOrder[rix']]
  BY <1>1, <1>2, <1>3, <1>4
<1>7. QED
  BY <1>1, <1>3, <1>4, <1>5, <1>6, GrantStepOK

\* The address a grant is for is one the role's list names.
LEMMA GranteeType ==
    ASSUME IInv, pc = "grant"
    PROVE  /\ rix \in 1..5 /\ RoleOrder[rix] \in Roles
           /\ NextGrant \in pending /\ Grantee \in Addr0
<1>1. rix \in 1..5 /\ RoleOrder[rix] \in Roles /\ pending # {} /\ pending \subseteq 1..3
  BY RoleOrderType DEF IInv, TypeOK
<1>2. pending \subseteq Nat
  BY <1>1
<1>3. NextGrant \in pending
  BY <1>1, <1>2, LeastNat DEF NextGrant
<1>4. NextGrant \in DOMAIN grants[RoleOrder[rix]] /\ grants[RoleOrder[rix]] \in Seq(Addr0)
  BY <1>1, <1>3 DEF IInv, TypeOK
<1>5. QED
  BY <1>1, <1>3, <1>4 DEF Grantee

\* A grant changes one role of the timelock, or nothing.
LEMMA GrantedGrows ==
    ASSUME IInv, pc = "grant", code' \in {code, Granted}
    PROVE  CodeType' /\ Grows /\ \A d \in Chains : DOMAIN code'[d] = DOMAIN code[d]
<1>1. CodeType /\ ch \in Chains /\ existing["Timelock"] \in DOMAIN code[ch]
  BY CodeTypeOK, GrantStage DEF IInv
<1>2. CASE code' = code
  BY <1>1, <1>2, Unchanged DEF CodeType
<1>3. CASE code' = [code EXCEPT ![ch][existing["Timelock"]].roles[RoleOrder[rix]] = @ \cup {Grantee}]
  <2> DEFINE S == roles[RoleOrder[rix]] \cup {Grantee}
  <2>1. S \in SUBSET Accounts /\ RoleOrder[rix] \in Roles
    BY GrantStage, GranteeType DEF Accounts
  <2>2. code' = [code EXCEPT ![ch][existing["Timelock"]].roles[RoleOrder[rix]] = S]
    BY <1>3 DEF roles
  <2> HIDE DEF S
  <2>3. QED
    BY <1>1, <2>1, <2>2, RolesGrow
<1>4. QED
  BY <1>2, <1>3 DEF Granted

\* One address is granted one role, or the grant's report is reused.
LEMMA GrantRoleOK ==
    ASSUME IInv, GrantRole
    PROVE  IInv'
<1>1. /\ CodeType' /\ Grows /\ \A d \in Chains : DOMAIN code'[d] = DOMAIN code[d]
  BY GrantedGrows DEF GrantRole
<1>2. /\ DOMAIN reports' = DOMAIN reports
      /\ reports'.deploy = reports.deploy /\ reports'.config = reports.config
      /\ reports'.mcm = reports.mcm /\ reports'.chain = reports.chain
  BY DEF GrantRole, AddReport, IInv, TypeOK
<1>3. /\ rix \in 1..5 /\ pending \subseteq 1..3 /\ pending \subseteq DOMAIN grants[RoleOrder[rix]]
  BY GranteeType DEF GrantRole, IInv, TypeOK
<1>4. /\ pending' \subseteq pending /\ rix' \in 1..6 /\ pc' \in {"role", "grant"}
      /\ pc' = "grant" => rix' = rix
      /\ pc' = "grant" <=> pending' # {}
  BY <1>3 DEF GrantRole
<1>5. /\ UNCHANGED <<ds, req, todo, ch, existing, fresh, target, agg, counters, grants>>
      /\ pc = "grant"
  BY DEF GrantRole
<1>6. /\ grants' \in [Roles -> Seq(Addr0)] /\ \A r \in Roles : Len(grants'[r]) <= 3
  BY <1>5 DEF IInv, TypeOK
<1>7. ASSUME pc' = "grant"
      PROVE  rix' <= 5 /\ pending' \subseteq DOMAIN grants'[RoleOrder[rix']]
  <2>1. rix' = rix /\ grants' = grants
    BY <1>4, <1>5, <1>7
  <2>2. DOMAIN grants'[RoleOrder[rix']] = DOMAIN grants[RoleOrder[rix]]
    BY <2>1
  <2>3. QED
    BY <2>1, <2>2, <1>3, <1>4
<1>8. pending' \subseteq 1..3
  BY <1>3, <1>4
<1>9. QED
  BY <1>1, <1>2, <1>4, <1>5, <1>6, <1>7, <1>8, GrantStepOK

\* A grant transaction whose result is lost.
LEMMA LoseGrantOK ==
    ASSUME IInv, LoseGrant
    PROVE  IInv'
BY GrantedGrows, GrantStage, RetryOrAbortOK DEF LoseGrant

\* The last role is done and the grant sequence has a report.
LEMMA GrantsDoneOK ==
    ASSUME IInv, GrantsDone
    PROVE  IInv'
<1>1. /\ CodeType' /\ Grows /\ \A d \in Chains : DOMAIN code'[d] = DOMAIN code[d]
  BY Unchanged, CodeTypeOK DEF GrantsDone, IInv, CodeType
<1>2. /\ DOMAIN reports' = DOMAIN reports
      /\ reports'.deploy = reports.deploy /\ reports'.config = reports.config
      /\ reports'.mcm = reports.mcm /\ reports'.chain = reports.chain
  BY DEF GrantsDone, AddReport, IInv, TypeOK
<1>3. /\ UNCHANGED <<ds, req, todo, ch, existing, fresh, target, agg, counters, grants, rix, pending>>
      /\ pc = "role" /\ pc' = "done"
  BY DEF GrantsDone, applyVars, grantVars
<1>4. /\ grants' \in [Roles -> Seq(Addr0)] /\ \A r \in Roles : Len(grants'[r]) <= 3
      /\ rix' \in 1..6 /\ pending' \subseteq 1..3 /\ pending' = {}
  BY <1>3 DEF IInv, TypeOK
<1>5. QED
  BY <1>1, <1>2, <1>3, <1>4, GrantStepOK

\* A chain's sequence succeeds: its output is merged and its report kept.
LEMMA ChainDoneOK ==
    ASSUME IInv, ChainDone
    PROVE  IInv'
<1> DEFINE out == [t \in Types |-> IF t \in fresh THEN existing[t] ELSE ZeroAddr]
           new == [k |-> ChainKey(ch), out |-> out]
<1>1. InSequence /\ ch \in Chains /\ \A t \in Types : existing[t] # ZeroAddr /\ existing[t] \in Addr0
  BY GrantStage DEF ChainDone
<1>2. \A t \in Types : Usable(ch, t, qualifier, existing[t])
  BY <1>1 DEF IInv, SequenceOK
<1>3. agg' = WriteRefs(agg, ch, qualifier, fresh, existing) /\ UNCHANGED <<code, ds, req, ch, target, counters>>
  BY DEF ChainDone
<1>4. /\ agg' \in [Keys -> Addr0]
      /\ \A k \in Keys : \/ agg'[k] = agg[k]
                         \/ /\ k[1] = ch /\ k[3] = qualifier /\ k[2] \in Types
                            /\ agg'[k] = existing[k[2]]
  <2>1. agg \in [Keys -> Addr0] /\ existing \in [Types -> Addr0]
    BY DEF IInv, TypeOK
  <2>2. QED
    BY <2>1, <1>3, WriteRefsType
<1>5. /\ reports'.chain = reports.chain \cup {new} /\ DOMAIN reports' = DOMAIN reports
      /\ reports'.deploy = reports.deploy /\ reports'.config = reports.config
      /\ reports'.mcm = reports.mcm
  BY DEF ChainDone, AddReport, IInv, TypeOK
<1>6. Grows
  BY <1>3, Unchanged
<1>7. TypeOK'
  <2>1. /\ existing' \in [Types -> Addr0] /\ grants' \in [Roles -> Seq(Addr0)]
        /\ \A r \in Roles : Len(grants'[r]) <= 3
    BY BoundsAssumption DEF ChainDone, NoAddresses, NoGrants, Addr0, ZeroAddr
  <2>2. /\ pc = "done" /\ pc' = "chain" /\ fresh' = {} /\ rix' = 1 /\ pending' = {}
        /\ todo' = todo \ {ch}
    BY DEF ChainDone
  <2>3. QED
    BY <2>1, <2>2, <1>3, <1>4, <1>5 DEF IInv, TypeOK, InSequence, counters
<1>8. ReportsOK'
  <2>1. /\ out \in [Types -> Addr0]
        /\ \A t \in Types : out[t] # ZeroAddr => Usable(ch, t, qualifier, out[t])
    <3>1. ZeroAddr \in Addr0
      BY BoundsAssumption DEF ZeroAddr, Addr0
    <3>2. QED
      BY <1>1, <1>2, <3>1
  <2>2. ChainReportOK(new)
    <3> HIDE DEF out
    <3>1. new.k.ch = ch /\ new.k.cc.q = qualifier /\ new.out = out
      BY DEF ChainKey, qualifier, cc
    <3>2. QED
      BY <1>1, <2>1, <3>1 DEF ChainReportOK
  <2>3. PICK r : r = new
    OBVIOUS
  <2>4. ChainReportOK(r)'
    BY <2>2, <2>3, <1>6, ReportStable
  <2>5. QED
    BY <2>3, <2>4, <1>5, <1>6, ReportStable DEF IInv, ReportsOK
<1>9. RefsOK'
  <2>1. ASSUME NEW k \in Keys, agg'[k] # ZeroAddr
        PROVE  Usable(k[1], k[2], k[3], agg'[k])
    BY <2>1, <1>2, <1>4 DEF IInv, RefsOK
  <2>2. QED
    BY <2>1, <1>3 DEF IInv, RefsOK, Usable, Deployed
<1>10. SequenceOK' /\ DeployReportsOK'
  BY <1>3, <1>5 DEF ChainDone, IInv, SequenceOK, InSequence, DeployReportsOK, counters
<1>11. QED
  BY <1>7, <1>8, <1>9, <1>10 DEF IInv

\* The next run has an empty bundle: ReportsOK is about fewer reports.
LEMMA LoseReportsOK ==
    ASSUME IInv, LoseReports
    PROVE  IInv'
<1>1. /\ UNCHANGED <<code, ds, pc, fails, deletes>>
      /\ UNCHANGED <<req, todo, ch, existing, fresh, target, agg, grants, rix, pending>>
      /\ reports' = NoReports /\ losses' \in 0..MaxLosses /\ losses' # 0 /\ pc = "idle"
  BY BoundsAssumption DEF LoseReports, applyVars, grantVars, IInv, TypeOK
<1>2. TypeOK'
  BY <1>1 DEF IInv, TypeOK, InSequence, NoReports
<1>3. ReportsOK' /\ DeployReportsOK'
  BY <1>1 DEF ReportsOK, DeployReportsOK, NoReports
<1>4. RefsOK' /\ SequenceOK'
  BY <1>1, Unchanged, RefsStable DEF IInv, SequenceOK, InSequence
<1>5. QED
  BY <1>2, <1>3, <1>4 DEF IInv

\* A ref is deleted from the datastore.
LEMMA DeleteRefOK ==
    ASSUME IInv, NEW k \in Keys, DeleteRef(k)
    PROVE  IInv'
<1>1. /\ UNCHANGED <<code, reports, pc, fails, losses>>
      /\ UNCHANGED <<req, todo, ch, existing, fresh, target, agg, grants, rix, pending>>
      /\ deletes' \in 0..MaxDeletes /\ pc = "idle" /\ Grows
      /\ ds' \in [Keys -> Addr0] /\ \A j \in Keys : ds'[j] \in {ds[j], ZeroAddr}
  BY BoundsAssumption, Unchanged DEF DeleteRef, applyVars, grantVars, IInv, TypeOK, ZeroAddr, Addr0
<1>2. TypeOK'
  BY <1>1 DEF IInv, TypeOK, InSequence
<1>3. ReportsOK' /\ DeployReportsOK' /\ SequenceOK'
  BY <1>1, ReportsStable DEF IInv, DeployReportsOK, SequenceOK, InSequence
<1>4. RefsOK'
  BY <1>1 DEF IInv, RefsOK, Usable, Deployed
<1>5. QED
  BY <1>2, <1>3, <1>4 DEF IInv

\* The timelock revokes the deployer's admin role: roles change, contracts stay.
LEMMA RevokeDeployerOK ==
    ASSUME IInv, NEW c \in Chains, NEW a \in Addr, RevokeDeployer(c, a)
    PROVE  IInv'
<1>1. CodeType /\ a \in DOMAIN code[c]
  BY CodeTypeOK DEF RevokeDeployer, IInv
<1>2. CodeType' /\ Grows /\ \A d \in Chains : DOMAIN code'[d] = DOMAIN code[d]
  <2> DEFINE S == code[c][a].roles["ADMIN"] \ {Deployer}
  <2>1. S \in SUBSET Accounts /\ "ADMIN" \in Roles
    BY <1>1, ContractType DEF Contract, Roles
  <2>2. code' = [code EXCEPT ![c][a].roles["ADMIN"] = S]
    BY DEF RevokeDeployer
  <2> HIDE DEF S
  <2>3. QED
    BY <1>1, <2>1, <2>2, RolesGrow
<1>3. UNCHANGED <<ds, reports, pc, req, todo, ch, existing, fresh, target, agg, grants, rix, pending,
                  fails, losses, deletes>>
  BY DEF RevokeDeployer, applyVars, grantVars, counters
<1>4. TypeOK'
  BY <1>2, <1>3 DEF IInv, TypeOK, CodeType, InSequence, Missing
<1>5. ReportsOK' /\ RefsOK' /\ DeployReportsOK'
  BY <1>2, <1>3, ReportsStable, RefsStable DEF IInv, DeployReportsOK, Grows
<1>6. SequenceOK'
  <2>1. InSequence => \A t \in Types : (existing[t] # ZeroAddr => Usable(ch, t, qualifier, existing[t]))'
    BY <1>2, <1>3, ExistingStable
  <2>2. /\ Current' = Current /\ qualifier' = qualifier /\ Missing(existing)' = Missing(existing)
        /\ InSequence' = InSequence
    BY <1>3 DEF Current, Missing, qualifier, cc, InSequence
  <2>3. pc = "config" => Deployed(ch, Current, qualifier, target)'
    <3> SUFFICES ASSUME pc = "config" PROVE Deployed(ch, Current, qualifier, target)'
      OBVIOUS
    <3>1. PICK d, t, q, b : d \in Chains /\ d = ch /\ t = Current /\ q = qualifier /\ b = target
      BY DEF IInv, TypeOK
    <3>2. Deployed(d, t, q, b)
      BY <3>1 DEF IInv, SequenceOK
    <3>3. Deployed(d, t, q, b)'
      <4>1. d \in Chains
        BY <3>1
      <4>2. QED
        BY <4>1, <3>2, <1>2, Stable
    <3>4. QED
      BY <3>1, <3>3, <2>2, <1>3 DEF Deployed
  <2>4. QED
    BY <2>1, <2>2, <2>3, <1>3 DEF IInv, SequenceOK
<1>7. QED
  BY <1>4, <1>5, <1>6 DEF IInv

\* Every step preserves the inductive invariant.
LEMMA NextIInv == IInv /\ [Next]_vars => IInv'
<1> SUFFICES ASSUME IInv, [Next]_vars PROVE IInv'
  OBVIOUS
<1>1. ASSUME NEW i \in Inputs, Start(i) PROVE IInv'
  BY <1>1, StartOK
<1>2. CASE Step
  BY <1>2, ReuseChainOK, StartChainOK, FinishOK, ReuseMCMSequenceOK, ReuseDeployOK, DeployOK,
     SetConfigOK, CheckAdminOK, InspectRoleOK, GrantRoleOK, GrantsDoneOK, ChainDoneOK DEF Step
<1>3. CASE Fault
  BY <1>3, LoseDeployOK, LoseSetConfigOK, LoseGrantOK, FailOK, LoseReportsOK DEF Fault
<1>4. ASSUME NEW k \in Deletable, DeleteRef(k) PROVE IInv'
  BY <1>4, DeleteRefOK, DeletableAssumption
<1>5. ASSUME NEW c \in Chains, NEW a \in Addr, RevokeDeployer(c, a) PROVE IInv'
  BY <1>5, RevokeDeployerOK
<1>6. CASE UNCHANGED vars
  <2>1. UNCHANGED <<code, ds, reports, pc, req, todo, ch, existing, fresh, target, agg, grants, rix,
                    pending, fails, losses, deletes>>
    BY <1>6 DEF vars, applyVars, grantVars, counters
  <2>2. TypeOK'
    BY <2>1 DEF IInv, TypeOK, InSequence, Missing
  <2>3. ReportsOK' /\ RefsOK' /\ DeployReportsOK'
    BY <2>1, Unchanged, ReportsStable, RefsStable DEF IInv, DeployReportsOK
  <2>4. SequenceOK'
    BY <2>1 DEF IInv, SequenceOK, InSequence, Current, Missing, Usable, Deployed, qualifier, cc
  <2>5. QED
    BY <2>2, <2>3, <2>4 DEF IInv
<1>7. QED
  BY <1>1, <1>2, <1>3, <1>4, <1>5, <1>6, DeletableAssumption DEF Next

----------------------------------------------------------------------------
(* Theorems *)

\* The inductive invariant holds in every reachable state.
THEOREM Invariance == Spec => []IInv
<1>1. QED
  BY InitIInv, NextIInv, PTL DEF Spec

\* Type correctness of the deploy changeset's state, for every number of chains,
\* qualifiers, runs, failures and losses.
THEOREM TypeCorrect == Spec => []TypeOK
<1>1. IInv => TypeOK
  BY DEF IInv
<1>2. QED
  BY <1>1, Invariance, PTL

\* No MCM address reaches the datastore before the contract is configured, over
\* any interleaving of failures, lost results, retries, reused reports and
\* deletions.
THEOREM ConfiguredBeforeRecorded == Spec => []RecordedMCMConfigured
<1>1. IInv => RecordedMCMConfigured
  <2> SUFFICES ASSUME IInv, NEW c \in Chains, NEW t \in MCMTypes, NEW q \in Qualifiers,
                      ds[<<c, t, q>>] # ZeroAddr
               PROVE  code[c][ds[<<c, t, q>>]].cfg # NoConfig
    BY DEF RecordedMCMConfigured
  <2>1. <<c, t, q>> \in Keys
    BY DEF Keys, Types
  <2>2. Usable(c, t, q, ds[<<c, t, q>>])
    BY <2>1 DEF IInv, RefsOK
  <2>3. QED
    BY <2>2 DEF Usable
<1>2. QED
  BY <1>1, Invariance, PTL

\* While no transaction result and no report is lost, no retry creates a second
\* contract from the same deploy input.
THEOREM RetryNeverRedeploys == Spec => []AtMostOncePerInput
<1>1. IInv => AtMostOncePerInput
  <2> SUFFICES ASSUME IInv, losses = 0, NEW c \in Chains, NEW a \in DOMAIN code[c],
                      NEW b \in DOMAIN code[c], code[c][a].in = code[c][b].in
               PROVE  a = b
    BY DEF AtMostOncePerInput
  <2> DEFINE r(x) == [k |-> [key |-> c, in |-> code[c][x].in], out |-> x]
  <2>1. r(a) \in reports.deploy /\ r(b) \in reports.deploy
    BY DEF IInv, DeployReportsOK
  <2>2. r(a) = r(b)
    BY <2>1 DEF IInv, DeployReportsOK
  <2>3. QED
    BY <2>2
<1>2. QED
  BY <1>1, Invariance, PTL

\* A step that creates no contract leaves Created as it is.
LEMMA CreatedSame ==
    ASSUME Grows, \A d \in Chains : DOMAIN code'[d] = DOMAIN code[d]
    PROVE  Created' = Created
<1>1. ASSUME NEW k \in Keys
      PROVE  {a \in DOMAIN code'[k[1]] : code'[k[1]][a].in.t = k[2] /\ code'[k[1]][a].in.q = k[3]}
             = {a \in DOMAIN code[k[1]] : code[k[1]][a].in.t = k[2] /\ code[k[1]][a].in.q = k[3]}
  <2>1. k[1] \in Chains
    BY DEF Keys
  <2>2. QED
    BY <2>1 DEF Grows
<1>2. QED
  BY <1>1 DEF Created

\* A deploy operation is a Create step of the abstract specification.
LEMMA CreateRefines ==
    ASSUME IInv, CanDeploy, Create(DeployIn(Current)), UNCHANGED ds
    PROVE  \E k \in Keys, a \in Addr : Record!Create(k, a)
<1>1. PICK n \in Addr, t \in Types, c \in Chains, q \in Qualifiers :
         n = Len(code[ch]) + 1 /\ t = Current /\ c = ch /\ q = qualifier
  BY CreateCurrent, CurrentInSequence DEF CanDeploy
<1>2. /\ DOMAIN code'[c] = DOMAIN code[c] \cup {n} /\ n \notin DOMAIN code[c]
      /\ code'[c][n].in.t = t /\ code'[c][n].in.q = q
      /\ \A d \in Chains \ {c} : code'[d] = code[d]
      /\ \A b \in DOMAIN code[c] : code'[c][b] = code[c][b]
  <2>1. code[c] \in Seq(Contract)
    BY DEF IInv, TypeOK
  <2>2. n \notin DOMAIN code[c]
    BY <1>1, <2>1
  <2>3. QED
    BY <1>1, <2>2, CreateCurrent DEF DeployIn
<1> DEFINE k == <<c, t, q>>
<1>3. k \in Keys /\ k[1] = c /\ k[2] = t /\ k[3] = q
  BY DEF Keys
<1>4. \A j \in Keys : j[1] = c => n \notin Created[j]
  BY <1>2 DEF Created
<1>5. ASSUME NEW j \in Keys
      PROVE  Created'[j] = IF j = k THEN Created[j] \cup {n} ELSE Created[j]
  <2>1. j \in Chains \X Types \X Qualifiers /\ j = <<j[1], j[2], j[3]>> /\ j[1] \in Chains
    BY DEF Keys
  <2>2. /\ Created[j] = {a \in DOMAIN code[j[1]] : code[j[1]][a].in.t = j[2] /\ code[j[1]][a].in.q = j[3]}
        /\ Created'[j] = {a \in DOMAIN code'[j[1]] : code'[j[1]][a].in.t = j[2] /\ code'[j[1]][a].in.q = j[3]}
    BY DEF Created
  <2>3. CASE j[1] # c
    BY <2>1, <2>2, <2>3, <1>2, <1>3
  <2>4. CASE j[1] = c /\ j # k
    <3>1. j[2] # t \/ j[3] # q
      BY <2>1, <2>4
    <3>2. QED
      BY <2>2, <2>4, <3>1, <1>2
  <2>5. CASE j = k
    BY <2>2, <2>5, <1>2, <1>3
  <2>6. QED
    BY <2>3, <2>4, <2>5
<1>6. Created' = [Created EXCEPT ![k] = @ \cup {n}]
  <2>1. Created' = [j \in Keys |-> Created'[j]] /\ Created = [j \in Keys |-> Created[j]]
    BY DEF Created
  <2>2. QED
    BY <2>1, <1>3, <1>5
<1> HIDE DEF k
<1>7. Record!Create(k, n)
  BY <1>3, <1>4, <1>6 DEF Record!Create
<1>8. QED
  BY <1>3, <1>7

\* Apply's final write is a Record step.
LEMMA FinishRefines ==
    ASSUME IInv, Finish
    PROVE  Record!Record
<1>1. Created' = Created
  BY Unchanged, CreatedSame DEF Finish
<1>2. ds' \in [Keys -> Addr \cup {ZeroAddr}]
  BY FinishOK DEF IInv, TypeOK, Addr, Addr0, ZeroAddr
<1>3. ASSUME NEW k \in Keys, ds'[k] # ds[k]
      PROVE  ds'[k] \in Created[k]
  <2>1. ds'[k] = agg[k] /\ agg[k] # ZeroAddr
    BY <1>3 DEF Finish
  <2>2. Usable(k[1], k[2], k[3], agg[k])
    BY <2>1 DEF IInv, RefsOK
  <2>3. QED
    BY <2>1, <2>2 DEF Usable, Deployed, Created
<1>4. QED
  BY <1>1, <1>2, <1>3 DEF Record!Record

\* Every step of the changeset is a step of DeploymentRecord or leaves it alone.
LEMMA StepRefines ==
    IInv /\ [Next]_vars => [Record!RecordNext]_(Record!recordVars)
<1> SUFFICES ASSUME IInv, [Next]_vars
             PROVE  Record!RecordNext \/ (Created' = Created /\ ds' = ds)
  BY DEF Record!recordVars
<1> DEFINE Same == UNCHANGED ds /\ Grows /\ \A d \in Chains : DOMAIN code'[d] = DOMAIN code[d]
<1>1. ASSUME Same PROVE Created' = Created /\ ds' = ds
  BY <1>1, CreatedSame
<1>2. UNCHANGED <<code, ds>> => Same
  BY Unchanged
<1>3. CASE Deploy \/ LoseDeploy
  BY <1>3, CreateRefines DEF Deploy, LoseDeploy, RetryOrAbort, Record!RecordNext
<1>4. CASE Finish
  BY <1>4, FinishRefines DEF Record!RecordNext
<1>5. CASE SetConfig \/ LoseSetConfig
  <2>1. pc = "config" /\ UNCHANGED ds /\ code' \in {code, Configured}
    BY <1>5 DEF SetConfig, LoseSetConfig, RetryOrAbort
  <2>2. Same
    BY <2>1, <1>2, ConfiguredGrows DEF IInv
  <2>3. QED
    BY <2>2, <1>1
<1>6. CASE GrantRole \/ LoseGrant
  <2>1. pc = "grant" /\ UNCHANGED ds /\ code' \in {code, Granted}
    BY <1>6 DEF GrantRole, LoseGrant, RetryOrAbort
  <2>2. Same
    BY <2>1, GrantedGrows
  <2>3. QED
    BY <2>2, <1>1
<1>7. ASSUME NEW k \in Keys, DeleteRef(k) PROVE Record!RecordNext
  <2>1. Created' = Created /\ ds' = [ds EXCEPT ![k] = ZeroAddr]
    BY <1>7, Unchanged, CreatedSame DEF DeleteRef
  <2>2. QED
    BY <2>1 DEF Record!RecordNext, Record!Delete
<1>8. ASSUME NEW c \in Chains, NEW a \in Addr, RevokeDeployer(c, a) PROVE Same
  <2>1. CodeType /\ a \in DOMAIN code[c] /\ UNCHANGED ds
    BY <1>8, CodeTypeOK DEF RevokeDeployer, IInv
  <2> DEFINE S == code[c][a].roles["ADMIN"] \ {Deployer}
  <2>2. S \in SUBSET Accounts /\ "ADMIN" \in Roles
    BY <2>1, ContractType DEF Contract, Roles
  <2>3. code' = [code EXCEPT ![c][a].roles["ADMIN"] = S]
    BY <1>8 DEF RevokeDeployer
  <2> HIDE DEF S
  <2>4. QED
    BY <2>1, <2>2, <2>3, RolesGrow
<1>9. CASE ReuseChain \/ StartChain \/ ReuseMCMSequence \/ ReuseDeploy \/ CheckAdmin \/ InspectRole
           \/ GrantsDone \/ ChainDone \/ Fail \/ LoseReports \/ UNCHANGED vars
           \/ \E i \in Inputs : Start(i)
  <2>1. UNCHANGED <<code, ds>>
    BY <1>9 DEF ReuseChain, StartChain, ReuseMCMSequence, ReuseDeploy, CheckAdmin, InspectRole,
       GrantsDone, ChainDone, Fail, LoseReports, Start, vars
  <2>2. QED
    BY <2>1, <1>1, <1>2
<1>10. QED
  BY <1>1, <1>3, <1>4, <1>5, <1>6, <1>7, <1>8, <1>9, DeletableAssumption DEF Next, Step, Fault

\* The deploy changeset implements DeploymentRecord: whatever fails, is lost,
\* retried or reused, contracts appear one at a time at unused addresses and every
\* ref it writes is a contract of that chain, type and qualifier.
THEOREM Refinement == Spec => RefinesRecord
<1>1. Init => Record!RecordInit
  <2> SUFFICES ASSUME Init PROVE Record!RecordInit
    OBVIOUS
  <2>1. \A k \in Keys : k[1] \in Chains
    BY DEF Keys
  <2>2. Created = [k \in Keys |-> {}]
    BY <2>1 DEF Init, Created
  <2>3. QED
    BY <2>2 DEF Record!RecordInit, Init, NoRefs
<1>2. IInv /\ [Next]_vars => [Record!RecordNext]_(Record!recordVars)
  BY StepRefines
<1>3. QED
  BY <1>1, <1>2, Invariance, PTL DEF Spec, RefinesRecord, Record!RecordSpec

----------------------------------------------------------------------------
(* What a step keeps of the wiring *)

\* A set is whole exactly when nothing is left to deploy.
LEMMA WholeSet ==
    ASSUME NEW ex
    PROVE  Missing(ex) = {} <=> Present(ex) = Types
<1>1. /\ DeployOrder[1] = "Bypasser" /\ DeployOrder[2] = "Canceller" /\ DeployOrder[3] = "Proposer"
      /\ DeployOrder[4] = "Timelock" /\ DeployOrder[5] = "CallProxy"
  BY DEF DeployOrder
<1>2. 1..5 = {1, 2, 3, 4, 5}
  OBVIOUS
<1>3. Missing(ex) = {} <=>
        /\ ex["Bypasser"] # ZeroAddr /\ ex["Canceller"] # ZeroAddr /\ ex["Proposer"] # ZeroAddr
        /\ ex["Timelock"] # ZeroAddr /\ ex["CallProxy"] # ZeroAddr
  BY <1>1, <1>2 DEF Missing
<1>4. QED
  BY <1>3 DEF Present, Types, MCMTypes

\* Contracts keep the input they were created from and the roles they granted, but
\* for the deployer's.
RolesKept ==
    \A c \in Chains :
       /\ DOMAIN code[c] \subseteq DOMAIN code'[c]
       /\ \A a \in DOMAIN code[c] :
             /\ code'[c][a].in = code[c][a].in
             /\ \A r \in Roles : code[c][a].roles[r] \ {Deployer} \subseteq code'[c][a].roles[r]

\* No timelock becomes its own admin.
NoNewRuler ==
    \A c \in Chains : \A a \in DOMAIN code[c] :
       a \in code'[c][a].roles["ADMIN"] => a \in code[c][a].roles["ADMIN"]

\* A step that leaves the chains alone keeps all of this.
LEMMA RolesSame ==
    ASSUME UNCHANGED code
    PROVE  RolesKept /\ NoNewRuler /\ (TimelocksRuled => TimelocksRuled')
BY DEF RolesKept, NoNewRuler, TimelocksRuled, Ruled

\* An address is no account of the deployer.
LEMMA AddrIsNotDeployer == \A a \in Addr0 : a # Deployer
BY SentinelAssumption DEF Addr0

\* A wired set stays wired.
LEMMA WiredStable ==
    ASSUME RolesKept, NEW c \in Chains, NEW A \in [Types -> Addr0],
           A["Timelock"] \in DOMAIN code[c], A["CallProxy"] \in DOMAIN code[c], WiredSet(c, A)
    PROVE  WiredSet(c, A)'
<1>1. /\ A["Proposer"] # Deployer /\ A["Canceller"] # Deployer /\ A["Bypasser"] # Deployer
      /\ A["Timelock"] # Deployer /\ A["CallProxy"] # Deployer
  BY AddrIsNotDeployer DEF Types, MCMTypes
<1>2. code'[c][A["CallProxy"]].in = code[c][A["CallProxy"]].in
  BY DEF RolesKept
<1>3. \A r \in Roles : code[c][A["Timelock"]].roles[r] \ {Deployer} \subseteq code'[c][A["Timelock"]].roles[r]
  BY DEF RolesKept
<1>4. {"PROPOSER", "CANCELLER", "BYPASSER", "EXECUTOR", "ADMIN"} = Roles
  BY DEF Roles
<1>5. QED
  BY <1>1, <1>2, <1>3, <1>4 DEF WiredSet

\* A set whose roles are kept stays as whole as it was.
LEMMA SetStable ==
    ASSUME RolesKept, NEW c \in Chains, NEW A \in [Types -> Addr0], SetOK(c, A)
    PROVE  SetOK(c, A)'
<1>1. CASE Present(A) = {}
  BY <1>1 DEF SetOK, Present
<1>2. CASE Present(A) # {}
  <2>1. /\ Present(A) = Types /\ WiredSet(c, A)
        /\ A["Timelock"] \in DOMAIN code[c] /\ A["CallProxy"] \in DOMAIN code[c]
    BY <1>2 DEF SetOK
  <2>2. WiredSet(c, A)'
    BY <2>1, WiredStable
  <2>3. A["Timelock"] \in DOMAIN code'[c] /\ A["CallProxy"] \in DOMAIN code'[c]
    BY <2>1 DEF RolesKept
  <2>4. QED
    BY <2>1, <2>2, <2>3 DEF SetOK, Present
<1>3. QED
  BY <1>1, <1>2

\* The recorded and aggregated refs are addresses.
LEMMA AddressesType ==
    ASSUME TypeOK, NEW c \in Chains, NEW q \in Qualifiers
    PROVE  loadDeployedAddresses(c, q) \in [Types -> Addr0] /\ Aggregated(c, q) \in [Types -> Addr0]
<1>1. \A t \in Types : <<c, t, q>> \in Keys
  BY DEF Keys
<1>2. QED
  BY <1>1 DEF TypeOK, loadDeployedAddresses, Aggregated

\* Recorded sets stay whole while no role is revoked.
LEMMA RefsWholeStable ==
    ASSUME TypeOK, RolesKept, RefsWhole, UNCHANGED <<ds, agg>>
    PROVE  RefsWhole'
<1>1. ASSUME NEW c \in Chains, NEW q \in Qualifiers
      PROVE  SetOK(c, loadDeployedAddresses(c, q))' /\ SetOK(c, Aggregated(c, q))'
  <2>1. PICK A, B : A = loadDeployedAddresses(c, q) /\ B = Aggregated(c, q)
    OBVIOUS
  <2>2. A \in [Types -> Addr0] /\ B \in [Types -> Addr0]
    BY <2>1, AddressesType
  <2>3. SetOK(c, A) /\ SetOK(c, B)
    BY <2>1 DEF RefsWhole
  <2>4. SetOK(c, A)' /\ SetOK(c, B)'
    BY <2>2, <2>3, SetStable
  <2>5. loadDeployedAddresses(c, q)' = A /\ Aggregated(c, q)' = B
    BY <2>1 DEF loadDeployedAddresses, Aggregated
  <2>6. QED
    BY <2>4, <2>5 DEF SetOK, Present, WiredSet
<1>2. QED
  BY <1>1 DEF RefsWhole

\* So do the sets that the reports of chains name.
LEMMA ReportsWholeStable ==
    ASSUME ReportsOK, RolesKept, ReportsWhole, UNCHANGED reports.chain
    PROVE  ReportsWhole'
<1>1. ASSUME NEW r \in reports.chain PROVE SetOK(r.k.ch, r.out)'
  <2>1. r.k.ch \in Chains /\ r.out \in [Types -> Addr0] /\ SetOK(r.k.ch, r.out)
    BY DEF ReportsOK, ChainReportOK, ReportsWhole
  <2>2. QED
    BY <2>1, SetStable
<1>2. QED
  BY <1>1 DEF ReportsWhole

\* A grant in force stays in force.
LEMMA HoldsStable ==
    ASSUME RolesKept, NEW c, NEW tl, NEW role, NEW a, Holds(c, tl, role, a)
    PROVE  Holds(c, tl, role, a)'
BY AddrIsNotDeployer DEF RolesKept, Holds

\* What the reports of grants say stays true.
LEMMA GrantReportsStable ==
    ASSUME RolesKept, GrantReportsOK, UNCHANGED <<reports.grant, reports.grantSeq>>
    PROVE  GrantReportsOK'
<1>1. ASSUME NEW r \in reports.grant PROVE Holds(r.k.key[1], r.k.key[2], r.k.role, r.k.a)'
  BY HoldsStable DEF GrantReportsOK
<1>2. ASSUME NEW r \in reports.grantSeq, NEW role \in Roles, NEW i \in DOMAIN r.k.g[role]
      PROVE  Holds(r.k.key, r.k.tl, role, r.k.g[role][i])'
  BY HoldsStable DEF GrantReportsOK
<1>3. QED
  BY <1>1, <1>2 DEF GrantReportsOK

\* Every self-ruled timelock keeps the executor that the reports name, when each
\* is either an old one or gets its executor in this step.
LEMMA ExecutorKept ==
    ASSUME IInv, RolesKept, ExecutorFirst, reports.deploy \subseteq reports'.deploy,
           \A r \in reports'.deploy :
              (r.k.in.t = "Timelock" /\ r.out \in code'[r.k.key][r.out].roles["ADMIN"]) =>
                 \/ r \in reports.deploy /\ r.out \in code[r.k.key][r.out].roles["ADMIN"]
                 \/ \E p \in reports'.deploy :
                       p.k = ProxyKey(r) /\ p.out \in code'[r.k.key][r.out].roles["EXECUTOR"]
    PROVE  ExecutorFirst'
<1>1. ASSUME NEW r \in reports.deploy, r.k.in.t = "Timelock",
             r.out \in code[r.k.key][r.out].roles["ADMIN"]
      PROVE  \E p \in reports'.deploy :
                p.k = ProxyKey(r) /\ p.out \in code'[r.k.key][r.out].roles["EXECUTOR"]
  <2>1. r.k.key \in Chains /\ r.out \in DOMAIN code[r.k.key]
    BY DEF IInv, ReportsOK, DeployReportOK
  <2>2. PICK p \in reports.deploy :
           p.k = ProxyKey(r) /\ p.out \in code[r.k.key][r.out].roles["EXECUTOR"]
    BY <1>1 DEF ExecutorFirst
  <2>3. p.k.key \in Chains /\ p.out \in DOMAIN code[p.k.key]
    BY DEF IInv, ReportsOK, DeployReportOK
  <2>4. p.out # Deployer
    BY <2>3, CodeTypeOK, ContractType, AddrIsNotDeployer DEF IInv, Addr, Addr0
  <2>5. p.out \in code'[r.k.key][r.out].roles["EXECUTOR"]
    BY <2>1, <2>2, <2>4 DEF RolesKept, Roles
  <2>6. QED
    BY <2>2, <2>5
<1>2. \A r \in reports'.deploy :
         (r.k.in.t = "Timelock" /\ r.out \in code'[r.k.key][r.out].roles["ADMIN"]) =>
            \E p \in reports'.deploy :
               p.k = ProxyKey(r) /\ p.out \in code'[r.k.key][r.out].roles["EXECUTOR"]
  BY <1>1
<1>3. QED
  BY <1>2 DEF ExecutorFirst, ProxyKey

\* No new ruler: nothing to show.
LEMMA ExecutorStable ==
    ASSUME IInv, RolesKept, NoNewRuler, ExecutorFirst, UNCHANGED reports.deploy
    PROVE  ExecutorFirst'
<1>1. \A r \in reports.deploy : r.k.key \in Chains /\ r.out \in DOMAIN code[r.k.key]
  BY DEF IInv, ReportsOK, DeployReportOK
<1>2. \A r \in reports'.deploy :
         r.out \in code'[r.k.key][r.out].roles["ADMIN"] =>
            r \in reports.deploy /\ r.out \in code[r.k.key][r.out].roles["ADMIN"]
  BY <1>1 DEF NoNewRuler
<1>3. QED
  BY <1>2, ExecutorKept

\* What a run has collected stays so while it goes on.
LEMMA RunWholeStable ==
    ASSUME IInv, InSequence, RolesKept, RunWhole, UNCHANGED <<ch, req, existing, fresh>>,
           reports.deploy \subseteq reports'.deploy
    PROVE  RunWhole'
<1>1. /\ DeployKey("Timelock")' = DeployKey("Timelock")
      /\ DeployKey("CallProxy")' = DeployKey("CallProxy")
  BY DEF DeployKey, DeployIn, ConstructorArgs, qualifier, cc, MCMTypes
<1>2. CASE Collected
  <2>1. Collected'
    BY <1>1, <1>2 DEF Collected, Reported, Present
  <2>2. QED
    BY <2>1 DEF RunWhole
<1>3. CASE fresh = {} /\ Missing(existing) = {} /\ WiredSet(ch, existing)
  <2>1. PICK A, c : A = existing /\ c = ch
    OBVIOUS
  <2>2. c \in Chains /\ A \in [Types -> Addr0]
    BY <2>1 DEF IInv, TypeOK
  <2>3. Present(existing) = Types
    BY <1>3, WholeSet
  <2>4. A["Timelock"] \in DOMAIN code[c] /\ A["CallProxy"] \in DOMAIN code[c]
    BY <2>1, <2>3 DEF IInv, SequenceOK, Usable, Deployed, Present, Types
  <2>5. WiredSet(c, A)'
    BY <1>3, <2>1, <2>2, <2>4, WiredStable
  <2>6. WiredSet(ch, existing)'
    BY <2>1, <2>5 DEF WiredSet
  <2>7. QED
    BY <1>3, <2>6 DEF RunWhole, Missing
<1>4. QED
  BY <1>2, <1>3 DEF RunWhole

----------------------------------------------------------------------------
(* What the transactions do to the roles *)

\* A contract that is replaced by another version of itself.
LEMMA UpdateKeeps ==
    ASSUME CodeType, TimelocksRuled, NEW c \in Chains, NEW a \in DOMAIN code[c], NEW con \in Contract,
           code' = Updated(c, a, con), con.in = code[c][a].in,
           \A r \in Roles : code[c][a].roles[r] \ {Deployer} \subseteq con.roles[r],
           \A r \in Roles \ {"ADMIN"} : code[c][a].roles[r] \subseteq con.roles[r],
           code[c][a].in.t = "Timelock" => Deployer \in con.roles["ADMIN"] \/ a \in con.roles["ADMIN"]
    PROVE  /\ RolesKept /\ TimelocksRuled'
           /\ (a \in con.roles["ADMIN"] => a \in code[c][a].roles["ADMIN"]) => NoNewRuler
<1> DEFINE s == [code[c] EXCEPT ![a] = con]
<1>1. code[c] \in Seq(Contract) /\ DOMAIN code[c] = 1..Len(code[c])
  BY DEF CodeType
<1>2. DOMAIN s = DOMAIN code[c] /\ s[a] = con /\ \A b \in DOMAIN code[c] : b # a => s[b] = code[c][b]
  BY <1>1
<1>3. code' = [code EXCEPT ![c] = s]
  BY DEF Updated
<1> HIDE DEF s
<1>4. code'[c] = s /\ \A d \in Chains \ {c} : code'[d] = code[d]
  BY <1>3 DEF CodeType
<1>5. \A d \in Chains : /\ DOMAIN code'[d] = DOMAIN code[d]
                        /\ \A b \in DOMAIN code[d] : code'[d][b] = IF d = c /\ b = a THEN con ELSE code[d][b]
  BY <1>2, <1>4
<1>6. RolesKept
  BY <1>5 DEF RolesKept
<1>7. TimelocksRuled'
  <2>1. ASSUME NEW d \in Chains, NEW b \in DOMAIN code[d], code[d][b].in.t = "Timelock"
        PROVE  Ruled(d, b)'
    <3>1. Ruled(d, b)
      BY <2>1 DEF TimelocksRuled
    <3>2. CASE d = c /\ b = a
      BY <3>1, <3>2, <2>1, <1>5 DEF Ruled
    <3>3. CASE ~(d = c /\ b = a)
      BY <3>1, <3>3, <1>5 DEF Ruled
    <3>4. QED
      BY <3>2, <3>3
  <2>2. \A d \in Chains : DOMAIN code'[d] = DOMAIN code[d] /\ \A b \in DOMAIN code[d] : code'[d][b].in = code[d][b].in
    BY <1>5
  <2>3. QED
    BY <2>1, <2>2 DEF TimelocksRuled
<1>8. (a \in con.roles["ADMIN"] => a \in code[c][a].roles["ADMIN"]) => NoNewRuler
  BY <1>5 DEF NoNewRuler
<1>9. QED
  BY <1>6, <1>7, <1>8

\* A new contract: its constructor makes the deployer the timelock's admin.
LEMMA CreateKeeps ==
    ASSUME IInv, TimelocksRuled, CanDeploy, Create(DeployIn(Current))
    PROVE  RolesKept /\ NoNewRuler /\ TimelocksRuled'
<1>1. Current \in Types /\ ch \in Chains
  BY CreateCurrent
<1>2. PICK c, a, in : c = ch /\ a = Len(code[ch]) + 1 /\ in = DeployIn(Current)
  OBVIOUS
<1>3. /\ DOMAIN code'[c] = DOMAIN code[c] \cup {a} /\ c \in Chains
      /\ \A d \in Chains \ {c} : code'[d] = code[d]
      /\ \A b \in DOMAIN code[c] : code'[c][b] = code[c][b]
      /\ code'[c][a] = NewContract(in)
  <2>1. CodeType /\ InSequence /\ Len(code[ch]) < MaxAddr
    BY CurrentInSequence, CodeTypeOK DEF CanDeploy, IInv
  <2>2. NewContract(DeployIn(Current)) \in Contract
    BY <1>1, <2>1, DeployInType DEF IInv
  <2>3. QED
    BY <1>1, <1>2, <2>1, <2>2, CreateGrows
<1>4. RolesKept /\ NoNewRuler
  BY <1>3 DEF RolesKept, NoNewRuler
<1>5. ASSUME in.t = "Timelock" PROVE Ruled(c, a)'
  <2>1. code'[c][a].in = in /\ code'[c][a].roles = ConstructorRoles(in)
    BY <1>3 DEF NewContract
  <2>2. ConstructorRoles(in)["ADMIN"] = {Deployer}
    BY <1>5 DEF ConstructorRoles, Roles
  <2>3. QED
    BY <2>1, <2>2 DEF Ruled
<1>6. ASSUME NEW d \in Chains, NEW b \in DOMAIN code'[d], code'[d][b].in.t = "Timelock"
      PROVE  Ruled(d, b)'
  <2>1. CASE d = c /\ b = a
    <3>1. code'[c][a].in = in
      BY <1>3 DEF NewContract
    <3>2. QED
      BY <2>1, <3>1, <1>5, <1>6
  <2>2. CASE ~(d = c /\ b = a)
    <3>1. b \in DOMAIN code[d] /\ code'[d][b] = code[d][b]
      BY <2>2, <1>3
    <3>2. Ruled(d, b)
      BY <3>1, <1>6 DEF TimelocksRuled
    <3>3. QED
      BY <3>1, <3>2 DEF Ruled
  <2>3. QED
    BY <2>1, <2>2
<1>7. TimelocksRuled'
  BY <1>6 DEF TimelocksRuled
<1>8. QED
  BY <1>4, <1>7

\* SetConfig touches no role.
LEMMA ConfiguredKeeps ==
    ASSUME IInv, TimelocksRuled, pc = "config", code' \in {code, Configured}
    PROVE  RolesKept /\ NoNewRuler /\ TimelocksRuled'
<1>1. CASE code' = code
  BY <1>1, RolesSame
<1>2. CASE code' = Configured
  <2>1. /\ CodeType /\ ch \in Chains /\ target \in DOMAIN code[ch]
        /\ Current \in MCMTypes /\ cc \in ChainConfig
    BY InputType, CodeTypeOK DEF IInv, TypeOK, SequenceOK, Deployed, InSequence, cc
  <2> DEFINE v == cc.cfg[Current]
             con == [code[ch][target] EXCEPT !.cfg = v]
  <2>2. v \in Signers
    BY <2>1 DEF ChainConfig
  <2>3. code[ch][target] \in Contract
    BY <2>1, ContractType
  <2>4. con \in Contract /\ con.in = code[ch][target].in /\ con.roles = code[ch][target].roles
    BY <2>2, <2>3 DEF Contract
  <2>5. code' = Updated(ch, target, con)
    BY <1>2 DEF Configured, Updated
  <2>6. code[ch][target].in.t = "Timelock" => Ruled(ch, target)
    BY <2>1 DEF TimelocksRuled
  <2> HIDE DEF con, v
  <2>7. QED
    BY <2>1, <2>4, <2>5, <2>6, UpdateKeeps DEF Ruled
<1>3. QED
  BY <1>1, <1>2

\* Role r of contract a on chain c becomes S, and nothing else changes there.
RoleSet(c, a, r, S) ==
    \A d \in Chains :
       /\ DOMAIN code'[d] = DOMAIN code[d]
       /\ \A b \in DOMAIN code[d] :
             /\ code'[d][b].in = code[d][b].in
             /\ \A x \in Roles : code'[d][b].roles[x] =
                   IF d = c /\ b = a /\ x = r THEN S ELSE code[d][b].roles[x]

\* A grant changes the members of one role of one contract.
LEMMA RoleAt ==
    ASSUME CodeType, NEW c \in Chains, NEW a \in DOMAIN code[c], NEW r \in Roles,
           NEW S \in SUBSET Accounts, code' = [code EXCEPT ![c][a].roles[r] = S]
    PROVE  RoleSet(c, a, r, S)
<1> DEFINE con == [code[c][a] EXCEPT !.roles = [code[c][a].roles EXCEPT ![r] = S]]
           s == [code[c] EXCEPT ![a] = con]
<1>1. code[c][a] \in Contract
  BY ContractType
<1>2. con.in = code[c][a].in /\ con.roles = [code[c][a].roles EXCEPT ![r] = S]
  BY <1>1 DEF Contract
<1>3. code[c][a].roles \in [Roles -> SUBSET Accounts]
  BY <1>1 DEF Contract
<1>4. con.roles[r] = S /\ \A x \in Roles : x # r => con.roles[x] = code[c][a].roles[x]
  BY <1>2, <1>3
<1> HIDE DEF con
<1>5. code[c] \in Seq(Contract) /\ DOMAIN code[c] = 1..Len(code[c])
  BY DEF CodeType
<1>6. DOMAIN s = DOMAIN code[c] /\ s[a] = con /\ \A b \in DOMAIN code[c] : b # a => s[b] = code[c][b]
  BY <1>5
<1>7. code' = [code EXCEPT ![c] = s]
  BY DEF con
<1> HIDE DEF s
<1>8. code'[c] = s /\ \A d \in Chains \ {c} : code'[d] = code[d]
  BY <1>7 DEF CodeType
<1>9. QED
  BY <1>2, <1>4, <1>6, <1>8 DEF RoleSet

\* A role that only grows, but for a deployer that leaves another admin behind.
LEMMA RoleGrows ==
    ASSUME TimelocksRuled, NEW c \in Chains, NEW a \in DOMAIN code[c], NEW r \in Roles, NEW S,
           RoleSet(c, a, r, S),
           code[c][a].roles[r] \ {Deployer} \subseteq S,
           Deployer \in code[c][a].roles[r] => Deployer \in S \/ (r = "ADMIN" /\ a \in S)
    PROVE  RolesKept /\ TimelocksRuled'
<1>1. RolesKept
  BY DEF RolesKept, RoleSet
<1>2. ASSUME NEW d \in Chains, NEW b \in DOMAIN code[d], code[d][b].in.t = "Timelock"
      PROVE  Ruled(d, b)'
  <2>1. Ruled(d, b) /\ code'[d][b].in = code[d][b].in
    BY <1>2 DEF TimelocksRuled, RoleSet
  <2>2. "ADMIN" \in Roles
    BY DEF Roles
  <2>3. Deployer \in code'[d][b].roles["ADMIN"] \/ b \in code'[d][b].roles["ADMIN"]
    <3>1. CASE d = c /\ b = a /\ r = "ADMIN"
      <4>1. code'[d][b].roles["ADMIN"] = S
        BY <2>2, <3>1 DEF RoleSet
      <4>2. CASE Deployer \in code[d][b].roles["ADMIN"]
        BY <3>1, <4>1, <4>2
      <4>3. CASE b \in code[d][b].roles["ADMIN"] /\ Deployer \notin code[d][b].roles["ADMIN"]
        BY <3>1, <4>1, <4>3
      <4>4. QED
        BY <2>1, <4>2, <4>3 DEF Ruled
    <3>2. CASE ~(d = c /\ b = a /\ r = "ADMIN")
      <4>1. code'[d][b].roles["ADMIN"] = code[d][b].roles["ADMIN"]
        BY <2>2, <3>2 DEF RoleSet
      <4>2. QED
        BY <2>1, <4>1 DEF Ruled
    <3>3. QED
      BY <3>1, <3>2
  <2>4. ASSUME NEW x \in Roles \ {"ADMIN"}
        PROVE  ConstructorRoles(code'[d][b].in)[x] \subseteq code'[d][b].roles[x]
    <3>1. ConstructorRoles(code[d][b].in)[x] \subseteq code[d][b].roles[x]
      BY <2>1 DEF Ruled
    <3>2. CASE d = c /\ b = a /\ x = r
      <4>1. code'[d][b].roles[x] = S /\ code[d][b].roles[x] \subseteq S
        BY <3>2 DEF RoleSet
      <4>2. QED
        BY <2>1, <3>1, <4>1
    <3>3. CASE ~(d = c /\ b = a /\ x = r)
      <4>1. code'[d][b].roles[x] = code[d][b].roles[x]
        BY <3>3 DEF RoleSet
      <4>2. QED
        BY <2>1, <3>1, <4>1
    <3>4. QED
      BY <3>2, <3>3
  <2>5. QED
    BY <2>3, <2>4 DEF Ruled
<1>3. TimelocksRuled'
  BY <1>2 DEF TimelocksRuled, RoleSet
<1>4. QED
  BY <1>1, <1>3

\* A grant adds a holder to a role of the run's timelock.
LEMMA GrantedAt ==
    ASSUME IInv, pc = "grant", code' = Granted, Deployer \in roles["ADMIN"]
    PROVE  \E c \in Chains, r \in Roles, S \in SUBSET Accounts : \E a \in DOMAIN code[c] :
              /\ c = ch /\ a = existing["Timelock"] /\ r = RoleOrder[rix]
              /\ S = roles[r] \cup {Grantee}
              /\ RoleSet(c, a, r, S)
<1>1. /\ CodeType /\ ch \in Chains /\ existing["Timelock"] \in DOMAIN code[ch]
      /\ RoleOrder[rix] \in Roles /\ roles \in [Roles -> SUBSET Accounts] /\ Grantee \in Accounts
  BY CodeTypeOK, GrantStage, GranteeType DEF IInv, Accounts
<1>2. PICK c \in Chains, r \in Roles, S \in SUBSET Accounts, a \in DOMAIN code[ch] :
           c = ch /\ a = existing["Timelock"] /\ r = RoleOrder[rix] /\ S = roles[r] \cup {Grantee}
  BY <1>1
<1>3. a \in DOMAIN code[c]
  BY <1>2
<1>4. code' = [code EXCEPT ![c][a].roles[r] = S]
  BY <1>2 DEF Granted, roles
<1>5. RoleSet(c, a, r, S)
  BY <1>1, <1>3, <1>4, RoleAt
<1>6. WITNESS c \in Chains, r \in Roles, S \in SUBSET Accounts
<1>7. WITNESS a \in DOMAIN code[c]
<1>8. QED
  BY <1>2, <1>5

\* At most the run's own timelock becomes its own admin.
NoOtherRuler ==
    \A c \in Chains : \A a \in DOMAIN code[c] :
       a \in code'[c][a].roles["ADMIN"] =>
          a \in code[c][a].roles["ADMIN"] \/ (c = ch /\ a = existing["Timelock"])

\* A grant revokes nothing, and makes an admin only of the timelock itself.
LEMMA GrantedKeeps ==
    ASSUME IInv, TimelocksRuled, pc = "grant", code' \in {code, Granted}
    PROVE  /\ RolesKept /\ TimelocksRuled' /\ NoOtherRuler
           /\ (RoleOrder[rix] # "ADMIN" \/ existing["Timelock"] \in roles["ADMIN"]) => NoNewRuler
           /\ (code' = Granted /\ Deployer \in roles["ADMIN"]) =>
                 Grantee \in code'[ch][existing["Timelock"]].roles[RoleOrder[rix]]
<1>1. CASE ~(code' = Granted /\ Deployer \in roles["ADMIN"])
  <2>1. code' = code
    BY <1>1 DEF Granted
  <2>2. QED
    BY <1>1, <2>1, RolesSame DEF NoOtherRuler
<1>2. CASE code' = Granted /\ Deployer \in roles["ADMIN"]
  <2>1. PICK c \in Chains, r \in Roles, S \in SUBSET Accounts : \E a \in DOMAIN code[c] :
              /\ c = ch /\ a = existing["Timelock"] /\ r = RoleOrder[rix]
              /\ S = roles[r] \cup {Grantee}
              /\ RoleSet(c, a, r, S)
    BY <1>2, GrantedAt
  <2>2. PICK a \in DOMAIN code[c] :
              /\ c = ch /\ a = existing["Timelock"] /\ r = RoleOrder[rix]
              /\ S = roles[r] \cup {Grantee}
              /\ RoleSet(c, a, r, S)
    BY <2>1
  <2>3. roles = code[c][a].roles /\ code[c][a].roles[r] \subseteq S /\ Grantee \in S
    BY <2>2 DEF roles
  <2>4. RolesKept /\ TimelocksRuled'
    BY <2>2, <2>3, RoleGrows
  <2>5. code'[c][a].roles[r] = S
    BY <2>2 DEF RoleSet
  <2>6. ASSUME r # "ADMIN" \/ a \in roles["ADMIN"] PROVE NoNewRuler
    BY <2>2, <2>3, <2>6 DEF NoNewRuler, Roles, RoleSet
  <2>7. NoOtherRuler
    BY <2>2 DEF NoOtherRuler, Roles, RoleSet
  <2>8. QED
    BY <2>2, <2>3, <2>4, <2>5, <2>6, <2>7
<1>3. QED
  BY <1>1, <1>2

\* The deployer is revoked only where the timelock rules itself.
LEMMA RevokeKeeps ==
    ASSUME IInv, TimelocksRuled, NEW c \in Chains, NEW a \in Addr, RevokeDeployer(c, a)
    PROVE  RolesKept /\ NoNewRuler /\ TimelocksRuled'
<1>1. CodeType /\ a \in DOMAIN code[c] /\ a \in code[c][a].roles["ADMIN"] /\ a # Deployer
  BY CodeTypeOK, AddrIsNotDeployer DEF RevokeDeployer, IInv, Addr, Addr0
<1>2. PICK r \in Roles, S \in SUBSET Accounts : r = "ADMIN" /\ S = code[c][a].roles["ADMIN"] \ {Deployer}
  <2>1. code[c][a].roles \in [Roles -> SUBSET Accounts] /\ "ADMIN" \in Roles
    BY <1>1, ContractType DEF Contract, Roles
  <2>2. code[c][a].roles["ADMIN"] \ {Deployer} \in SUBSET Accounts
    BY <2>1
  <2>3. QED
    BY <2>1, <2>2
<1>3. code' = [code EXCEPT ![c][a].roles[r] = S]
  BY <1>2 DEF RevokeDeployer
<1>4. RoleSet(c, a, r, S)
  BY <1>1, <1>3, RoleAt
<1>5. code[c][a].roles[r] \ {Deployer} \subseteq S /\ r = "ADMIN" /\ a \in S
  BY <1>1, <1>2
<1>6. RolesKept /\ TimelocksRuled'
  BY <1>1, <1>4, <1>5, RoleGrows
<1>7. NoNewRuler
  BY <1>1, <1>2, <1>4 DEF NoNewRuler, RoleSet
<1>8. QED
  BY <1>6, <1>7

----------------------------------------------------------------------------
(* What a run has collected is wired *)

\* The wiring that the constructors bring, all but the executor and the admin.
ConstructedSet(c, A) ==
    LET tl == code[c][A["Timelock"]]
    IN  /\ code[c][A["CallProxy"]].in.args = <<A["Timelock"]>>
        /\ A["Proposer"] \in tl.roles["PROPOSER"]
        /\ {A["Proposer"], A["Canceller"], A["Bypasser"]} \subseteq tl.roles["CANCELLER"]
        /\ A["Bypasser"] \in tl.roles["BYPASSER"]

\* The report of a deploy operation of this run tells which contract it is.
LEMMA ReportedContract ==
    ASSUME IInv, NEW t \in Types, Reported(t)
    PROVE  /\ existing[t] \in DOMAIN code[ch]
           /\ code[ch][existing[t]].in = DeployIn(t)
<1>1. PICK r \in reports.deploy : r.k = DeployKey(t) /\ r.out = existing[t]
  BY DEF Reported
<1>2. DeployReportOK(r)
  BY DEF IInv, ReportsOK
<1>3. r.k.key = ch /\ r.k.in = DeployIn(t) /\ r.out = existing[t]
  BY <1>1 DEF DeployKey, chainIdempotencyKey
<1>4. QED
  BY <1>2, <1>3 DEF DeployReportOK

\* Once nothing is left to deploy, the constructors have wired the set but for the
\* call proxy's and the timelock's own role.
LEMMA CollectedWired ==
    ASSUME IInv, TimelocksRuled, RunWhole, pc \in {"admin", "role", "grant", "done"}
    PROVE  /\ ConstructedSet(ch, existing) /\ Ruled(ch, existing["Timelock"])
           /\ existing["Timelock"] \in DOMAIN code[ch] /\ existing["CallProxy"] \in DOMAIN code[ch]
<1>1. /\ InSequence /\ ch \in Chains /\ Missing(existing) = {} /\ Present(existing) = Types
      /\ \A t \in Types : Usable(ch, t, qualifier, existing[t])
  BY GrantStage, WholeSet DEF IInv, SequenceOK
<1>2. {"Timelock", "CallProxy"} \subseteq Types
  BY DEF Types
<1>3. /\ existing["Timelock"] \in DOMAIN code[ch] /\ existing["CallProxy"] \in DOMAIN code[ch]
      /\ code[ch][existing["Timelock"]].in.t = "Timelock"
  BY <1>1, <1>2 DEF Usable, Deployed
<1>4. Ruled(ch, existing["Timelock"])
  BY <1>1, <1>3 DEF TimelocksRuled
<1>5. ConstructedSet(ch, existing)
  <2>1. CASE Collected
    <3>1. Reported("Timelock") /\ Reported("CallProxy")
      BY <1>1, <1>2, <2>1 DEF Collected
    <3>2. /\ code[ch][existing["Timelock"]].in = DeployIn("Timelock")
          /\ code[ch][existing["CallProxy"]].in = DeployIn("CallProxy")
      BY <1>2, <3>1, ReportedContract
    <3>3. code[ch][existing["CallProxy"]].in.args = <<existing["Timelock"]>>
      BY <3>2 DEF DeployIn, ConstructorArgs, MCMTypes
    <3> DEFINE in == DeployIn("Timelock")
    <3>4. /\ in.t = "Timelock" /\ in.args[2] = existing["Proposer"]
          /\ in.args[3] = existing["Canceller"] /\ in.args[4] = existing["Bypasser"]
      BY DEF DeployIn, ConstructorArgs, MCMTypes
    <3> HIDE DEF in
    <3>5. /\ ConstructorRoles(in)["PROPOSER"] = {existing["Proposer"]}
          /\ ConstructorRoles(in)["CANCELLER"] =
                {existing["Canceller"], existing["Proposer"], existing["Bypasser"]}
          /\ ConstructorRoles(in)["BYPASSER"] = {existing["Bypasser"]}
      BY <3>4 DEF ConstructorRoles, Roles
    <3>6. \A r \in Roles \ {"ADMIN"} :
             ConstructorRoles(in)[r] \subseteq code[ch][existing["Timelock"]].roles[r]
      BY <1>4, <3>2 DEF Ruled, in
    <3>7. {"PROPOSER", "CANCELLER", "BYPASSER"} \subseteq Roles \ {"ADMIN"}
      BY DEF Roles
    <3>8. QED
      BY <3>3, <3>5, <3>6, <3>7 DEF ConstructedSet
  <2>2. CASE WiredSet(ch, existing)
    BY <2>2 DEF WiredSet, ConstructedSet
  <2>3. QED
    BY <1>1, <2>1, <2>2 DEF RunWhole
<1>6. QED
  BY <1>3, <1>4, <1>5

\* With the executor and the admin, the set is wired.
LEMMA GrantsWire ==
    ASSUME IInv, TimelocksRuled, RunWhole, pc \in {"admin", "role", "grant", "done"},
           existing["CallProxy"] \in roles["EXECUTOR"], existing["Timelock"] \in roles["ADMIN"]
    PROVE  WiredSet(ch, existing)
BY CollectedWired DEF ConstructedSet, WiredSet, roles

\* The run's timelock report names the call proxy of the run.
LEMMA ReportedProxy ==
    ASSUME IInv, Reported("Timelock"), Reported("CallProxy"), NEW r \in reports.deploy,
           r.k.key = ch, r.out = existing["Timelock"]
    PROVE  \A p \in reports.deploy : p.k = ProxyKey(r) => p.out = existing["CallProxy"]
<1>1. DeployReportOK(r)
  BY DEF IInv, ReportsOK
<1>2. r.k.in = DeployIn("Timelock")
  BY <1>1, ReportedContract DEF DeployReportOK, Types
<1>3. ProxyKey(r) = DeployKey("CallProxy")
  BY <1>2 DEF ProxyKey, DeployKey, DeployIn, ConstructorArgs, chainIdempotencyKey, MCMTypes
<1>4. PICK x \in reports.deploy : x.k = DeployKey("CallProxy") /\ x.out = existing["CallProxy"]
  BY DEF Reported
<1>5. \A p \in reports.deploy : p.k = DeployKey("CallProxy") => p = x
  BY <1>4 DEF IInv, DeployReportsOK
<1>6. QED
  BY <1>3, <1>4, <1>5

\* A timelock that rules itself when its set is complete is wired: so the run may
\* skip the grants when the deployer lost its admin role.
LEMMA SelfRuledWired ==
    ASSUME IInv, TimelocksRuled, RunWhole, ExecutorFirst, pc \in {"admin", "role", "grant", "done"},
           existing["Timelock"] \in roles["ADMIN"]
    PROVE  WiredSet(ch, existing)
<1>1. CASE Collected
  <2>1. InSequence /\ Present(existing) = Types
    BY GrantStage, WholeSet DEF IInv, SequenceOK
  <2>2. Reported("Timelock") /\ Reported("CallProxy")
    BY <1>1, <2>1 DEF Collected, Types
  <2>3. PICK r \in reports.deploy : r.k = DeployKey("Timelock") /\ r.out = existing["Timelock"]
    BY <2>2 DEF Reported
  <2>4. r.k.in.t = "Timelock" /\ r.k.key = ch /\ r.out = existing["Timelock"]
    BY <2>3 DEF DeployKey, DeployIn, chainIdempotencyKey
  <2>5. PICK p \in reports.deploy :
           p.k = ProxyKey(r) /\ p.out \in code[r.k.key][r.out].roles["EXECUTOR"]
    BY <2>4 DEF ExecutorFirst, roles
  <2>6. p.out = existing["CallProxy"]
    BY <2>2, <2>4, <2>5, ReportedProxy
  <2>7. QED
    BY <2>4, <2>5, <2>6, GrantsWire DEF roles
<1>2. CASE WiredSet(ch, existing)
  BY <1>2
<1>3. QED
  BY <1>1, <1>2, GrantStage DEF RunWhole

----------------------------------------------------------------------------
(* The steps of Apply between the chains *)

Wiring == RefsWhole /\ ReportsWhole /\ ExecutorFirst /\ GrantReportsOK /\ RunWhole /\ GrantsInOrder

\* Nothing is said of a run between its sequences.
LEMMA OutsideSequence ==
    ASSUME pc' \in {"idle", "chain"}, rix' = 1
    PROVE  RunWhole' /\ GrantsInOrder'
BY DEF RunWhole, InSequence, GrantsInOrder

\* What Apply does in memory leaves the chains and the reports wired.
LEMMA ReportsSame ==
    ASSUME IInv, TimelocksRuled, Wiring, UNCHANGED <<code, reports>>
    PROVE  /\ RolesKept /\ NoNewRuler /\ TimelocksRuled'
           /\ ReportsWhole' /\ ExecutorFirst' /\ GrantReportsOK'
<1>1. RolesKept /\ NoNewRuler /\ TimelocksRuled'
  BY RolesSame
<1>2. ReportsWhole'
  BY <1>1, ReportsWholeStable DEF IInv, Wiring
<1>3. ExecutorFirst'
  BY <1>1, ExecutorStable DEF Wiring
<1>4. GrantReportsOK'
  BY <1>1, GrantReportsStable DEF Wiring
<1>5. QED
  BY <1>1, <1>2, <1>3, <1>4

\* No refs are a set.
LEMMA NoRefsOK ==
    ASSUME NEW c \in Chains, NEW q \in Qualifiers, agg = NoRefs
    PROVE  SetOK(c, Aggregated(c, q))
<1>1. \A t \in Types : <<c, t, q>> \in Keys
  BY DEF Keys
<1>2. Present(Aggregated(c, q)) = {}
  BY <1>1 DEF Present, Aggregated, NoRefs
<1>3. QED
  BY <1>2 DEF SetOK

\* A set that is laid over the refs, whole or not at all.
LEMMA WriteWhole ==
    ASSUME IInv, RefsWhole, NEW c \in Chains, NEW q \in Qualifiers, NEW F, NEW A \in [Types -> Addr0],
           F = {} \/ (F = Types /\ SetOK(c, A)), agg' = WriteRefs(agg, c, q, F, A), UNCHANGED <<code, ds>>
    PROVE  RefsWhole'
<1>1. ASSUME NEW d \in Chains, NEW p \in Qualifiers
      PROVE  SetOK(d, Aggregated(d, p))'
  <2>1. \A t \in Types : <<d, t, p>> \in Keys
    BY DEF Keys
  <2>2. \A t \in Types :
           agg'[<<d, t, p>>] = IF d = c /\ p = q /\ t \in F THEN A[t] ELSE agg[<<d, t, p>>]
    BY <2>1 DEF WriteRefs
  <2>3. CASE d = c /\ p = q /\ F = Types
    <3>1. Aggregated(d, p)' = A
      BY <2>2, <2>3 DEF Aggregated
    <3>2. SetOK(c, A)
      BY <2>3 DEF Types
    <3>3. QED
      BY <2>3, <3>1, <3>2 DEF SetOK, Present, WiredSet
  <2>4. CASE ~(d = c /\ p = q /\ F = Types)
    <3>1. Aggregated(d, p)' = Aggregated(d, p)
      BY <2>2, <2>4 DEF Aggregated
    <3>2. SetOK(d, Aggregated(d, p))
      BY DEF RefsWhole
    <3>3. QED
      BY <3>1, <3>2 DEF SetOK, Present, WiredSet
  <2>5. QED
    BY <2>3, <2>4
<1>2. ASSUME NEW d \in Chains, NEW p \in Qualifiers
      PROVE  SetOK(d, loadDeployedAddresses(d, p))'
  <2>1. loadDeployedAddresses(d, p)' = loadDeployedAddresses(d, p)
    BY DEF loadDeployedAddresses
  <2>2. SetOK(d, loadDeployedAddresses(d, p))
    BY DEF RefsWhole
  <2>3. QED
    BY <2>1, <2>2 DEF SetOK, Present, WiredSet
<1>3. QED
  BY <1>1, <1>2 DEF RefsWhole

\* Apply returns: what it aggregated is gone.
LEMMA ReturnWires ==
    ASSUME IInv, RolesKept, RefsWhole, Return, UNCHANGED ds
    PROVE  RefsWhole' /\ RunWhole' /\ GrantsInOrder'
<1>1. ASSUME NEW c \in Chains, NEW q \in Qualifiers
      PROVE  SetOK(c, loadDeployedAddresses(c, q))'
  <2>1. PICK A : A = loadDeployedAddresses(c, q)
    OBVIOUS
  <2>2. A \in [Types -> Addr0] /\ SetOK(c, A)
    BY <2>1, AddressesType DEF IInv, RefsWhole
  <2>3. SetOK(c, A)'
    BY <2>2, SetStable
  <2>4. loadDeployedAddresses(c, q)' = A
    BY <2>1 DEF loadDeployedAddresses
  <2>5. QED
    BY <2>3, <2>4 DEF SetOK, Present, WiredSet
<1>2. ASSUME NEW c \in Chains, NEW q \in Qualifiers
      PROVE  SetOK(c, Aggregated(c, q))'
  BY NoRefsOK DEF Return, NoRefs, SetOK, Present, Aggregated, Keys
<1>3. RunWhole' /\ GrantsInOrder'
  BY OutsideSequence DEF Return
<1>4. QED
  BY <1>1, <1>2, <1>3 DEF RefsWhole

\* A run starts with nothing aggregated (Apply).
LEMMA StartWires ==
    ASSUME IInv, TimelocksRuled, Wiring, NEW i \in Inputs, Start(i)
    PROVE  TimelocksRuled' /\ Wiring'
<1>1. UNCHANGED <<code, ds, reports, agg>>
  BY DEF Start
<1>2. TimelocksRuled' /\ RolesKept /\ ReportsWhole' /\ ExecutorFirst' /\ GrantReportsOK'
  BY <1>1, ReportsSame
<1>3. RefsWhole'
  BY <1>1, <1>2, RefsWholeStable DEF IInv, Wiring
<1>4. rix' = 1 /\ pc' = "chain"
  BY DEF Start, grantVars, Wiring, GrantsInOrder
<1>5. RunWhole' /\ GrantsInOrder'
  BY <1>4, OutsideSequence
<1>6. QED
  BY <1>2, <1>3, <1>5 DEF Wiring

\* A run that fails writes no ref and revokes no role.
LEMMA FailWires ==
    ASSUME IInv, TimelocksRuled, Wiring, Fail
    PROVE  TimelocksRuled' /\ Wiring'
<1>1. UNCHANGED <<code, ds, reports>> /\ Return
  BY DEF Fail, Abort
<1>2. TimelocksRuled' /\ RolesKept /\ ReportsWhole' /\ ExecutorFirst' /\ GrantReportsOK'
  BY <1>1, ReportsSame
<1>3. RefsWhole' /\ RunWhole' /\ GrantsInOrder'
  BY <1>1, <1>2, ReturnWires DEF Wiring
<1>4. QED
  BY <1>2, <1>3 DEF Wiring

\* What Apply merges into the datastore is whole sets.
LEMMA FinishWires ==
    ASSUME IInv, TimelocksRuled, Wiring, Finish
    PROVE  TimelocksRuled' /\ Wiring'
<1>1. UNCHANGED <<code, reports>> /\ Return
  BY DEF Finish
<1>2. TimelocksRuled' /\ RolesKept /\ ReportsWhole' /\ ExecutorFirst' /\ GrantReportsOK'
  BY <1>1, ReportsSame
<1>3. ASSUME NEW c \in Chains, NEW q \in Qualifiers
      PROVE  SetOK(c, loadDeployedAddresses(c, q))'
  <2>1. \A t \in Types : <<c, t, q>> \in Keys
    BY DEF Keys
  <2>2. \A t \in Types : ds'[<<c, t, q>>] =
           IF agg[<<c, t, q>>] # ZeroAddr THEN agg[<<c, t, q>>] ELSE ds[<<c, t, q>>]
    BY <2>1 DEF Finish
  <2>3. SetOK(c, loadDeployedAddresses(c, q)) /\ SetOK(c, Aggregated(c, q))
    BY DEF Wiring, RefsWhole
  <2>4. CASE Present(Aggregated(c, q)) = {}
    <3>1. \A t \in Types : agg[<<c, t, q>>] = ZeroAddr
      BY <2>4 DEF Present, Aggregated
    <3>2. loadDeployedAddresses(c, q)' = loadDeployedAddresses(c, q)
      BY <2>2, <3>1 DEF loadDeployedAddresses
    <3>3. QED
      BY <1>1, <2>3, <3>2 DEF SetOK, Present, WiredSet
  <2>5. CASE Present(Aggregated(c, q)) # {}
    <3>1. \A t \in Types : agg[<<c, t, q>>] # ZeroAddr
      BY <2>3, <2>5 DEF SetOK, Present, Aggregated
    <3>2. loadDeployedAddresses(c, q)' = Aggregated(c, q)
      BY <2>2, <3>1 DEF loadDeployedAddresses, Aggregated
    <3>3. QED
      BY <1>1, <2>3, <3>2 DEF SetOK, Present, WiredSet
  <2>6. QED
    BY <2>4, <2>5
<1>4. ASSUME NEW c \in Chains, NEW q \in Qualifiers
      PROVE  SetOK(c, Aggregated(c, q))'
  BY <1>1, NoRefsOK DEF Return, NoRefs, SetOK, Present, Aggregated, Keys
<1>5. RunWhole' /\ GrantsInOrder'
  BY <1>1, OutsideSequence DEF Return
<1>6. QED
  BY <1>2, <1>3, <1>4, <1>5 DEF Wiring, RefsWhole

\* The output of a chain's report is a whole set, or empty.
LEMMA ReuseChainWires ==
    ASSUME IInv, TimelocksRuled, Wiring, ReuseChain
    PROVE  TimelocksRuled' /\ Wiring'
<1>1. /\ UNCHANGED <<code, ds, reports, rix>> /\ pc' = "chain" /\ rix = 1
  BY DEF ReuseChain, grantVars, Wiring, GrantsInOrder
<1>2. TimelocksRuled' /\ RolesKept /\ ReportsWhole' /\ ExecutorFirst' /\ GrantReportsOK'
  BY <1>1, ReportsSame
<1>3. /\ NextSelector \in Chains /\ NextSelector \in DOMAIN req /\ req[NextSelector].q \in Qualifiers
  <2>1. todo \subseteq DOMAIN req /\ DOMAIN req \subseteq Chains /\ todo # {}
    BY InputType DEF IInv, TypeOK, ReuseChain
  <2>2. NextSelector \in todo
    BY <2>1, SelectorType
  <2>3. QED
    BY <2>1, <2>2, InputType DEF IInv, TypeOK, ChainConfig
<1>4. PICK r \in reports.chain :
         r.k = ChainKey(NextSelector) /\ OutputOf(reports.chain, ChainKey(NextSelector)) = r.out
  BY ReusedReport DEF ReuseChain
<1>5. PICK c, q, A, F : /\ c = NextSelector /\ q = req[NextSelector].q /\ A = r.out
                        /\ F = {t \in Types : A[t] # ZeroAddr}
  OBVIOUS
<1>6. c \in Chains /\ q \in Qualifiers
  BY <1>3, <1>5
<1>7. A \in [Types -> Addr0] /\ SetOK(c, A)
  BY <1>4, <1>5 DEF Wiring, ReportsWhole, IInv, ReportsOK, ChainReportOK, ChainKey
<1>8. F = {} \/ (F = Types /\ SetOK(c, A))
  BY <1>5, <1>7 DEF SetOK, Present
<1>9. agg' = WriteRefs(agg, c, q, F, A)
  BY <1>4, <1>5 DEF ReuseChain
<1>10. RefsWhole'
  BY <1>1, <1>6, <1>7, <1>8, <1>9, WriteWhole DEF Wiring
<1>11. RunWhole' /\ GrantsInOrder'
  BY <1>1, OutsideSequence
<1>12. QED
  BY <1>2, <1>10, <1>11 DEF Wiring

\* A run starts from a whole recorded set, or from none.
LEMMA StartChainWires ==
    ASSUME IInv, TimelocksRuled, Wiring, StartChain
    PROVE  TimelocksRuled' /\ Wiring'
<1>1. UNCHANGED <<code, ds, reports, agg, req>>
  BY DEF StartChain
<1>2. TimelocksRuled' /\ RolesKept /\ ReportsWhole' /\ ExecutorFirst' /\ GrantReportsOK'
  BY <1>1, ReportsSame
<1>3. RefsWhole'
  BY <1>1, <1>2, RefsWholeStable DEF IInv, Wiring
<1>4. PICK c, q, A : c = NextSelector /\ q = req[NextSelector].q /\ A = loadDeployedAddresses(c, q)
  OBVIOUS
<1>5. c \in Chains /\ q \in Qualifiers
  <2>1. todo \subseteq DOMAIN req /\ DOMAIN req \subseteq Chains /\ todo # {}
    BY InputType DEF IInv, TypeOK, StartChain
  <2>2. NextSelector \in todo
    BY <2>1, SelectorType
  <2>3. QED
    BY <1>4, <2>1, <2>2, InputType DEF IInv, TypeOK, ChainConfig
<1>6. SetOK(c, A)
  BY <1>4, <1>5 DEF Wiring, RefsWhole
<1>7. ch' = c /\ existing' = A /\ fresh' = {}
  BY <1>4 DEF StartChain
<1>8. RunWhole'
  <2>1. CASE Present(A) = {}
    <3>1. Collected'
      BY <1>7, <2>1 DEF Collected, Present
    <3>2. QED
      BY <3>1 DEF RunWhole
  <2>2. CASE Present(A) # {}
    <3>1. Present(A) = Types /\ WiredSet(c, A)
      BY <1>6, <2>2 DEF SetOK
    <3>2. Missing(A) = {}
      BY <3>1, WholeSet
    <3>3. WiredSet(ch, existing)'
      BY <1>1, <1>7, <3>1 DEF WiredSet
    <3>4. QED
      BY <1>7, <3>2, <3>3 DEF RunWhole, Missing
  <2>3. QED
    BY <2>1, <2>2
<1>9. pc' \in {"admin", "deploy"} /\ rix' = 1
  BY StageType DEF StartChain, grantVars, Wiring, GrantsInOrder
<1>10. GrantsInOrder'
  BY <1>9 DEF GrantsInOrder
<1>11. QED
  BY <1>2, <1>3, <1>8, <1>10 DEF Wiring

\* A finished sequence hands on a whole wired set, or nothing new.
LEMMA ChainDoneWires ==
    ASSUME IInv, TimelocksRuled, Wiring, ChainDone
    PROVE  TimelocksRuled' /\ Wiring'
<1>1. /\ UNCHANGED <<code, ds, reports.deploy, reports.grant, reports.grantSeq>>
      /\ pc = "done" /\ pc' = "chain" /\ rix' = 1
  BY DEF ChainDone, AddReport, IInv, TypeOK
<1>2. RolesKept /\ NoNewRuler /\ TimelocksRuled'
  BY <1>1, RolesSame
<1>3. ExecutorFirst' /\ GrantReportsOK'
  BY <1>1, <1>2, ExecutorStable, GrantReportsStable DEF Wiring
<1>4. PICK c, q, F, A : c = ch /\ q = qualifier /\ F = fresh /\ A = existing
  OBVIOUS
<1>5. c \in Chains /\ q \in Qualifiers /\ A \in [Types -> Addr0]
  <2>1. InSequence /\ c \in Chains /\ A \in [Types -> Addr0] /\ ch \in DOMAIN req /\ req \in Inputs
    BY <1>1, <1>4 DEF IInv, TypeOK, InSequence
  <2>2. QED
    BY <1>4, <2>1, InputType DEF qualifier, cc, ChainConfig
<1>6. Present(A) = Types /\ SetOK(c, A)
  <2>1. Missing(existing) = {} /\ WiredSet(ch, existing)
    BY <1>1 DEF IInv, SequenceOK, Wiring, GrantsInOrder
  <2>2. existing["Timelock"] \in DOMAIN code[ch] /\ existing["CallProxy"] \in DOMAIN code[ch]
    BY <1>1, CollectedWired DEF Wiring
  <2>3. QED
    BY <1>4, <2>1, <2>2, WholeSet DEF SetOK
<1>7. F = {} \/ F = Types
  BY <1>1, <1>4, <1>6 DEF Wiring, RunWhole, InSequence, Collected
<1>8. RefsWhole'
  <2>1. agg' = WriteRefs(agg, c, q, F, A)
    BY <1>4 DEF ChainDone
  <2>2. F = {} \/ (F = Types /\ SetOK(c, A))
    BY <1>6, <1>7
  <2>3. QED
    BY <1>1, <1>5, <2>1, <2>2, WriteWhole DEF Wiring
<1>9. ReportsWhole'
  <2>1. PICK out : out = [t \in Types |-> IF t \in F THEN A[t] ELSE ZeroAddr]
    OBVIOUS
  <2>2. SetOK(c, out)
    <3>1. CASE F = {}
      BY <2>1, <3>1 DEF SetOK, Present
    <3>2. CASE F = Types
      <4>1. out = A
        BY <1>5, <2>1, <3>2
      <4>2. QED
        BY <1>6, <4>1
    <3>3. QED
      BY <1>7, <3>1, <3>2
  <2>3. reports'.chain = reports.chain \cup {[k |-> ChainKey(ch), out |-> out]}
    BY <1>4, <2>1 DEF ChainDone, AddReport, IInv, TypeOK
  <2>4. \A r \in reports'.chain : SetOK(r.k.ch, r.out)
    BY <1>4, <2>2, <2>3 DEF Wiring, ReportsWhole, ChainKey
  <2>5. QED
    BY <1>1, <2>4 DEF ReportsWhole, SetOK, WiredSet, Present
<1>10. RunWhole' /\ GrantsInOrder'
  BY <1>1, OutsideSequence
<1>11. QED
  BY <1>2, <1>3, <1>8, <1>9, <1>10 DEF Wiring

----------------------------------------------------------------------------
(* The deploy steps *)

\* The constructor arguments exist before the contract: the deploy order.
LEMMA OrderedCurrent ==
    ASSUME existing \in [Types -> Addr0], Missing(existing) # {}
    PROVE  /\ Current = "Timelock" => MCMTypes \subseteq Present(existing)
           /\ Current = "CallProxy" => MCMTypes \cup {"Timelock"} \subseteq Present(existing)
<1>1. /\ DeployOrder[1] = "Bypasser" /\ DeployOrder[2] = "Canceller" /\ DeployOrder[3] = "Proposer"
      /\ DeployOrder[4] = "Timelock" /\ DeployOrder[5] = "CallProxy"
  BY DEF DeployOrder
<1>2. Missing(existing) \subseteq Nat
  BY DEF Missing
<1>3. PICK n \in Missing(existing) : \A j \in Missing(existing) : n <= j
  BY <1>2, LeastNat
<1> DEFINE i == CHOOSE i \in Missing(existing) : \A j \in Missing(existing) : i <= j
<1>4. i \in Missing(existing) /\ \A j \in Missing(existing) : i <= j
  BY <1>3
<1>5. Current = DeployOrder[i]
  BY DEF Current
<1> HIDE DEF i
<1>6. i \in 1..5 /\ \A j \in 1..5 : j < i => existing[DeployOrder[j]] # ZeroAddr
  BY <1>4 DEF Missing
<1>7. /\ Current = "Timelock" => i = 4
      /\ Current = "CallProxy" => i = 5
  BY <1>1, <1>5, <1>6
<1>8. i >= 4 => MCMTypes \subseteq Present(existing)
  BY <1>1, <1>6 DEF Present, MCMTypes, Types
<1>9. i >= 5 => "Timelock" \in Present(existing)
  BY <1>1, <1>6 DEF Present, Types
<1>10. QED
  BY <1>6, <1>7, <1>8, <1>9

\* A contract that joins the collection comes with its deploy report.
LEMMA ObtainedWires ==
    ASSUME IInv, RunWhole, GrantsInOrder, pc \in {"deploy", "config"}, NEW t, t = Current,
           NEW a, a # ZeroAddr, Obtained(t, a), UNCHANGED <<ch, req, rix>>,
           reports.deploy \subseteq reports'.deploy,
           t \notin MCMTypes => \E r \in reports'.deploy : r.k = DeployKey(t) /\ r.out = a
    PROVE  RunWhole' /\ GrantsInOrder'
<1>1. existing \in [Types -> Addr0] /\ Missing(existing) # {} /\ InSequence
  BY DEF IInv, TypeOK, InSequence
<1>2. t \in Types /\ existing[t] = ZeroAddr
  BY <1>1, CurrentType
<1>3. Collected
  BY <1>1 DEF RunWhole
<1>4. /\ t = "Timelock" => MCMTypes \subseteq fresh
      /\ t = "CallProxy" => MCMTypes \cup {"Timelock"} \subseteq fresh
  BY <1>1, <1>3, OrderedCurrent DEF Collected
<1>5. /\ existing'[t] = a /\ \A x \in Types \ {t} : existing'[x] = existing[x]
      /\ fresh' = fresh \cup {t}
  BY <1>1, <1>2 DEF Obtained
<1>6. fresh' = Present(existing')
  BY <1>2, <1>3, <1>5 DEF Collected, Present
<1>7. t \notin fresh
  BY <1>2, <1>3 DEF Collected, Present
<1>8. "Timelock" \in fresh' => DeployKey("Timelock")' = DeployKey("Timelock")
  <2>1. "Timelock" \in fresh' => t \notin MCMTypes
    BY <1>3, <1>5, <1>7 DEF Collected, MCMTypes
  <2>2. t \notin MCMTypes => \A x \in MCMTypes : existing'[x] = existing[x]
    BY <1>5 DEF Types
  <2>3. (\A x \in MCMTypes : existing'[x] = existing[x]) => DeployKey("Timelock")' = DeployKey("Timelock")
    BY DEF DeployKey, DeployIn, ConstructorArgs, qualifier, cc, MCMTypes
  <2>4. QED
    BY <2>1, <2>2, <2>3
<1>9. "Timelock" \in fresh' => MCMTypes \subseteq fresh' /\ Reported("Timelock")'
  <2>1. CASE t = "Timelock"
    <3>1. MCMTypes \subseteq fresh'
      BY <1>4, <1>5, <2>1
    <3>2. DeployKey("Timelock")' = DeployKey("Timelock")
      BY <1>5, <1>8, <2>1
    <3>3. \E r \in reports'.deploy : r.k = DeployKey("Timelock") /\ r.out = a
      BY <2>1 DEF MCMTypes
    <3>4. QED
      BY <1>5, <2>1, <3>1, <3>2, <3>3 DEF Reported
  <2>2. CASE t # "Timelock" /\ "Timelock" \in fresh
    <3>1. MCMTypes \subseteq fresh' /\ Reported("Timelock")
      BY <1>3, <1>5, <2>2 DEF Collected
    <3>2. existing'["Timelock"] = existing["Timelock"] /\ DeployKey("Timelock")' = DeployKey("Timelock")
      BY <1>5, <1>8, <2>2 DEF Types
    <3>3. QED
      BY <3>1, <3>2 DEF Reported
  <2>3. QED
    BY <1>5, <2>1, <2>2
<1>10. "CallProxy" \in fresh' => "Timelock" \in fresh' /\ Reported("CallProxy")'
  <2>1. ASSUME "CallProxy" \in fresh' PROVE t = "CallProxy"
    <3>1. CASE "CallProxy" \in fresh
      <4>1. Types \subseteq fresh
        BY <1>3, <3>1 DEF Collected, Types
      <4>2. QED
        BY <1>2, <1>7, <4>1
    <3>2. QED
      BY <1>5, <2>1, <3>1
  <2>2. ASSUME t = "CallProxy" PROVE "Timelock" \in fresh' /\ Reported("CallProxy")'
    <3>1. "Timelock" \in fresh' /\ existing'["Timelock"] = existing["Timelock"]
      BY <1>4, <1>5, <2>2 DEF Types
    <3>2. DeployKey("CallProxy")' = DeployKey("CallProxy")
      BY <3>1 DEF DeployKey, DeployIn, ConstructorArgs, qualifier, cc, MCMTypes
    <3>3. \E r \in reports'.deploy : r.k = DeployKey("CallProxy") /\ r.out = a
      BY <2>2 DEF MCMTypes
    <3>4. QED
      BY <1>5, <2>2, <3>1, <3>2, <3>3 DEF Reported
  <2>3. QED
    BY <2>1, <2>2
<1>11. Collected'
  BY <1>6, <1>9, <1>10 DEF Collected, Present
<1>12. pc' \in {"admin", "deploy"} /\ rix' = 1
  BY StageType DEF Obtained, GrantsInOrder
<1>13. QED
  BY <1>11, <1>12 DEF RunWhole, GrantsInOrder

\* An MCM that is to be configured next has not joined the collection.
LEMMA AfterDeployWires ==
    ASSUME IInv, RunWhole, GrantsInOrder, RolesKept, pc = "deploy", NEW t, t = Current,
           NEW a, a # ZeroAddr, AfterDeploy(a), UNCHANGED <<ch, req, rix>>,
           reports.deploy \subseteq reports'.deploy,
           \E r \in reports'.deploy : r.k = DeployKey(t) /\ r.out = a
    PROVE  RunWhole' /\ GrantsInOrder'
<1>1. CASE t \in MCMTypes
  <2>1. UNCHANGED <<existing, fresh>> /\ pc' = "config"
    BY <1>1 DEF AfterDeploy
  <2>2. InSequence
    BY DEF InSequence
  <2>3. RunWhole'
    BY <2>1, <2>2, RunWholeStable
  <2>4. GrantsInOrder'
    BY <2>1 DEF GrantsInOrder
  <2>5. QED
    BY <2>3, <2>4
<1>2. CASE t \notin MCMTypes
  <2>1. Obtained(t, a)
    BY <1>2 DEF AfterDeploy
  <2>2. QED
    BY <2>1, ObtainedWires
<1>3. QED
  BY <1>1, <1>2

\* A contract of a chain has an address.
LEMMA ContractAddr ==
    ASSUME IInv, NEW c \in Chains, NEW a \in DOMAIN code[c]
    PROVE  a # ZeroAddr
BY CodeTypeOK, ContractType DEF IInv, Addr, ZeroAddr

\* The report of the MCM sequence adds no contract and no role.
LEMMA ReuseMCMSequenceWires ==
    ASSUME IInv, TimelocksRuled, Wiring, ReuseMCMSequence
    PROVE  TimelocksRuled' /\ Wiring'
<1>1. UNCHANGED <<code, ds, reports, agg, req, ch, rix>> /\ pc = "deploy"
  BY DEF ReuseMCMSequence, grantVars
<1>2. TimelocksRuled' /\ RolesKept /\ ReportsWhole' /\ ExecutorFirst' /\ GrantReportsOK'
  BY <1>1, ReportsSame
<1>3. RefsWhole'
  BY <1>1, <1>2, RefsWholeStable DEF IInv, Wiring
<1>4. PICK r \in reports.mcm :
         r.k = MCMKey(Current) /\ OutputOf(reports.mcm, MCMKey(Current)) = r.out
  BY ReusedReport DEF ReuseMCMSequence, MCMSequenceDone
<1>5. PICK t, a : t = Current /\ a = r.out
  OBVIOUS
<1>6. a # ZeroAddr
  BY <1>4, <1>5, ContractAddr DEF IInv, ReportsOK, MCMReportOK, Usable, Deployed
<1>7. Obtained(t, a) /\ t \in MCMTypes
  BY <1>4, <1>5 DEF ReuseMCMSequence, MCMSequenceDone
<1>8. RunWhole' /\ GrantsInOrder'
  BY <1>1, <1>5, <1>6, <1>7, ObtainedWires DEF Wiring
<1>9. QED
  BY <1>2, <1>3, <1>8 DEF Wiring

\* A deployment that is reused adds no contract and no role.
LEMMA ReuseDeployWires ==
    ASSUME IInv, TimelocksRuled, Wiring, ReuseDeploy
    PROVE  TimelocksRuled' /\ Wiring'
<1>1. UNCHANGED <<code, ds, reports, agg, req, ch, rix>> /\ pc = "deploy"
  BY DEF ReuseDeploy, grantVars
<1>2. TimelocksRuled' /\ RolesKept /\ ReportsWhole' /\ ExecutorFirst' /\ GrantReportsOK'
  BY <1>1, ReportsSame
<1>3. RefsWhole'
  BY <1>1, <1>2, RefsWholeStable DEF IInv, Wiring
<1>4. PICK r \in reports.deploy :
         r.k = DeployKey(Current) /\ OutputOf(reports.deploy, DeployKey(Current)) = r.out
  BY ReusedReport DEF ReuseDeploy
<1>5. PICK t, a : t = Current /\ a = r.out
  OBVIOUS
<1>6. a # ZeroAddr
  BY <1>5, ContractAddr DEF IInv, ReportsOK, DeployReportOK
<1>7. AfterDeploy(a)
  BY <1>4, <1>5 DEF ReuseDeploy
<1>8. \E x \in reports'.deploy : x.k = DeployKey(t) /\ x.out = a
  BY <1>1, <1>4, <1>5
<1>9. RunWhole' /\ GrantsInOrder'
  BY <1>1, <1>2, <1>5, <1>6, <1>7, <1>8, AfterDeployWires DEF Wiring
<1>10. QED
  BY <1>2, <1>3, <1>9 DEF Wiring

\* A new timelock is ruled by the deployer: it needs no executor yet.
LEMMA DeployWires ==
    ASSUME IInv, TimelocksRuled, Wiring, Deploy
    PROVE  TimelocksRuled' /\ Wiring'
<1>1. /\ CanDeploy /\ Create(DeployIn(Current)) /\ pc = "deploy"
      /\ UNCHANGED <<ds, agg, req, ch, rix>>
  BY DEF Deploy, CanDeploy, grantVars
<1>2. RolesKept /\ NoNewRuler /\ TimelocksRuled'
  BY <1>1, CreateKeeps
<1>3. PICK t, a, new : /\ t = Current /\ a = Len(code[ch]) + 1
                       /\ new = [k |-> DeployKey(t), out |-> a]
  OBVIOUS
<1>4. /\ UNCHANGED <<reports.chain, reports.grant, reports.grantSeq>>
      /\ reports'.deploy = reports.deploy \cup {new} /\ new.k = DeployKey(t) /\ new.out = a
  <2>1. reports' = [reports EXCEPT !.deploy = @ \cup {new}]
    BY <1>3 DEF Deploy, AddReport
  <2>2. QED
    BY <1>3, <2>1 DEF IInv, TypeOK
<1>5. a # ZeroAddr /\ a # Deployer /\ ch \in Chains
  BY <1>1, <1>3, CreateCurrent, AddrIsNotDeployer DEF Addr, Addr0, ZeroAddr
<1>6. RefsWhole' /\ ReportsWhole' /\ GrantReportsOK'
  BY <1>1, <1>2, <1>4, RefsWholeStable, ReportsWholeStable, GrantReportsStable DEF IInv, Wiring
<1>7. ExecutorFirst'
  <2>1. ASSUME new.k.in.t = "Timelock"
        PROVE  new.out \notin code'[new.k.key][new.out].roles["ADMIN"]
    <3>1. new.k.key = ch /\ new.k.in = DeployIn(Current) /\ new.out = a
      BY <1>3, <1>4 DEF DeployKey, chainIdempotencyKey
    <3>2. code'[ch][a] = NewContract(DeployIn(Current))
      <4>1. InSequence /\ Len(code[ch]) < MaxAddr /\ CodeType
        BY <1>1, CreateCurrent, CodeTypeOK DEF CanDeploy, IInv
      <4>2. NewContract(DeployIn(Current)) \in Contract
        BY <1>1, <4>1, CreateCurrent, DeployInType DEF IInv
      <4>3. QED
        BY <1>1, <1>3, <1>5, <4>1, <4>2, CreateGrows
    <3>3. code'[ch][a].roles["ADMIN"] = {Deployer}
      BY <2>1, <3>1, <3>2 DEF NewContract, ConstructorRoles, Roles
    <3>4. QED
      BY <1>5, <3>1, <3>3
  <2>2. \A r \in reports.deploy : r.k.key \in Chains /\ r.out \in DOMAIN code[r.k.key]
    BY DEF IInv, ReportsOK, DeployReportOK
  <2>3. \A r \in reports'.deploy :
           (r.k.in.t = "Timelock" /\ r.out \in code'[r.k.key][r.out].roles["ADMIN"]) =>
              r \in reports.deploy /\ r.out \in code[r.k.key][r.out].roles["ADMIN"]
    BY <1>2, <1>4, <2>1, <2>2 DEF NoNewRuler
  <2>4. QED
    BY <1>2, <1>4, <2>3, ExecutorKept DEF Wiring
<1>8. RunWhole' /\ GrantsInOrder'
  <2>1. AfterDeploy(a)
    BY <1>3 DEF Deploy
  <2>2. \E r \in reports'.deploy : r.k = DeployKey(t) /\ r.out = a
    BY <1>4
  <2>3. reports.deploy \subseteq reports'.deploy
    BY <1>4
  <2>4. QED
    BY <1>1, <1>2, <1>3, <1>5, <2>1, <2>2, <2>3, AfterDeployWires DEF Wiring
<1>9. QED
  BY <1>2, <1>6, <1>7, <1>8 DEF Wiring

\* A config of an MCM changes no role.
LEMMA SetConfigWires ==
    ASSUME IInv, TimelocksRuled, Wiring, SetConfig
    PROVE  TimelocksRuled' /\ Wiring'
<1>1. pc = "config" /\ UNCHANGED <<ds, agg, req, ch, rix>> /\ code' \in {code, Configured}
  BY DEF SetConfig, grantVars
<1>2. RolesKept /\ NoNewRuler /\ TimelocksRuled'
  BY <1>1, ConfiguredKeeps
<1>3. UNCHANGED <<reports.chain, reports.deploy, reports.grant, reports.grantSeq>>
  BY DEF SetConfig, IInv, TypeOK
<1>4. RefsWhole' /\ ReportsWhole' /\ GrantReportsOK' /\ ExecutorFirst'
  BY <1>1, <1>2, <1>3, RefsWholeStable, ReportsWholeStable, GrantReportsStable, ExecutorStable
     DEF IInv, Wiring
<1>5. PICK t, a : t = Current /\ a = target
  OBVIOUS
<1>6. t \in MCMTypes /\ a # ZeroAddr /\ Obtained(t, a)
  BY <1>1, <1>5 DEF IInv, TypeOK, SequenceOK, SetConfig
<1>7. RunWhole' /\ GrantsInOrder'
  BY <1>1, <1>3, <1>5, <1>6, ObtainedWires DEF Wiring
<1>8. QED
  BY <1>2, <1>4, <1>7 DEF Wiring

----------------------------------------------------------------------------
(* The grants *)

\* The role order: the executor comes fourth, the admin last.
LEMMA RoleAtIndex ==
    ASSUME NEW i \in 1..5
    PROVE  /\ RoleOrder[i] \in Roles
           /\ RoleOrder[i] = "EXECUTOR" <=> i = 4
           /\ RoleOrder[i] = "ADMIN" <=> i = 5
<1>1. /\ RoleOrder[1] = "PROPOSER" /\ RoleOrder[2] = "CANCELLER" /\ RoleOrder[3] = "BYPASSER"
      /\ RoleOrder[4] = "EXECUTOR" /\ RoleOrder[5] = "ADMIN"
  BY DEF RoleOrder
<1>2. i = 1 \/ i = 2 \/ i = 3 \/ i = 4 \/ i = 5
  OBVIOUS
<1>3. QED
  BY <1>1, <1>2 DEF Roles

\* What has been granted stays granted.
LEMMA GrantsStable ==
    ASSUME IInv, RolesKept, GrantsInOrder, UNCHANGED <<pc, ch, existing, grants, rix>>
    PROVE  GrantsInOrder'
<1>1. CASE pc \in {"role", "grant", "done"}
  <2>1. /\ ch \in Chains /\ existing \in [Types -> Addr0] /\ existing["Timelock"] \in DOMAIN code[ch]
        /\ existing["Timelock"] # Deployer /\ existing["CallProxy"] # Deployer
        /\ {"EXECUTOR", "ADMIN"} \subseteq Roles
    BY <1>1, GrantStage, AddrIsNotDeployer DEF IInv, TypeOK, Types, Roles
  <2>2. /\ existing["CallProxy"] \in roles["EXECUTOR"] => existing["CallProxy"] \in roles'["EXECUTOR"]
        /\ existing["Timelock"] \in roles["ADMIN"] => existing["Timelock"] \in roles'["ADMIN"]
    BY <2>1 DEF RolesKept, roles
  <2>3. \A r \in Roles \ {"ADMIN"} : roleGrants'[r] = roleGrants[r]
    BY DEF roleGrants
  <2>4. WiredSet(ch, existing) => WiredSet(ch, existing)'
    <3>1. PICK c, A : c = ch /\ A = existing
      OBVIOUS
    <3>2. existing["CallProxy"] \in DOMAIN code[ch]
      BY <1>1, GrantStage DEF IInv, SequenceOK, Usable, Deployed, Types
    <3>3. WiredSet(c, A) => WiredSet(c, A)'
      BY <2>1, <3>1, <3>2, WiredStable
    <3>4. QED
      BY <3>1, <3>3 DEF WiredSet
  <2>5. QED
    BY <2>2, <2>3, <2>4 DEF GrantsInOrder
<1>2. CASE pc \notin {"role", "grant", "done"}
  BY <1>2 DEF GrantsInOrder
<1>3. QED
  BY <1>1, <1>2

\* A lost result: the operation is retried, or Apply fails.
LEMMA RetryOrAbortWires ==
    ASSUME IInv, InSequence, RolesKept, TimelocksRuled', Wiring, ExecutorFirst', RetryOrAbort
    PROVE  TimelocksRuled' /\ Wiring'
<1>1. UNCHANGED <<ds, reports>>
  BY DEF RetryOrAbort
<1>2. ReportsWhole' /\ GrantReportsOK'
  BY <1>1, ReportsWholeStable, GrantReportsStable DEF IInv, Wiring
<1>3. CASE UNCHANGED <<pc, applyVars, fails>>
  <2>1. UNCHANGED <<pc, ds, agg, ch, req, existing, fresh, grants, rix>>
    BY <1>1, <1>3 DEF applyVars, grantVars
  <2>2. RefsWhole'
    BY <2>1, RefsWholeStable DEF IInv, Wiring
  <2>3. RunWhole'
    BY <1>1, <2>1, RunWholeStable DEF Wiring
  <2>4. GrantsInOrder'
    BY <2>1, GrantsStable DEF Wiring
  <2>5. QED
    BY <1>2, <2>2, <2>3, <2>4 DEF Wiring
<1>4. CASE Abort
  <2>1. RefsWhole' /\ RunWhole' /\ GrantsInOrder'
    BY <1>1, <1>4, ReturnWires DEF Abort, Wiring
  <2>2. QED
    BY <1>2, <2>1 DEF Wiring
<1>5. QED
  BY <1>3, <1>4 DEF RetryOrAbort

\* A deployment whose result is lost leaves a contract with no refs to it.
LEMMA LoseDeployWires ==
    ASSUME IInv, TimelocksRuled, Wiring, LoseDeploy
    PROVE  TimelocksRuled' /\ Wiring'
<1>1. CanDeploy /\ Create(DeployIn(Current)) /\ RetryOrAbort /\ InSequence
  BY DEF LoseDeploy, CanDeploy, InSequence
<1>2. RolesKept /\ NoNewRuler /\ TimelocksRuled'
  BY <1>1, CreateKeeps
<1>3. ExecutorFirst'
  BY <1>1, <1>2, ExecutorStable DEF RetryOrAbort, Wiring
<1>4. QED
  BY <1>1, <1>2, <1>3, RetryOrAbortWires

\* A config whose result is lost changes no role.
LEMMA LoseSetConfigWires ==
    ASSUME IInv, TimelocksRuled, Wiring, LoseSetConfig
    PROVE  TimelocksRuled' /\ Wiring'
<1>1. pc = "config" /\ code' = Configured /\ RetryOrAbort /\ InSequence
  BY DEF LoseSetConfig, InSequence
<1>2. RolesKept /\ NoNewRuler /\ TimelocksRuled'
  BY <1>1, ConfiguredKeeps
<1>3. ExecutorFirst'
  BY <1>1, <1>2, ExecutorStable DEF RetryOrAbort, Wiring
<1>4. QED
  BY <1>1, <1>2, <1>3, RetryOrAbortWires

\* The deployer is revoked, the wiring stays.
LEMMA RevokeDeployerWires ==
    ASSUME IInv, TimelocksRuled, Wiring, NEW c \in Chains, NEW a \in Addr, RevokeDeployer(c, a)
    PROVE  TimelocksRuled' /\ Wiring'
<1>1. UNCHANGED <<pc, ds, reports, agg, ch, req, existing, fresh, grants, rix>>
  BY DEF RevokeDeployer, applyVars, grantVars
<1>2. RolesKept /\ NoNewRuler /\ TimelocksRuled'
  BY RevokeKeeps
<1>3. RefsWhole' /\ ReportsWhole' /\ GrantReportsOK' /\ ExecutorFirst'
  BY <1>1, <1>2, RefsWholeStable, ReportsWholeStable, GrantReportsStable, ExecutorStable
     DEF IInv, Wiring
<1>4. RunWhole'
  <2>1. CASE InSequence
    BY <1>1, <1>2, <2>1, RunWholeStable DEF Wiring
  <2>2. CASE ~InSequence
    BY <1>1, <2>2 DEF RunWhole, InSequence
  <2>3. QED
    BY <2>1, <2>2
<1>5. GrantsInOrder'
  BY <1>1, <1>2, GrantsStable DEF Wiring
<1>6. QED
  BY <1>2, <1>3, <1>4, <1>5 DEF Wiring

\* A wired set holds all the roles the run would grant.
LEMMA WiredGrants ==
    ASSUME IInv, pc \in {"role", "grant"}, GrantsInOrder, WiredSet(ch, existing)
    PROVE  \A r \in Roles : \A i \in DOMAIN grants[r] : grants[r][i] \in roles[r]
<1>1. /\ grants["PROPOSER"] = <<existing["Proposer"]>>
      /\ grants["CANCELLER"] = <<existing["Proposer"], existing["Canceller"], existing["Bypasser"]>>
      /\ grants["BYPASSER"] = <<existing["Bypasser"]>>
      /\ grants["EXECUTOR"] = <<existing["CallProxy"]>>
      /\ grants["ADMIN"] \in {<<>>, <<existing["Timelock"]>>}
  BY DEF GrantsInOrder, roleGrants, Roles
<1>2. /\ existing["Proposer"] \in roles["PROPOSER"]
      /\ {existing["Proposer"], existing["Canceller"], existing["Bypasser"]} \subseteq roles["CANCELLER"]
      /\ existing["Bypasser"] \in roles["BYPASSER"]
      /\ existing["CallProxy"] \in roles["EXECUTOR"]
      /\ existing["Timelock"] \in roles["ADMIN"]
  BY DEF WiredSet, roles
<1>3. ASSUME NEW i \in DOMAIN grants["CANCELLER"]
      PROVE  grants["CANCELLER"][i] \in roles["CANCELLER"]
  <2>1. i \in 1..3
    BY <1>1
  <2>2. i = 1 \/ i = 2 \/ i = 3
    BY <2>1
  <2>3. QED
    BY <1>1, <1>2, <2>2
<1>4. \A i \in DOMAIN grants["PROPOSER"] : grants["PROPOSER"][i] \in roles["PROPOSER"]
  BY <1>1, <1>2
<1>5. \A i \in DOMAIN grants["BYPASSER"] : grants["BYPASSER"][i] \in roles["BYPASSER"]
  BY <1>1, <1>2
<1>6. \A i \in DOMAIN grants["EXECUTOR"] : grants["EXECUTOR"][i] \in roles["EXECUTOR"]
  BY <1>1, <1>2
<1>7. \A i \in DOMAIN grants["ADMIN"] : grants["ADMIN"][i] \in roles["ADMIN"]
  BY <1>1, <1>2
<1>8. QED
  BY <1>3, <1>4, <1>5, <1>6, <1>7 DEF Roles

\* Without the admin role the grants are skipped: then the timelock rules itself.
LEMMA CheckAdminWires ==
    ASSUME IInv, TimelocksRuled, Wiring, CheckAdmin
    PROVE  TimelocksRuled' /\ Wiring'
<1>1. UNCHANGED <<code, ds, reports, agg, req, ch, existing, fresh, rix>> /\ pc = "admin"
  BY DEF CheckAdmin
<1>2. TimelocksRuled' /\ RolesKept /\ ReportsWhole' /\ ExecutorFirst' /\ GrantReportsOK'
  BY <1>1, ReportsSame
<1>3. RefsWhole' /\ RunWhole'
  BY <1>1, <1>2, GrantStage, RefsWholeStable, RunWholeStable DEF IInv, Wiring
<1>4. roleGrants["EXECUTOR"] = <<existing["CallProxy"]>>
  BY DEF roleGrants, Roles
<1>5. \/ roleGrants["ADMIN"] = <<existing["Timelock"]>>
      \/ roleGrants["ADMIN"] = <<>> /\ existing["Timelock"] \in roles["ADMIN"]
  BY DEF roleGrants, Roles
<1>6. ASSUME \/ Deployer \notin roles["ADMIN"]
             \/ Reusable(reports.grantSeq, GrantSeqKey(roleGrants))
      PROVE  WiredSet(ch, existing)
  <2>1. CASE Deployer \notin roles["ADMIN"]
    <3>1. existing["Timelock"] \in roles["ADMIN"]
      BY <1>1, <2>1, CollectedWired DEF Wiring, Ruled, roles
    <3>2. QED
      BY <1>1, <3>1, SelfRuledWired DEF Wiring
  <2>2. CASE Reusable(reports.grantSeq, GrantSeqKey(roleGrants))
    <3>1. PICK r \in reports.grantSeq : r.k = GrantSeqKey(roleGrants)
      BY <2>2 DEF Reusable
    <3>2. r.k.key = ch /\ r.k.tl = existing["Timelock"] /\ r.k.g = roleGrants
      BY <3>1 DEF GrantSeqKey, chainSequenceIdempotencyKey
    <3>3. \A role \in Roles : \A i \in DOMAIN roleGrants[role] :
             Holds(ch, existing["Timelock"], role, roleGrants[role][i])
      BY <3>2 DEF Wiring, GrantReportsOK
    <3>4. existing["CallProxy"] \in roles["EXECUTOR"]
      <4>1. 1 \in DOMAIN roleGrants["EXECUTOR"] /\ roleGrants["EXECUTOR"][1] = existing["CallProxy"]
        BY <1>4
      <4>2. Holds(ch, existing["Timelock"], "EXECUTOR", existing["CallProxy"])
        BY <3>3, <4>1 DEF Roles
      <4>3. QED
        BY <4>2 DEF Holds, roles
    <3>5. existing["Timelock"] \in roles["ADMIN"]
      <4>1. CASE roleGrants["ADMIN"] = <<existing["Timelock"]>>
        <5>1. 1 \in DOMAIN roleGrants["ADMIN"] /\ roleGrants["ADMIN"][1] = existing["Timelock"]
          BY <4>1
        <5>2. Holds(ch, existing["Timelock"], "ADMIN", existing["Timelock"])
          BY <3>3, <5>1 DEF Roles
        <5>3. QED
          BY <5>2 DEF Holds, roles
      <4>2. QED
        BY <1>5, <4>1
    <3>6. QED
      BY <1>1, <3>4, <3>5, GrantsWire DEF Wiring
  <2>3. QED
    BY <1>6, <2>1, <2>2
<1>7. GrantsInOrder'
  <2>1. rix' = 1 /\ grants' = roleGrants
    BY <1>1 DEF Wiring, GrantsInOrder, CheckAdmin
  <2>2. roleGrants' = roleGrants /\ roles' = roles
    BY <1>1 DEF roleGrants, roles
  <2>3. pc' = "done" => WiredSet(ch, existing)'
    BY <1>1, <1>6 DEF CheckAdmin, WiredSet
  <2>4. pc' \in {"role", "done"}
    BY DEF CheckAdmin
  <2>5. QED
    BY <1>1, <1>5, <2>1, <2>2, <2>3, <2>4 DEF GrantsInOrder
<1>8. QED
  BY <1>2, <1>3, <1>7 DEF Wiring

\* A role without anything left to grant has what its list names.
LEMMA InspectRoleWires ==
    ASSUME IInv, TimelocksRuled, Wiring, InspectRole
    PROVE  TimelocksRuled' /\ Wiring'
<1>1. UNCHANGED <<code, ds, reports, agg, req, ch, existing, fresh, grants>> /\ pc = "role"
  BY DEF InspectRole
<1>2. TimelocksRuled' /\ RolesKept /\ ReportsWhole' /\ ExecutorFirst' /\ GrantReportsOK'
  BY <1>1, ReportsSame
<1>3. RefsWhole' /\ RunWhole'
  BY <1>1, <1>2, GrantStage, RefsWholeStable, RunWholeStable DEF IInv, Wiring
<1>4. /\ pc' \in {"role", "grant"} /\ rix \in 1..5
      /\ rix' = rix \/ (rix' = rix + 1 /\ pending' = {})
  BY <1>1 DEF InspectRole, IInv, TypeOK
<1>5. /\ grants["EXECUTOR"] = <<existing["CallProxy"]>>
      /\ grants["ADMIN"] = <<existing["Timelock"]>>
         \/ (grants["ADMIN"] = <<>> /\ existing["Timelock"] \in roles["ADMIN"])
      /\ rix >= 5 => existing["CallProxy"] \in roles["EXECUTOR"]
  BY <1>1 DEF Wiring, GrantsInOrder, roleGrants, Roles
<1>6. ASSUME rix = 4, rix' = 5 PROVE existing["CallProxy"] \in roles["EXECUTOR"]
  <2>1. pending' = {} /\ RoleOrder[rix] = "EXECUTOR"
    BY <1>4, <1>6, RoleAtIndex
  <2>2. \A i \in DOMAIN grants["EXECUTOR"] : grants["EXECUTOR"][i] \in roles["EXECUTOR"]
    BY <2>1 DEF InspectRole
  <2>3. QED
    BY <1>5, <2>2
<1>7. ASSUME rix = 5, rix' = 6 PROVE existing["Timelock"] \in roles["ADMIN"]
  <2>1. pending' = {} /\ RoleOrder[rix] = "ADMIN"
    BY <1>4, <1>7, RoleAtIndex
  <2>2. DOMAIN grants["ADMIN"] = {}
    BY <2>1 DEF InspectRole
  <2>3. grants["ADMIN"] # <<existing["Timelock"]>>
    BY <2>2
  <2>4. QED
    BY <1>5, <2>3
<1>8. GrantsInOrder'
  <2>1. roleGrants' = roleGrants /\ roles' = roles
    BY <1>1 DEF roleGrants, roles
  <2>2. rix' >= 5 => existing["CallProxy"] \in roles["EXECUTOR"]
    BY <1>4, <1>5, <1>6
  <2>3. rix' = 6 => existing["Timelock"] \in roles["ADMIN"]
    BY <1>4, <1>7
  <2>4. \A r \in Roles \ {"ADMIN"} : grants[r] = roleGrants[r]
    BY <1>1 DEF Wiring, GrantsInOrder
  <2>5. QED
    BY <1>1, <1>4, <1>5, <2>1, <2>2, <2>3, <2>4 DEF GrantsInOrder
<1>9. QED
  BY <1>2, <1>3, <1>8 DEF Wiring

\* When the timelock becomes its own admin, it has its executor.
LEMMA GrantedExecutor ==
    ASSUME IInv, TimelocksRuled, Wiring, pc = "grant", code' \in {code, Granted},
           UNCHANGED reports.deploy
    PROVE  ExecutorFirst'
<1>1. RolesKept /\ NoOtherRuler
  BY GrantedKeeps
<1>2. CASE NoNewRuler
  BY <1>1, <1>2, ExecutorStable DEF Wiring
<1>3. CASE ~NoNewRuler
  <2>1. RoleOrder[rix] = "ADMIN" /\ existing["Timelock"] \notin roles["ADMIN"]
    BY <1>3, GrantedKeeps
  <2>2. rix = 5
    BY <2>1, GranteeType, RoleAtIndex
  <2>3. existing["CallProxy"] \in roles["EXECUTOR"]
    BY <2>2 DEF Wiring, GrantsInOrder
  <2>4. /\ ch \in Chains /\ existing["Timelock"] \in DOMAIN code[ch] /\ Missing(existing) = {}
        /\ InSequence /\ existing["CallProxy"] # Deployer
    BY GrantStage, AddrIsNotDeployer DEF IInv, SequenceOK, Types
  <2>5. existing["CallProxy"] \in code'[ch][existing["Timelock"]].roles["EXECUTOR"]
    BY <1>1, <2>3, <2>4 DEF RolesKept, roles, Roles
  <2>6. Collected
    BY <2>1, <2>4 DEF Wiring, RunWhole, WiredSet, roles
  <2>7. Reported("Timelock") /\ Reported("CallProxy")
    BY <2>4, <2>6, WholeSet DEF Collected, Types
  <2>8. PICK p \in reports.deploy : p.k = DeployKey("CallProxy") /\ p.out = existing["CallProxy"]
    BY <2>7 DEF Reported
  <2>9. ASSUME NEW r \in reports.deploy, r.k.key = ch, r.out = existing["Timelock"]
        PROVE  p.k = ProxyKey(r)
    <3>1. r.k.in = DeployIn("Timelock")
      BY <2>7, <2>9, ReportedContract DEF IInv, ReportsOK, DeployReportOK, Types
    <3>2. QED
      BY <2>8, <2>9, <3>1
         DEF ProxyKey, DeployKey, DeployIn, ConstructorArgs, chainIdempotencyKey, MCMTypes
  <2>10. \A r \in reports.deploy : r.k.key \in Chains /\ r.out \in DOMAIN code[r.k.key]
    BY DEF IInv, ReportsOK, DeployReportOK
  <2>11. ASSUME NEW r \in reports'.deploy, r.out \in code'[r.k.key][r.out].roles["ADMIN"]
         PROVE  \/ r \in reports.deploy /\ r.out \in code[r.k.key][r.out].roles["ADMIN"]
                \/ \E x \in reports'.deploy :
                      x.k = ProxyKey(r) /\ x.out \in code'[r.k.key][r.out].roles["EXECUTOR"]
    <3>1. CASE r.k.key = ch /\ r.out = existing["Timelock"]
      BY <2>5, <2>8, <2>9, <3>1
    <3>2. CASE ~(r.k.key = ch /\ r.out = existing["Timelock"])
      BY <1>1, <2>10, <2>11, <3>2 DEF NoOtherRuler
    <3>3. QED
      BY <3>1, <3>2
  <2>12. QED
    BY <1>1, <2>11, ExecutorKept DEF Wiring
<1>4. QED
  BY <1>2, <1>3

\* A grant whose result is lost is there all the same.
LEMMA LoseGrantWires ==
    ASSUME IInv, TimelocksRuled, Wiring, LoseGrant
    PROVE  TimelocksRuled' /\ Wiring'
<1>1. pc = "grant" /\ code' = Granted /\ RetryOrAbort /\ InSequence
  BY DEF LoseGrant, InSequence
<1>2. RolesKept /\ TimelocksRuled'
  BY <1>1, GrantedKeeps
<1>3. ExecutorFirst'
  BY <1>1, GrantedExecutor DEF RetryOrAbort
<1>4. QED
  BY <1>1, <1>2, <1>3, RetryOrAbortWires

\* A grant that succeeds is in force: it was sent, it was reported before, or the
\* deployer may no longer grant and the set is wired already.
LEMMA GrantHolds ==
    ASSUME IInv, TimelocksRuled, Wiring, pc = "grant",
           code' = IF Reusable(reports.grant, GrantKey(Grantee)) THEN code ELSE Granted
    PROVE  Grantee \in code'[ch][existing["Timelock"]].roles[RoleOrder[rix]]
<1>1. CASE Reusable(reports.grant, GrantKey(Grantee))
  <2>1. PICK r \in reports.grant : r.k = GrantKey(Grantee)
    BY <1>1 DEF Reusable
  <2>2. /\ r.k.key[1] = ch /\ r.k.key[2] = existing["Timelock"] /\ r.k.role = RoleOrder[rix]
        /\ r.k.a = Grantee
    BY <2>1 DEF GrantKey, outputAddressIdempotencyKey
  <2>3. Holds(ch, existing["Timelock"], RoleOrder[rix], Grantee)
    BY <2>2 DEF Wiring, GrantReportsOK
  <2>4. QED
    BY <1>1, <2>3 DEF Holds
<1>2. CASE ~Reusable(reports.grant, GrantKey(Grantee)) /\ Deployer \in roles["ADMIN"]
  BY <1>2, GrantedKeeps
<1>3. CASE ~Reusable(reports.grant, GrantKey(Grantee)) /\ Deployer \notin roles["ADMIN"]
  <2>1. code' = code
    BY <1>3 DEF Granted
  <2>2. existing["Timelock"] \in roles["ADMIN"]
    BY <1>3, CollectedWired DEF Wiring, Ruled, roles
  <2>3. WiredSet(ch, existing)
    BY <2>2, SelfRuledWired DEF Wiring
  <2>4. NextGrant \in DOMAIN grants[RoleOrder[rix]] /\ RoleOrder[rix] \in Roles
    BY GranteeType DEF IInv, TypeOK
  <2>5. Grantee \in roles[RoleOrder[rix]]
    BY <2>3, <2>4, WiredGrants DEF Wiring, Grantee
  <2>6. QED
    BY <2>1, <2>5 DEF roles
<1>4. QED
  BY <1>1, <1>2, <1>3

\* A grant that is confirmed is there and reported.
LEMMA GrantRoleWires ==
    ASSUME IInv, TimelocksRuled, Wiring, GrantRole
    PROVE  TimelocksRuled' /\ Wiring'
<1>1. /\ pc = "grant" /\ UNCHANGED <<ds, agg, req, ch, existing, fresh, grants>>
      /\ code' = IF Reusable(reports.grant, GrantKey(Grantee)) THEN code ELSE Granted
  BY DEF GrantRole
<1>2. RolesKept /\ TimelocksRuled'
  BY <1>1, GrantedKeeps
<1>3. PICK tl, role, a, new : /\ tl = existing["Timelock"] /\ role = RoleOrder[rix] /\ a = Grantee
                              /\ new = [k |-> GrantKey(a), out |-> a]
  OBVIOUS
<1>4. /\ UNCHANGED <<reports.chain, reports.deploy, reports.grantSeq>>
      /\ reports'.grant = reports.grant \cup {new}
  <2>1. reports' = [reports EXCEPT !.grant = @ \cup {new}]
    BY <1>3 DEF GrantRole, AddReport
  <2>2. QED
    BY <2>1 DEF IInv, TypeOK
<1>5. /\ RefsWhole' /\ ReportsWhole' /\ ExecutorFirst' /\ RunWhole'
  BY <1>1, <1>2, <1>4, GrantStage, RefsWholeStable, ReportsWholeStable, RunWholeStable, GrantedExecutor
     DEF IInv, Wiring
<1>6. /\ ch \in Chains /\ tl \in DOMAIN code[ch] /\ role \in Roles /\ a \in Addr0
      /\ rix \in 1..5 /\ NextGrant \in pending /\ pending \subseteq DOMAIN grants[role]
      /\ a = grants[role][NextGrant]
  BY <1>1, <1>3, GrantStage, GranteeType DEF IInv, TypeOK, Grantee
<1>7. a \in code'[ch][tl].roles[role]
  BY <1>1, <1>3, GrantHolds
<1>8. GrantReportsOK'
  <2>1. ASSUME NEW r \in reports'.grant PROVE Holds(r.k.key[1], r.k.key[2], r.k.role, r.k.a)'
    <3>1. CASE r \in reports.grant
      BY <1>2, <3>1, HoldsStable DEF Wiring, GrantReportsOK
    <3>2. CASE r = new
      <4>1. r.k.key[1] = ch /\ r.k.key[2] = tl /\ r.k.role = role /\ r.k.a = a
        BY <1>3, <3>2 DEF GrantKey, outputAddressIdempotencyKey
      <4>2. tl \in DOMAIN code'[ch]
        BY <1>2, <1>6 DEF RolesKept
      <4>3. QED
        BY <1>6, <1>7, <4>1, <4>2 DEF Holds
    <3>3. QED
      BY <1>4, <3>1, <3>2
  <2>2. ASSUME NEW r \in reports'.grantSeq, NEW x \in Roles, NEW i \in DOMAIN r.k.g[x]
        PROVE  Holds(r.k.key, r.k.tl, x, r.k.g[x][i])'
    BY <1>2, <1>4, HoldsStable DEF Wiring, GrantReportsOK
  <2>3. QED
    BY <2>1, <2>2 DEF GrantReportsOK
<1>9. GrantsInOrder'
  <2>1. pc' \in {"role", "grant"} /\ rix' \in {rix, rix + 1}
    BY <1>1 DEF GrantRole
  <2>2. /\ grants["EXECUTOR"] = <<existing["CallProxy"]>>
        /\ grants["ADMIN"] = <<existing["Timelock"]>>
           \/ (grants["ADMIN"] = <<>> /\ existing["Timelock"] \in roles["ADMIN"])
        /\ rix >= 5 => existing["CallProxy"] \in roles["EXECUTOR"]
    BY <1>1 DEF Wiring, GrantsInOrder, roleGrants, Roles
  <2>3. /\ existing["Timelock"] # Deployer /\ existing["CallProxy"] # Deployer
    BY <1>1, GrantStage, AddrIsNotDeployer DEF Types
  <2>4. /\ existing["CallProxy"] \in roles["EXECUTOR"] => existing["CallProxy"] \in roles'["EXECUTOR"]
        /\ existing["Timelock"] \in roles["ADMIN"] => existing["Timelock"] \in roles'["ADMIN"]
    BY <1>1, <1>2, <1>3, <1>6, <2>3 DEF RolesKept, roles, Roles
  <2>5. rix' >= 5 => existing["CallProxy"] \in roles'["EXECUTOR"]
    <3>1. CASE rix = 4
      <4>1. role = "EXECUTOR"
        BY <1>3, <1>6, <3>1, RoleAtIndex
      <4>2. a = existing["CallProxy"]
        BY <1>6, <2>2, <4>1
      <4>3. QED
        BY <1>1, <1>3, <1>7, <4>1, <4>2 DEF roles
    <3>2. CASE rix # 4
      BY <1>6, <2>1, <2>2, <2>4, <3>2
    <3>3. QED
      BY <3>1, <3>2
  <2>6. rix' = 6 => existing["Timelock"] \in roles'["ADMIN"]
    <3>1. ASSUME rix' = 6 PROVE rix = 5
      BY <1>6, <2>1, <3>1
    <3>2. ASSUME rix = 5 PROVE existing["Timelock"] \in roles'["ADMIN"]
      <4>1. role = "ADMIN"
        BY <1>3, <1>6, <3>2, RoleAtIndex
      <4>2. grants["ADMIN"] = <<existing["Timelock"]>>
        BY <1>6, <2>2, <4>1
      <4>3. a = existing["Timelock"]
        BY <1>6, <4>1, <4>2
      <4>4. QED
        BY <1>1, <1>3, <1>7, <4>1, <4>3 DEF roles
    <3>3. QED
      BY <3>1, <3>2
  <2>7. \A r \in Roles \ {"ADMIN"} : grants[r] = roleGrants[r]
    BY <1>1 DEF Wiring, GrantsInOrder
  <2>8. \A r \in Roles \ {"ADMIN"} : roleGrants'[r] = roleGrants[r]
    BY <1>1 DEF roleGrants
  <2>9. QED
    BY <1>1, <2>1, <2>2, <2>4, <2>5, <2>6, <2>7, <2>8 DEF GrantsInOrder
<1>10. QED
  BY <1>2, <1>5, <1>8, <1>9 DEF Wiring

\* All grants are in force: the set is wired and the report of the grants true.
LEMMA GrantsDoneWires ==
    ASSUME IInv, TimelocksRuled, Wiring, GrantsDone
    PROVE  TimelocksRuled' /\ Wiring'
<1>1. /\ pc = "role" /\ rix = 6 /\ pc' = "done"
      /\ UNCHANGED <<code, ds, agg, req, ch, existing, fresh, grants, rix>>
  BY DEF GrantsDone, applyVars, grantVars
<1>2. RolesKept /\ NoNewRuler /\ TimelocksRuled'
  BY <1>1, RolesSame
<1>3. PICK new : new = [k |-> GrantSeqKey(grants), out |-> existing["Timelock"]]
  OBVIOUS
<1>4. /\ UNCHANGED <<reports.chain, reports.deploy, reports.grant>>
      /\ reports'.grantSeq = reports.grantSeq \cup {new}
  <2>1. reports' = [reports EXCEPT !.grantSeq = @ \cup {new}]
    BY <1>3 DEF GrantsDone, AddReport
  <2>2. QED
    BY <2>1 DEF IInv, TypeOK
<1>5. RefsWhole' /\ ReportsWhole' /\ ExecutorFirst' /\ RunWhole'
  BY <1>1, <1>2, <1>4, GrantStage, RefsWholeStable, ReportsWholeStable, RunWholeStable, ExecutorStable
     DEF IInv, Wiring
<1>6. WiredSet(ch, existing)
  BY <1>1, GrantsWire DEF Wiring, GrantsInOrder
<1>7. GrantReportsOK'
  <2>1. \A r \in reports'.grant : Holds(r.k.key[1], r.k.key[2], r.k.role, r.k.a)'
    BY <1>2, <1>4, HoldsStable DEF Wiring, GrantReportsOK
  <2>2. ASSUME NEW r \in reports'.grantSeq, NEW x \in Roles, NEW i \in DOMAIN r.k.g[x]
        PROVE  Holds(r.k.key, r.k.tl, x, r.k.g[x][i])'
    <3>1. CASE r \in reports.grantSeq
      BY <1>2, <3>1, HoldsStable DEF Wiring, GrantReportsOK
    <3>2. CASE r = new
      <4>1. r.k.key = ch /\ r.k.tl = existing["Timelock"] /\ r.k.g = grants
        BY <1>3, <3>2 DEF GrantSeqKey, chainSequenceIdempotencyKey
      <4>2. grants[x][i] \in roles[x]
        BY <1>1, <1>6, <4>1, WiredGrants DEF Wiring
      <4>3. grants[x] \in Seq(Addr0) /\ i \in DOMAIN grants[x]
        BY <4>1 DEF IInv, TypeOK
      <4>4. grants[x][i] \in Addr0
        BY <4>3
      <4>5. ch \in Chains /\ existing["Timelock"] \in DOMAIN code[ch]
        BY <1>1, GrantStage
      <4>6. QED
        BY <1>1, <4>1, <4>2, <4>4, <4>5 DEF Holds, roles
    <3>3. QED
      BY <1>4, <3>1, <3>2
  <2>3. QED
    BY <2>1, <2>2 DEF GrantReportsOK
<1>8. GrantsInOrder'
  BY <1>1, <1>6 DEF GrantsInOrder, WiredSet
<1>9. QED
  BY <1>2, <1>5, <1>7, <1>8 DEF Wiring

\* A fresh bundle says nothing.
LEMMA LoseReportsWires ==
    ASSUME IInv, TimelocksRuled, Wiring, LoseReports
    PROVE  TimelocksRuled' /\ Wiring'
<1>1. UNCHANGED <<code, ds, agg, rix>> /\ pc' = "idle" /\ pc = "idle" /\ reports' = NoReports
  BY DEF LoseReports, applyVars, grantVars
<1>2. RolesKept /\ TimelocksRuled'
  BY <1>1, RolesSame
<1>3. RefsWhole'
  BY <1>1, <1>2, RefsWholeStable DEF IInv, Wiring
<1>4. ReportsWhole' /\ ExecutorFirst' /\ GrantReportsOK'
  BY <1>1 DEF NoReports, ReportsWhole, ExecutorFirst, GrantReportsOK
<1>5. RunWhole' /\ GrantsInOrder'
  BY <1>1, OutsideSequence DEF Wiring, GrantsInOrder
<1>6. QED
  BY <1>2, <1>3, <1>4, <1>5 DEF Wiring

\* A step that changes nothing.
LEMMA StutterWires ==
    ASSUME IInv, TimelocksRuled, Wiring, UNCHANGED vars
    PROVE  TimelocksRuled' /\ Wiring'
<1>1. UNCHANGED <<code, ds, reports, pc, req, ch, existing, fresh, agg, grants, rix>>
  BY DEF vars, applyVars, grantVars
<1>2. TimelocksRuled' /\ RolesKept /\ ReportsWhole' /\ ExecutorFirst' /\ GrantReportsOK'
  BY <1>1, ReportsSame
<1>3. RefsWhole' /\ GrantsInOrder'
  BY <1>1, <1>2, RefsWholeStable, GrantsStable DEF IInv, Wiring
<1>4. RunWhole'
  <2>1. CASE InSequence
    BY <1>1, <1>2, <2>1, RunWholeStable DEF Wiring
  <2>2. CASE ~InSequence
    BY <1>1, <2>2 DEF RunWhole, InSequence
  <2>3. QED
    BY <2>1, <2>2
<1>5. QED
  BY <1>2, <1>3, <1>4 DEF Wiring

\* Deletes are counted: a state without any comes after states without any.
LEMMA DeletesCount ==
    ASSUME IInv, [Next]_vars, deletes' = 0
    PROVE  deletes = 0 /\ \A k \in Keys : ~DeleteRef(k)
<1>1. deletes \in Nat
  BY BoundsAssumption DEF IInv, TypeOK
<1>2. ASSUME NEW k \in Keys, DeleteRef(k) PROVE FALSE
  BY <1>1, <1>2 DEF DeleteRef
<1>3. (\E i \in Inputs : Start(i)) => UNCHANGED deletes
  BY DEF Start, counters
<1>4. Step => UNCHANGED deletes
  BY DEF Step, ReuseChain, StartChain, Finish, ReuseMCMSequence, ReuseDeploy, Deploy, SetConfig,
         CheckAdmin, InspectRole, GrantRole, GrantsDone, ChainDone, counters
<1>5. Fault => UNCHANGED deletes
  BY DEF Fault, LoseDeploy, LoseSetConfig, LoseGrant, RetryOrAbort, Fail, LoseReports
<1>6. (\E c \in Chains, a \in Addr : RevokeDeployer(c, a)) => UNCHANGED deletes
  BY DEF RevokeDeployer, counters
<1>7. UNCHANGED vars => UNCHANGED deletes
  BY DEF vars, counters
<1>8. UNCHANGED deletes
  BY <1>2, <1>3, <1>4, <1>5, <1>6, <1>7, DeletableAssumption DEF Next
<1>9. QED
  BY <1>2, <1>8

\* Nothing is deployed at first.
LEMMA InitWiring == Init => WiringInv
<1> SUFFICES ASSUME Init PROVE WiringInv
  OBVIOUS
<1>1. TimelocksRuled
  BY DEF Init, TimelocksRuled
<1>2. ReportsWhole /\ ExecutorFirst /\ GrantReportsOK
  BY DEF Init, NoReports, ReportsWhole, ExecutorFirst, GrantReportsOK
<1>3. ASSUME NEW c \in Chains, NEW q \in Qualifiers
      PROVE  SetOK(c, loadDeployedAddresses(c, q)) /\ SetOK(c, Aggregated(c, q))
  <2>1. \A t \in Types : <<c, t, q>> \in Keys
    BY DEF Keys
  <2>2. Present(loadDeployedAddresses(c, q)) = {}
    BY <2>1 DEF Init, Present, loadDeployedAddresses, NoRefs
  <2>3. QED
    BY <2>2, NoRefsOK DEF Init, SetOK
<1>4. RunWhole /\ GrantsInOrder
  BY DEF Init, RunWhole, InSequence, GrantsInOrder
<1>5. QED
  BY <1>1, <1>2, <1>3, <1>4 DEF WiringInv, RefsWhole

\* Every step keeps the invariant of the wiring.
LEMMA NextWiring == IInv /\ WiringInv /\ [Next]_vars => WiringInv'
<1> SUFFICES ASSUME IInv, WiringInv, [Next]_vars, deletes' = 0
             PROVE  TimelocksRuled' /\ Wiring'
  BY DEF WiringInv, Wiring
<1>1. TimelocksRuled /\ Wiring /\ \A k \in Keys : ~DeleteRef(k)
  BY DeletesCount DEF WiringInv, Wiring
<1>2. ASSUME NEW i \in Inputs, Start(i) PROVE TimelocksRuled' /\ Wiring'
  BY <1>1, <1>2, StartWires
<1>3. CASE Step
  BY <1>1, <1>3, ReuseChainWires, StartChainWires, FinishWires, ReuseMCMSequenceWires, ReuseDeployWires,
     DeployWires, SetConfigWires, CheckAdminWires, InspectRoleWires, GrantRoleWires, GrantsDoneWires,
     ChainDoneWires DEF Step
<1>4. CASE Fault
  BY <1>1, <1>4, LoseDeployWires, LoseSetConfigWires, LoseGrantWires, FailWires, LoseReportsWires
     DEF Fault
<1>5. ASSUME NEW c \in Chains, NEW a \in Addr, RevokeDeployer(c, a) PROVE TimelocksRuled' /\ Wiring'
  BY <1>1, <1>5, RevokeDeployerWires
<1>6. CASE UNCHANGED vars
  BY <1>1, <1>6, StutterWires
<1>7. QED
  BY <1>1, <1>2, <1>3, <1>4, <1>5, <1>6, DeletableAssumption DEF Next

\* The wiring invariant holds in every reachable state.
THEOREM WiringInvariance == Spec => []WiringInv
<1>1. QED
  BY InitWiring, NextWiring, Invariance, PTL DEF Spec

\* A failed Apply records no part of a set: without deletes a chain's datastore
\* holds the five contracts of a qualifier or none, for any number of chains,
\* runs, failures, lost results and reused reports.
THEOREM SetsWhole == Spec => []AllOrNothing
<1>1. WiringInv => AllOrNothing
  <2> SUFFICES ASSUME WiringInv, deletes = 0, NEW c \in Chains, NEW q \in Qualifiers
               PROVE  Recorded(c, q) \in {{}, Types}
    BY DEF AllOrNothing
  <2>1. SetOK(c, loadDeployedAddresses(c, q))
    BY DEF WiringInv, RefsWhole
  <2>2. Recorded(c, q) = Present(loadDeployedAddresses(c, q))
    BY DEF Recorded, Present, loadDeployedAddresses
  <2>3. QED
    BY <2>1, <2>2 DEF SetOK
<1>2. QED
  BY <1>1, WiringInvariance, PTL

\* Every recorded set is wired, also when grants were skipped because the deployer
\* lost its admin role, were lost, retried, or taken from a report.
THEOREM RecordedWired == Spec => []Wired
<1>1. WiringInv => Wired
  <2> SUFFICES ASSUME WiringInv, deletes = 0, NEW c \in Chains, NEW q \in Qualifiers,
                      Recorded(c, q) = Types
               PROVE  WiredSet(c, loadDeployedAddresses(c, q))
    BY DEF Wired
  <2>1. SetOK(c, loadDeployedAddresses(c, q))
    BY DEF WiringInv, RefsWhole
  <2>2. Present(loadDeployedAddresses(c, q)) = Types /\ Types # {}
    BY DEF Recorded, Present, loadDeployedAddresses, Types
  <2>3. QED
    BY <2>1, <2>2 DEF SetOK
<1>2. QED
  BY <1>1, WiringInvariance, PTL
=============================================================================
