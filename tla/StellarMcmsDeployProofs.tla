---------------------- MODULE StellarMcmsDeployProofs ----------------------
(* Machine-checked proofs about StellarMcmsDeploy, for every value of its constants. *)
EXTENDS StellarMcmsDeploy, ProofLemmas, TLAPS

(* The operators of the model *)

\* "No contract ID" is not a contract ID.
LEMMA NoIDNew == NoID \notin IDs
BY DEF NoID, IDs

\* The parts of a contract ID.
LEMMA IDType ==
    ASSUME NEW a \in IDs
    PROVE  /\ a[1] \in Chains /\ a[2] \in Types /\ a[3] \in Qualifiers /\ a[4] \in Nat
           /\ Belongs(a[1], a[2], a[3], a)
BY AttemptsAssumption DEF IDs, Attempts, Belongs

\* A contract ID is determined by its chain, type, qualifier and attempt.
LEMMA IDUnique ==
    ASSUME NEW a \in IDs, NEW b \in IDs,
           a[1] = b[1], a[2] = b[2], a[3] = b[3], a[4] = b[4]
    PROVE  a = b
BY DEF IDs

\* identity.go derives an ID of the key it is given.
LEMMA ContractIDType ==
    ASSUME NEW c \in Chains, NEW t \in Types, NEW q \in Qualifiers, NEW n \in Attempts
    PROVE  Belongs(c, t, q, ContractID(c, t, q, n)) /\ ContractID(c, t, q, n)[4] = n
BY DEF ContractID, computeContractID, deriveDeploymentSalt, Belongs, IDs

\* An input names a chain, a qualifier, a config per MCM and a delay.
LEMMA InputType ==
    ASSUME NEW i \in Inputs
    PROVE  /\ i.c \in Chains /\ i.q \in Qualifiers /\ i.delay \in Delays
           /\ \A t \in MCMTypes : i.cfg[t] \in Configs /\ i.cfg[t] # NoConfig
BY InputsAssumption, SentinelAssumption DEF ChainInput

\* A release's artifact of a type is a WASM, not the absent one.
LEMMA WasmType ==
    ASSUME NEW r \in Releases, NEW t \in Types
    PROVE  WasmHash(r, t) \in Wasms /\ WasmHash(r, t) # NoWasm
BY SentinelAssumption DEF WasmHash, Wasms

\* The contract a run works on next is the first one it lacks; the timelock comes
\* after its MCMs.
LEMMA CurrentType ==
    ASSUME NEW p, have[p] \in [Types -> IDs \cup {NoID}], Missing(have[p]) # {}
    PROVE  /\ Current(p) \in Types /\ have[p][Current(p)] = NoID
           /\ Current(p) # "Timelock" => Current(p) \in MCMTypes
           /\ Current(p) = "Timelock" => \A t \in MCMTypes : have[p][t] \in IDs
<1> DEFINE M == Missing(have[p])
           n == CHOOSE x \in M : \A y \in M : x <= y
<1>1. M \subseteq 1..4 /\ M # {}
  BY DEF Missing
<1>2. \E x \in M : \A y \in M : x <= y
  BY <1>1, LeastNat
<1> HIDE DEF M
<1>3. n \in M /\ \A y \in M : n <= y
  BY <1>2
<1>4. Current(p) = DeployOrder[n]
  BY DEF Current, M
<1>5. n \in 1..4 /\ have[p][DeployOrder[n]] = NoID
  BY <1>3 DEF M, Missing
<1> HIDE DEF n
<1>6. \A m \in 1..4 : m < n => have[p][DeployOrder[m]] # NoID
  BY <1>3, <1>5 DEF M, Missing
<1>7. n = 1 \/ n = 2 \/ n = 3 \/ n = 4
  BY <1>5
<1>8. DeployOrder[n] = "Timelock" => n = 4
  BY <1>7 DEF DeployOrder
<1>9. n = 4 => \A t \in MCMTypes : have[p][t] \in IDs
  <2>1. \A t \in MCMTypes : t = DeployOrder[1] \/ t = DeployOrder[2] \/ t = DeployOrder[3]
    BY DEF DeployOrder, MCMTypes
  <2>2. QED
    BY <2>1, <1>6 DEF Types
<1>10. DeployOrder[n] \in Types
  BY <1>7 DEF DeployOrder, Types, MCMTypes
<1>11. QED
  BY <1>4, <1>5, <1>8, <1>9, <1>10 DEF Types

\* The stage after the addresses h: work on what is missing, else finish.
LEMMA StageType ==
    ASSUME NEW h
    PROVE  /\ NextStage(h) \in {"ensure", "finish"}
           /\ NextStage(h) = "ensure" <=> Missing(h) # {}
BY DEF NextStage

----------------------------------------------------------------------------
(* What happens on the ledger *)

LedgerOK == ledger \in [IDs -> Contract] /\ OneInstance /\ AttemptsInOrder /\ HoldersUsable

\* A step keeps every artifact where it is and every initialized contract so.
Grows ==
    /\ ledger' \in [IDs -> Contract]
    /\ \A a \in IDs :
         /\ Exists(a) => ledger'[a].wasm = ledger[a].wasm
         /\ Ready(a) => Ready(a)'
         /\ ledger[a].owner # NoOwner => ledger'[a].owner # NoOwner

\* A usable contract stays usable.
LEMMA UsableKept ==
    ASSUME Grows, NEW c, NEW t, NEW q, NEW a, Usable(c, t, q, a)
    PROVE  Usable(c, t, q, a)'
BY DEF Usable, Belongs, Exists, Grows

\* A step that leaves the ledger alone.
LEMMA LedgerSame ==
    ASSUME LedgerOK, UNCHANGED ledger
    PROVE  Grows /\ LedgerOK'
<1>1. \A a : Exists(a)' = Exists(a) /\ Ready(a)' = Ready(a)
  BY DEF Exists, Ready
<1>2. Grows
  BY <1>1 DEF Grows, LedgerOK
<1>3. OneInstance'
  BY DEF LedgerOK, OneInstance, Exists
<1>4. AttemptsInOrder'
  BY DEF LedgerOK, AttemptsInOrder, Exists
<1>5. HoldersUsable'
  BY <1>1 DEF LedgerOK, HoldersUsable, Usable
<1>6. QED
  BY <1>2, <1>3, <1>4, <1>5 DEF LedgerOK

\* A step that creates no contract keeps one instance per artifact and the order
\* of the attempts.
LEMMA SameArtifacts ==
    ASSUME LedgerOK, \A a \in IDs : ledger'[a].wasm = ledger[a].wasm
    PROVE  OneInstance' /\ AttemptsInOrder'
<1>1. OneInstance'
  BY DEF LedgerOK, OneInstance, Exists
<1>2. AttemptsInOrder'
  BY DEF LedgerOK, AttemptsInOrder, Exists
<1>3. QED
  BY <1>1, <1>2

\* A step that initializes no timelock keeps the holders of every role usable.
LEMMA SameHolders ==
    ASSUME LedgerOK, Grows, \A a \in IDs : ledger'[a].init = ledger[a].init
    PROVE  HoldersUsable'
<1> SUFFICES ASSUME NEW a \in IDs, ledger'[a].init # NoInit
             PROVE  /\ Usable(a[1], "Proposer", a[3], ledger[a].init.p)'
                    /\ Usable(a[1], "Canceller", a[3], ledger[a].init.c)'
                    /\ Usable(a[1], "Bypasser", a[3], ledger[a].init.b)'
  BY DEF HoldersUsable, Usable
<1>1. /\ Usable(a[1], "Proposer", a[3], ledger[a].init.p)
      /\ Usable(a[1], "Canceller", a[3], ledger[a].init.c)
      /\ Usable(a[1], "Bypasser", a[3], ledger[a].init.b)
  BY DEF LedgerOK, HoldersUsable
<1>2. ledger'[a].init = ledger[a].init
  OBVIOUS
<1>3. QED
  BY <1>1, <1>2, UsableKept

\* The contract a run works on, with the facts every ledger write needs.
OnContract(p) ==
    /\ p \in Procs /\ req[p] \in Inputs /\ rel[p] \in Releases
    /\ Current(p) \in Types /\ (Current(p) # "Timelock" => Current(p) \in MCMTypes)
    /\ Belongs(req[p].c, Current(p), req[p].q, id[p])

\* DeployContractBytes takes the first free attempt, and no lower attempt holds the
\* artifact: there is still one instance of it.
LEMMA DeployedOK ==
    ASSUME LedgerOK, NEW p, OnContract(p), Skipped(p), ~Exists(id[p]), ledger' = Deployed(p)
    PROVE  Grows /\ LedgerOK' /\ ledger'[id[p]].wasm # NoWasm
<1> DEFINE x == id[p]
           w == WasmHash(rel[p], Current(p))
<1>1. x \in IDs /\ w \in Wasms /\ w # NoWasm /\ ledger[x].wasm = NoWasm
      /\ x[1] = req[p].c /\ x[2] = Current(p) /\ x[3] = req[p].q
  BY WasmType DEF OnContract, Belongs, Exists
<1>2. ledger \in [IDs -> Contract]
  BY DEF LedgerOK
<1>3. ledger' = [ledger EXCEPT ![x].wasm = w]
  BY DEF Deployed
<1>4. ledger'[x].wasm = w /\ \A a \in IDs \ {x} : ledger'[a] = ledger[a]
  BY <1>1, <1>2, <1>3 DEF Contract
<1>5. \A a \in IDs : /\ ledger'[a].owner = ledger[a].owner /\ ledger'[a].cfg = ledger[a].cfg
                     /\ ledger'[a].init = ledger[a].init
  BY <1>1, <1>2, <1>3 DEF Contract
<1>6. ledger' \in [IDs -> Contract]
  BY <1>1, <1>2, <1>3 DEF Contract
<1>7. \A a \in IDs : ledger[a].wasm \notin {NoWasm, w} \/ a = x \/ a[4] >= x[4]
                     \/ ~(a[1] = x[1] /\ a[2] = x[2] /\ a[3] = x[3])
  <2>1. \A a \in IDs : Belongs(req[p].c, Current(p), req[p].q, a) /\ a[4] < x[4] =>
           ledger[a].wasm \notin {NoWasm, w}
    BY DEF Skipped
  <2>2. \A a \in IDs : a[1] = x[1] /\ a[2] = x[2] /\ a[3] = x[3] =>
           Belongs(req[p].c, Current(p), req[p].q, a)
    BY <1>1 DEF Belongs
  <2>3. \A a \in IDs : a[4] \in Nat
    BY IDType
  <2> HIDE DEF w, x
  <2>4. QED
    BY <2>1, <2>2, <2>3, <1>1
<1>8. \A a \in IDs : Exists(a) /\ a[1] = x[1] /\ a[2] = x[2] /\ a[3] = x[3] => a[4] < x[4]
  <2> SUFFICES ASSUME NEW a \in IDs, Exists(a), a[1] = x[1], a[2] = x[2], a[3] = x[3], ~(a[4] < x[4])
               PROVE  FALSE
    OBVIOUS
  <2>1. a[4] \in Nat /\ x[4] \in Nat
    BY <1>1, IDType
  <2>2. a # x
    BY <1>1 DEF Exists
  <2>3. a[4] # x[4]
    BY <2>2, <1>1, IDUnique
  <2>4. x[4] < a[4]
    BY <2>1, <2>3
  <2>5. Belongs(a[1], a[2], a[3], x)
    BY <1>1 DEF Belongs
  <2>6. Exists(x)
    BY <2>4, <2>5, <1>1 DEF LedgerOK, AttemptsInOrder
  <2>7. QED
    BY <2>6, <1>1 DEF Exists
<1> HIDE DEF x, w
<1>9. Grows
  BY <1>1, <1>4, <1>5, <1>6 DEF Grows, Exists, Ready
<1>10. OneInstance'
  <2> SUFFICES ASSUME NEW a \in IDs, NEW b \in IDs, Exists(a)', a[1] = b[1], a[2] = b[2], a[3] = b[3],
                      ledger'[a].wasm = ledger'[b].wasm
               PROVE  a = b
    BY DEF OneInstance, Exists
  <2>1. CASE a # x /\ b # x
    BY <2>1, <1>4 DEF LedgerOK, OneInstance, Exists
  <2>2. ASSUME NEW d \in IDs, d # x, d[1] = x[1], d[2] = x[2], d[3] = x[3], ledger'[d].wasm = w
        PROVE  FALSE
    <3>1. ledger[d].wasm = w
      BY <2>2, <1>4
    <3>2. Exists(d)
      BY <3>1, <1>1 DEF Exists
    <3>3. d[4] < x[4] /\ d[4] \in Nat /\ x[4] \in Nat
      BY <3>2, <2>2, <1>8, <1>1, IDType
    <3>4. QED
      BY <3>1, <3>3, <2>2, <1>7
  <2>3. CASE a = x \/ b = x
    BY <2>2, <2>3, <1>4
  <2>4. QED
    BY <2>1, <2>3
<1>11. AttemptsInOrder'
  <2>1. ASSUME NEW a \in IDs, NEW b \in IDs, Exists(b)', Belongs(b[1], b[2], b[3], a), a[4] < b[4]
        PROVE  Exists(a)'
    <3>1. CASE b = x
      <4>1. ~(a[4] >= x[4]) /\ a # x
        BY <2>1, <3>1, IDType
      <4>2. a[1] = x[1] /\ a[2] = x[2] /\ a[3] = x[3]
        BY <2>1, <3>1 DEF Belongs
      <4>3. Exists(a)
        BY <4>1, <4>2, <1>7 DEF Exists
      <4>4. QED
        BY <4>1, <4>3, <1>4 DEF Exists
    <3>2. CASE b # x
      <4>1. Exists(b)
        BY <2>1, <3>2, <1>4 DEF Exists
      <4>2. Exists(a)
        BY <2>1, <4>1 DEF LedgerOK, AttemptsInOrder
      <4>3. QED
        BY <4>2, <1>1, <1>4 DEF Exists
    <3>3. QED
      BY <3>1, <3>2
  <2>2. ASSUME NEW a \in IDs, Exists(a)'
        PROVE  ledger'[a].wasm \in {WasmHash(r, a[2]) : r \in Releases}
    <3>1. CASE a = x
      BY <3>1, <1>1, <1>4 DEF w, OnContract
    <3>2. CASE a # x
      BY <2>2, <3>2, <1>4 DEF LedgerOK, AttemptsInOrder, Exists
    <3>3. QED
      BY <3>1, <3>2
  <2>3. QED
    BY <2>1, <2>2 DEF AttemptsInOrder, Exists
<1>12. HoldersUsable'
  BY <1>5, <1>9, SameHolders
<1>13. QED
  BY <1>1, <1>4, <1>6, <1>9, <1>10, <1>11, <1>12 DEF LedgerOK, Exists, x

\* The initialize transaction makes the contract usable; a timelock's roles go to
\* the MCMs the run has collected.
LEMMA InitializedOK ==
    ASSUME LedgerOK, NEW p, OnContract(p), Exists(id[p]), Uninitialized(p), ledger' = Initialized(p),
           Deployer # NoOwner,
           Current(p) = "Timelock" =>
              /\ TimelockInput(p) \in TimelockInit
              /\ \A t \in MCMTypes : Usable(req[p].c, t, req[p].q, have[p][t])
    PROVE  Grows /\ LedgerOK'
           /\ \A c, t, q, a : c = req[p].c /\ t = Current(p) /\ q = req[p].q /\ a = id[p] =>
                Usable(c, t, q, a)'
<1> DEFINE x == id[p]
           in == TimelockInput(p)
           g == req[p].cfg[Current(p)]
<1>1. /\ x \in IDs /\ Exists(x)
      /\ x[1] = req[p].c /\ x[2] = Current(p) /\ x[3] = req[p].q
  BY DEF OnContract, Belongs
<1>2. ledger \in [IDs -> Contract]
  BY DEF LedgerOK
<1>3. Current(p) = "Timelock" => /\ ledger' = [ledger EXCEPT ![x].init = in]
                                 /\ in \in TimelockInit /\ in # NoInit /\ ledger[x].init = NoInit
  BY SentinelAssumption DEF Initialized, Uninitialized
<1>4. Current(p) # "Timelock" => /\ ledger' = [ledger EXCEPT ![x].owner = Deployer, ![x].cfg = g]
                                 /\ g \in Configs /\ g # NoConfig /\ ledger[x].owner = NoOwner
  BY InputType DEF Initialized, Uninitialized, OnContract
<1>5. /\ in.p = have[p]["Proposer"] /\ in.c = have[p]["Canceller"] /\ in.b = have[p]["Bypasser"]
  BY DEF TimelockInput
<1> HIDE DEF x, in, g
<1>6. /\ ledger' \in [IDs -> Contract]
      /\ \A a \in IDs : ledger'[a].wasm = ledger[a].wasm
      /\ \A a \in IDs \ {x} : ledger'[a] = ledger[a]
  <2>1. CASE Current(p) = "Timelock"
    BY <2>1, <1>1, <1>2, <1>3 DEF Contract
  <2>2. CASE Current(p) # "Timelock"
    BY <2>2, <1>1, <1>2, <1>4 DEF Contract
  <2>3. QED
    BY <2>1, <2>2
<1>7. Current(p) = "Timelock" => /\ ledger'[x].init = in /\ ledger'[x].owner = ledger[x].owner
                                 /\ ledger'[x].cfg = ledger[x].cfg
  BY <1>1, <1>2, <1>3 DEF Contract
<1>8. Current(p) # "Timelock" => /\ ledger'[x].owner = Deployer /\ ledger'[x].cfg = g
                                 /\ ledger'[x].init = ledger[x].init
  BY <1>1, <1>2, <1>4 DEF Contract
<1>9. Grows
  BY <1>1, <1>3, <1>4, <1>6, <1>7, <1>8 DEF Grows, Exists, Ready
<1>10. OneInstance' /\ AttemptsInOrder'
  BY <1>6, SameArtifacts
<1>11. HoldersUsable'
  <2>1. CASE Current(p) # "Timelock"
    <3>1. \A a \in IDs : ledger'[a].init = ledger[a].init
      BY <2>1, <1>6, <1>8
    <3>2. QED
      BY <3>1, <1>9, SameHolders
  <2>2. CASE Current(p) = "Timelock"
    <3> SUFFICES ASSUME NEW a \in IDs, ledger'[a].init # NoInit
                 PROVE  /\ Usable(a[1], "Proposer", a[3], ledger[a].init.p)'
                        /\ Usable(a[1], "Canceller", a[3], ledger[a].init.c)'
                        /\ Usable(a[1], "Bypasser", a[3], ledger[a].init.b)'
      BY DEF HoldersUsable, Usable
    <3>1. CASE a # x
      <4>1. ledger'[a].init = ledger[a].init
        BY <3>1, <1>6
      <4>2. /\ Usable(a[1], "Proposer", a[3], ledger[a].init.p)
            /\ Usable(a[1], "Canceller", a[3], ledger[a].init.c)
            /\ Usable(a[1], "Bypasser", a[3], ledger[a].init.b)
        BY <4>1 DEF LedgerOK, HoldersUsable
      <4>3. QED
        BY <4>1, <4>2, <1>9, UsableKept
    <3>2. CASE a = x
      <4>1. /\ Usable(a[1], "Proposer", a[3], in.p)
            /\ Usable(a[1], "Canceller", a[3], in.c)
            /\ Usable(a[1], "Bypasser", a[3], in.b)
        BY <3>2, <2>2, <1>1, <1>5 DEF MCMTypes
      <4>2. \A y : /\ Usable(a[1], "Proposer", a[3], y) => Usable(a[1], "Proposer", a[3], y)'
                   /\ Usable(a[1], "Canceller", a[3], y) => Usable(a[1], "Canceller", a[3], y)'
                   /\ Usable(a[1], "Bypasser", a[3], y) => Usable(a[1], "Bypasser", a[3], y)'
        BY <1>9, UsableKept
      <4>3. QED
        BY <4>1, <4>2, <3>2, <2>2, <1>7 DEF Usable
    <3>3. QED
      BY <3>1, <3>2
  <2>3. QED
    BY <2>1, <2>2
<1>12. ASSUME NEW c, NEW t, NEW q, NEW a, c = req[p].c, t = Current(p), q = req[p].q, a = x
       PROVE  Usable(c, t, q, a)'
  <2>1. Belongs(c, t, q, a)
    BY <1>1, <1>12 DEF Belongs
  <2>2. ledger'[a].wasm # NoWasm
    BY <1>1, <1>6, <1>12 DEF Exists
  <2>3. IF t = "Timelock" THEN ledger'[a].init # NoInit
        ELSE ledger'[a].owner # NoOwner /\ ledger'[a].cfg # NoConfig
    BY <1>3, <1>4, <1>7, <1>8, <1>12
  <2>4. QED
    BY <2>1, <2>2, <2>3 DEF Usable, Exists, Ready, Belongs
<1>13. QED
  BY <1>6, <1>9, <1>10, <1>11, <1>12 DEF LedgerOK, x

\* set_config leaves an initialized MCM initialized, with the run's config.
LEMMA ConfiguredOK ==
    ASSUME LedgerOK, NEW p, OnContract(p), Exists(id[p]), ledger' = Configured(p),
           Current(p) # "Timelock", ledger[id[p]].owner # NoOwner
    PROVE  Grows /\ LedgerOK'
           /\ \A c, t, q, a : c = req[p].c /\ t = Current(p) /\ q = req[p].q /\ a = id[p] =>
                Usable(c, t, q, a)'
<1> DEFINE x == id[p]
           g == req[p].cfg[Current(p)]
<1>1. /\ x \in IDs /\ Exists(x) /\ ledger[x].owner # NoOwner
      /\ x[1] = req[p].c /\ x[2] = Current(p) /\ x[3] = req[p].q
  BY DEF OnContract, Belongs
<1>2. ledger \in [IDs -> Contract]
  BY DEF LedgerOK
<1>3. ledger' = [ledger EXCEPT ![x].cfg = g] /\ g \in Configs /\ g # NoConfig
  BY InputType DEF Configured, OnContract
<1> HIDE DEF x, g
<1>4. /\ ledger' \in [IDs -> Contract]
      /\ \A a \in IDs \ {x} : ledger'[a] = ledger[a]
      /\ ledger'[x].wasm = ledger[x].wasm /\ ledger'[x].owner = ledger[x].owner
      /\ ledger'[x].init = ledger[x].init /\ ledger'[x].cfg = g
  BY <1>1, <1>2, <1>3 DEF Contract
<1>5. Grows
  BY <1>1, <1>3, <1>4 DEF Grows, Exists, Ready
<1>6. OneInstance' /\ AttemptsInOrder'
  BY <1>4, SameArtifacts
<1>7. HoldersUsable'
  <2>1. \A a \in IDs : ledger'[a].init = ledger[a].init
    BY <1>4
  <2>2. QED
    BY <2>1, <1>5, SameHolders
<1>8. ASSUME NEW c, NEW t, NEW q, NEW a, c = req[p].c, t = Current(p), q = req[p].q, a = x
      PROVE  Usable(c, t, q, a)'
  BY <1>1, <1>3, <1>4, <1>8 DEF Usable, Exists, Ready, Belongs
<1>9. QED
  BY <1>4, <1>5, <1>6, <1>7, <1>8 DEF LedgerOK, x

\* Handing an MCM over to the timelock leaves it initialized.
LEMMA TransferOwnershipOK ==
    ASSUME IInv, NEW k \in Keys, TransferOwnership(k)
    PROVE  Grows /\ LedgerOK'
<1> DEFINE x == ds[k]
<1>1. x \in IDs /\ ledger[x].owner = Deployer /\ ledger \in [IDs -> Contract] /\ LedgerOK
  BY DEF TransferOwnership, IInv, TypeOK, LedgerOK
<1>2. ledger' = [ledger EXCEPT ![x].owner = Governance]
  BY DEF TransferOwnership
<1> HIDE DEF x
<1>3. /\ ledger' \in [IDs -> Contract]
      /\ \A a \in IDs \ {x} : ledger'[a] = ledger[a]
      /\ ledger'[x].wasm = ledger[x].wasm /\ ledger'[x].owner = Governance
      /\ ledger'[x].init = ledger[x].init /\ ledger'[x].cfg = ledger[x].cfg
  BY <1>1, <1>2 DEF Contract
<1>4. Governance # NoOwner
  BY SentinelAssumption
<1>5. Grows
  BY <1>1, <1>3, <1>4 DEF Grows, Exists, Ready
<1>6. OneInstance' /\ AttemptsInOrder'
  BY <1>1, <1>3, SameArtifacts
<1>7. HoldersUsable'
  <2>1. \A a \in IDs : ledger'[a].init = ledger[a].init
    BY <1>3
  <2>2. QED
    BY <2>1, <1>1, <1>5, SameHolders
<1>8. QED
  BY <1>3, <1>5, <1>6, <1>7 DEF LedgerOK

----------------------------------------------------------------------------
(* What happens to the runs *)

Stages == {"idle", "ensure", "deploy", "inspect", "initialize", "config", "set", "finish", "record"}
Working == {"deploy", "inspect", "initialize", "config", "set"}
LocalsType ==
    /\ pc \in [Procs -> Stages]
    /\ req \in [Procs -> Inputs \cup {NoRun}] /\ rel \in [Procs -> Releases \cup {NoRun}]
    /\ env \in [Procs -> [Keys -> IDs \cup {NoID}]]
    /\ have \in [Procs -> [Types -> IDs \cup {NoID}]]
    /\ id \in [Procs -> IDs \cup {NoID}]
    /\ owner \in [Procs -> {Deployer, Governance, NoOwner}]
Bookkeeping(p) ==
    /\ pc[p] # "idle" => req[p] \in Inputs /\ rel[p] \in Releases
    /\ pc[p] \in Working <=> id[p] # NoID
    /\ pc[p] \in Working \cup {"ensure"} => Missing(have[p]) # {}
ReportsType ==
    reports \in [Procs -> [seq: SUBSET [k: Inputs, out: [Types -> IDs \cup {NoID}]],
                           op: SUBSET [k: OpKeys, out: IDs]]]

\* The parts of the type invariant.
LEMMA TypeParts ==
    TypeOK <=> /\ ledger \in [IDs -> Contract] /\ ds \in [Keys -> IDs \cup {NoID}]
               /\ ReportsType /\ LocalsType /\ faults \in 0..MaxFaults
               /\ \A p \in Procs : Bookkeeping(p)
BY DEF TypeOK, ReportsType, LocalsType, Stages, Working, Bookkeeping

\* A step keeps every ref.
DsGrows ==
    /\ ds' \in [Keys -> IDs \cup {NoID}]
    /\ \A k \in Keys : ds[k] # NoID => ds'[k] # NoID

\* A step of p leaves the other runs where they are.
Others(p) ==
    \A x \in Procs \ {p} :
       /\ pc'[x] = pc[x] /\ req'[x] = req[x] /\ rel'[x] = rel[x] /\ env'[x] = env[x]
       /\ have'[x] = have[x] /\ id'[x] = id[x] /\ owner'[x] = owner[x]

\* The key of a type of an input.
LEMMA KeyType ==
    ASSUME NEW i \in Inputs, NEW t \in Types
    PROVE  <<i.c, t, i.q>> \in Keys
BY InputType DEF Keys

\* What a report or a run has collected stays complete.
LEMMA CompleteKept ==
    ASSUME Grows, DsGrows, NEW i \in Inputs, NEW out, Complete(i, out)
    PROVE  Complete(i, out)'
BY KeyType, UsableKept DEF Complete, DsGrows

\* What a run knows of its contracts stays true while it does nothing.
LEMMA RunKept ==
    ASSUME NEW x, RunUsable(x), Bookkeeping(x), Grows, DsGrows,
           pc'[x] = pc[x], req'[x] = req[x], rel'[x] = rel[x], have'[x] = have[x], id'[x] = id[x]
    PROVE  RunUsable(x)' /\ Bookkeeping(x)'
<1>1. Current(x)' = Current(x)
  BY DEF Current
<1>2. \A t \in Types : have'[x][t] # NoID => Usable(req[x].c, t, req[x].q, have[x][t])
  BY DEF RunUsable
<1>3. ASSUME NEW t \in Types, have'[x][t] # NoID
      PROVE  Usable(req[x].c, t, req[x].q, have[x][t])'
  <2>1. ASSUME NEW c, NEW q, NEW a, Usable(c, t, q, a) PROVE Usable(c, t, q, a)'
    BY <2>1, UsableKept
  <2>2. QED
    BY <1>2, <1>3, <2>1 DEF Usable
<1>4. pc[x] = "record" => Complete(req[x], have[x])'
  <2>1. ASSUME NEW i \in Inputs, NEW out, Complete(i, out) PROVE Complete(i, out)'
    BY <2>1, CompleteKept
  <2>2. pc[x] = "record" => req[x] \in Inputs /\ Complete(req[x], have[x])
    BY DEF RunUsable, Bookkeeping
  <2>3. QED
    BY <2>1, <2>2 DEF Complete, Usable
<1>5. pc[x] = "deploy" => Skipped(x)'
  <2> SUFFICES ASSUME Skipped(x) PROVE Skipped(x)'
    BY DEF RunUsable
  <2>1. \A a \in IDs : ledger[a].wasm # NoWasm => ledger'[a].wasm = ledger[a].wasm
    BY DEF Grows, Exists
  <2>2. QED
    BY <2>1, <1>1 DEF Skipped, Belongs
<1>6. id[x] # NoID => Belongs(req[x].c, Current(x), req[x].q, id[x])
  BY DEF RunUsable
<1>7. pc[x] \in Working => id[x] \in IDs
  BY <1>6 DEF Bookkeeping, Belongs
<1>8. pc[x] \in {"inspect", "initialize", "config", "set"} => Exists(id[x])'
  BY <1>7 DEF RunUsable, Exists, Grows, Working
<1>9. pc[x] \in {"config", "set"} => Current(x)' # "Timelock" /\ ledger'[id[x]].owner # NoOwner
  BY <1>7, <1>1 DEF RunUsable, Grows, Working
<1>10. Bookkeeping(x)'
  BY DEF Bookkeeping, Missing
<1>11. QED
  BY <1>1, <1>3, <1>4, <1>5, <1>6, <1>8, <1>9, <1>10 DEF RunUsable, Missing, Belongs

\* Refs, recorded or loaded, stay usable while the datastore is left alone.
LEMMA RefsKept ==
    ASSUME RefsUsable, Grows, UNCHANGED ds,
           \A x \in Procs, k \in Keys : env'[x][k] \in {NoID, env[x][k], ds[k]}
    PROVE  RefsUsable'
<1>1. ASSUME NEW k \in Keys, NEW a, Usable(k[1], k[2], k[3], a)
      PROVE  Usable(k[1], k[2], k[3], a)'
  BY <1>1, UsableKept
<1>2. \A k \in Keys : ds'[k] # NoID => Usable(k[1], k[2], k[3], ds[k])'
  BY <1>1 DEF RefsUsable, Usable
<1>3. ASSUME NEW x \in Procs, NEW k \in Keys, env'[x][k] # NoID
      PROVE  ds'[k] # NoID /\ Usable(k[1], k[2], k[3], env[x][k])'
  <2>1. CASE env'[x][k] = ds[k]
    BY <2>1, <1>2, <1>3 DEF Usable
  <2>2. CASE env'[x][k] = env[x][k]
    BY <2>2, <1>1, <1>3 DEF RefsUsable, Usable
  <2>3. QED
    BY <2>1, <2>2, <1>3
<1>4. QED
  BY <1>2, <1>3 DEF RefsUsable, Usable

\* Reports stay usable while a step adds usable ones only.
LEMMA ReportsKept ==
    ASSUME ReportsType, ReportsUsable, Grows, DsGrows, NEW p \in Procs, NEW S, NEW T,
           reports' = [reports EXCEPT ![p] = [seq |-> S, op |-> T]],
           \A r \in S : r \in reports[p].seq
                        \/ (r \in [k: Inputs, out: [Types -> IDs \cup {NoID}]] /\ Complete(r.k, r.out)'),
           \A r \in T : r \in reports[p].op
                        \/ (r \in [k: OpKeys, out: IDs] /\ Usable(r.k.c, r.k.t, r.k.q, r.out)')
    PROVE  ReportsType' /\ ReportsUsable'
<1>1. \A x \in Procs : /\ reports[x].seq \in SUBSET [k: Inputs, out: [Types -> IDs \cup {NoID}]]
                       /\ reports[x].op \in SUBSET [k: OpKeys, out: IDs]
  BY DEF ReportsType
<1>2. /\ reports'[p].seq = S /\ reports'[p].op = T
      /\ \A x \in Procs \ {p} : reports'[x] = reports[x]
  BY DEF ReportsType
<1>3. ReportsType'
  BY <1>1 DEF ReportsType
<1>4. ASSUME NEW x \in Procs, NEW r \in reports[x].op PROVE Usable(r.k.c, r.k.t, r.k.q, r.out)'
  BY UsableKept DEF ReportsUsable
<1>5. ASSUME NEW x \in Procs, NEW r \in reports[x].seq PROVE Complete(r.k, r.out)'
  <2>1. r.k \in Inputs /\ Complete(r.k, r.out)
    BY <1>1 DEF ReportsUsable
  <2>2. QED
    BY <2>1, CompleteKept
<1>6. ReportsUsable'
  BY <1>2, <1>4, <1>5 DEF ReportsUsable
<1>7. QED
  BY <1>3, <1>6

\* A step that adds no report.
LEMMA ReportsSame ==
    ASSUME IInv, Grows, DsGrows, UNCHANGED reports
    PROVE  ReportsType' /\ ReportsUsable'
<1>1. ReportsType /\ ReportsUsable
  BY TypeParts DEF IInv
<1>2. ASSUME NEW x \in Procs, NEW r \in reports[x].op PROVE Usable(r.k.c, r.k.t, r.k.q, r.out)'
  BY <1>1, UsableKept DEF ReportsUsable
<1>3. ASSUME NEW x \in Procs, NEW r \in reports[x].seq PROVE Complete(r.k, r.out)'
  <2>1. r.k \in Inputs /\ Complete(r.k, r.out)
    BY <1>1 DEF ReportsUsable, ReportsType
  <2>2. QED
    BY <2>1, CompleteKept
<1>4. QED
  BY <1>1, <1>2, <1>3 DEF ReportsType, ReportsUsable

\* What a step of p must establish: nothing about the other runs.
StepOK(p) ==
    /\ Grows /\ LedgerOK' /\ DsGrows /\ Others(p)
    /\ LocalsType' /\ ReportsType' /\ faults' \in 0..MaxFaults
    /\ RefsUsable' /\ ReportsUsable'
    /\ Bookkeeping(p)' /\ RunUsable(p)'

\* What a step of one process keeps, with what it leaves to the others, is the
\* invariant.
LEMMA Assemble ==
    ASSUME IInv, NEW p \in Procs, StepOK(p)
    PROVE  IInv'
<1>1. \A x \in Procs : Bookkeeping(x) /\ RunUsable(x)
  BY TypeParts DEF IInv
<1>2. ASSUME NEW x \in Procs PROVE RunUsable(x)' /\ Bookkeeping(x)'
  <2>1. CASE x = p
    BY <2>1 DEF StepOK
  <2>2. CASE x # p
    <3>1. /\ pc'[x] = pc[x] /\ req'[x] = req[x] /\ rel'[x] = rel[x]
          /\ have'[x] = have[x] /\ id'[x] = id[x]
      BY <2>2 DEF StepOK, Others
    <3>2. QED
      BY <3>1, <1>1, RunKept DEF StepOK
  <2>3. QED
    BY <2>1, <2>2
<1>3. (ledger \in [IDs -> Contract])' /\ (ds \in [Keys -> IDs \cup {NoID}])'
  BY DEF StepOK, Grows, DsGrows
<1>4. TypeOK'
  BY <1>2, <1>3, TypeParts DEF StepOK, TypeOK, ReportsType, LocalsType, Stages, Working, Bookkeeping
<1>5. QED
  BY <1>2, <1>4 DEF IInv, StepOK, LedgerOK

\* The state of a run that works on a contract.
LEMMA WorkingFacts ==
    ASSUME IInv, NEW p \in Procs, pc[p] \in Working \cup {"ensure"}
    PROVE  /\ req[p] \in Inputs /\ rel[p] \in Releases
           /\ have[p] \in [Types -> IDs \cup {NoID}] /\ Missing(have[p]) # {}
           /\ Current(p) \in Types /\ (Current(p) # "Timelock" => Current(p) \in MCMTypes)
           /\ Current(p) = "Timelock" =>
                \A t \in MCMTypes : have[p][t] \in IDs /\ Usable(req[p].c, t, req[p].q, have[p][t])
           /\ pc[p] \in Working => OnContract(p)
<1>1. /\ have[p] \in [Types -> IDs \cup {NoID}] /\ Missing(have[p]) # {}
      /\ req[p] \in Inputs /\ rel[p] \in Releases /\ (pc[p] \in Working => id[p] # NoID)
  BY TypeParts DEF IInv, LocalsType, Bookkeeping, Working
<1>2. RunUsable(p)
  BY DEF IInv
<1>3. /\ Current(p) \in Types /\ (Current(p) # "Timelock" => Current(p) \in MCMTypes)
      /\ Current(p) = "Timelock" => \A t \in MCMTypes : have[p][t] \in IDs
  BY <1>1, CurrentType
<1>4. Current(p) = "Timelock" => \A t \in MCMTypes : Usable(req[p].c, t, req[p].q, have[p][t])
  BY <1>2, <1>3, NoIDNew DEF RunUsable, Types
<1>5. QED
  BY <1>1, <1>2, <1>3, <1>4 DEF OnContract, RunUsable

\* The timelock is deployed with the MCMs collected so far.
LEMMA TimelockInputType ==
    ASSUME IInv, NEW p \in Procs, pc[p] \in Working \cup {"ensure"}, Current(p) = "Timelock"
    PROVE  TimelockInput(p) \in TimelockInit
BY WorkingFacts, InputType DEF TimelockInput, TimelockInit, MCMTypes

\* The key under which the running operation is reported.
LEMMA OpKeyType ==
    ASSUME IInv, NEW p \in Procs, pc[p] \in Working \cup {"ensure"}
    PROVE  /\ OpKey(p) \in OpKeys
           /\ OpKey(p).c = req[p].c /\ OpKey(p).t = Current(p) /\ OpKey(p).q = req[p].q
<1>1. req[p].c \in Chains /\ Current(p) \in Types /\ req[p].q \in Qualifiers
  BY WorkingFacts, InputType
<1>2. (IF Current(p) = "Timelock" THEN TimelockInput(p) ELSE req[p].cfg[Current(p)])
         \in TimelockInit \cup Configs
  BY WorkingFacts, TimelockInputType, InputType
<1>3. QED
  BY <1>1, <1>2 DEF OpKey, OpKeys

\* The locals of p that a step must leave sound.
LocalsOK(p) == Others(p) /\ LocalsType' /\ Bookkeeping(p)' /\ RunUsable(p)'

\* A run that ended knows nothing.
LEMMA ReturnOK ==
    ASSUME IInv, NEW p \in Procs, Return(p)
    PROVE  LocalsOK(p) /\ \A x \in Procs, k \in Keys : env'[x][k] \in {NoID, env[x][k], ds[k]}
<1>1. LocalsType
  BY TypeParts DEF IInv
<1>2. NoRefs \in [Keys -> IDs \cup {NoID}] /\ NoAddresses \in [Types -> IDs \cup {NoID}]
  BY DEF NoRefs, NoAddresses
<1>3. /\ pc'[p] = "idle" /\ env'[p] = NoRefs /\ have'[p] = NoAddresses /\ id'[p] = NoID
      /\ owner'[p] = NoOwner /\ req'[p] = NoRun /\ rel'[p] = NoRun /\ Others(p)
  BY <1>1 DEF Return, LocalsType, Others
<1>4. LocalsType'
  BY <1>1, <1>2 DEF Return, LocalsType, Stages
<1>5. Bookkeeping(p)'
  BY <1>3 DEF Bookkeeping, Working
<1>6. RunUsable(p)'
  BY <1>3 DEF RunUsable, NoAddresses
<1>7. \A x \in Procs, k \in Keys : env'[x][k] \in {NoID, env[x][k], ds[k]}
  BY <1>3 DEF Others, NoRefs
<1>8. QED
  BY <1>3, <1>4, <1>5, <1>6, <1>7 DEF LocalsOK

\* A step within an operation on a contract that is on the ledger.
LEMMA AdvanceOK ==
    ASSUME IInv, NEW p \in Procs, Grows, DsGrows, pc[p] \in Working,
           NEW l \in {"inspect", "initialize", "config", "set"}, Goto(p, l),
           UNCHANGED <<req, rel, env, have, id>>,
           owner' \in [Procs -> {Deployer, Governance, NoOwner}],
           \A x \in Procs \ {p} : owner'[x] = owner[x],
           ledger'[id[p]].wasm # NoWasm,
           l \in {"config", "set"} => Current(p) # "Timelock" /\ ledger'[id[p]].owner # NoOwner
    PROVE  LocalsOK(p)
<1>1. LocalsType /\ Bookkeeping(p) /\ RunUsable(p)
  BY TypeParts DEF IInv
<1>2. pc'[p] = l /\ \A x \in Procs \ {p} : pc'[x] = pc[x]
  BY <1>1 DEF Goto, LocalsType
<1>3. Others(p)
  BY <1>2 DEF Others
<1>4. LocalsType'
  BY <1>1 DEF Goto, LocalsType, Stages
<1>5. Bookkeeping(p)'
  BY <1>1, <1>2, WorkingFacts DEF Bookkeeping, Working, Missing
<1>6. Current(p)' = Current(p)
  BY DEF Current
<1>7. \A t \in Types : have'[p][t] # NoID => Usable(req[p].c, t, req[p].q, have[p][t])'
  <2>1. ASSUME NEW c, NEW t, NEW q, NEW a, Usable(c, t, q, a) PROVE Usable(c, t, q, a)'
    BY <2>1, UsableKept
  <2>2. \A t \in Types : have[p][t] # NoID => Usable(req[p].c, t, req[p].q, have[p][t])
    BY <1>1 DEF RunUsable
  <2>3. QED
    BY <2>1, <2>2 DEF Usable
<1>8. id'[p] # NoID => Belongs(req'[p].c, Current(p)', req'[p].q, id'[p])
  BY <1>1, <1>6 DEF RunUsable
<1>9. RunUsable(p)'
  BY <1>2, <1>6, <1>7, <1>8 DEF RunUsable, Exists, Belongs
<1>10. QED
  BY <1>3, <1>4, <1>5, <1>9 DEF LocalsOK

\* The operation returned a usable contract of the type it was to ensure.
LEMMA ObtainedOK ==
    ASSUME IInv, NEW p \in Procs, Grows, DsGrows, pc[p] \in Working \cup {"ensure"},
           NEW a \in IDs, Obtained(p, a),
           \A c, t, q : c = req[p].c /\ t = Current(p) /\ q = req[p].q => Usable(c, t, q, a)'
    PROVE  LocalsOK(p) /\ UNCHANGED env
<1>1. LocalsType /\ RunUsable(p)
  BY TypeParts DEF IInv
<1>2. /\ req[p] \in Inputs /\ rel[p] \in Releases
      /\ have[p] \in [Types -> IDs \cup {NoID}] /\ Current(p) \in Types
  BY WorkingFacts
<1> DEFINE h == [have[p] EXCEPT ![Current(p)] = a]
<1>3. have' = [have EXCEPT ![p] = h] /\ h \in [Types -> IDs \cup {NoID}]
  BY <1>1, <1>2 DEF Obtained, LocalsType
<1>4. \A t \in Types : h[t] = IF t = Current(p) THEN a ELSE have[p][t]
  BY <1>2
<1> HIDE DEF h
<1>5. have'[p] = h
  BY <1>1, <1>3 DEF LocalsType
<1>6. pc' = [pc EXCEPT ![p] = NextStage(h)] /\ NextStage(h) \in {"ensure", "finish"}
      /\ (NextStage(h) = "ensure" <=> Missing(h) # {})
  BY <1>5, StageType DEF Obtained, Goto
<1>7. id' = [id EXCEPT ![p] = NoID] /\ owner' = [owner EXCEPT ![p] = NoOwner]
      /\ UNCHANGED <<req, rel, env>>
  BY DEF Obtained
<1>8. pc'[p] = NextStage(h) /\ id'[p] = NoID
  BY <1>1, <1>6, <1>7 DEF LocalsType
<1>9. LocalsType'
  BY <1>1, <1>3, <1>6, <1>7 DEF LocalsType, Stages
<1>10. Others(p)
  BY <1>1, <1>3, <1>6, <1>7 DEF Others, LocalsType
<1>11. Bookkeeping(p)'
  BY <1>2, <1>5, <1>6, <1>7, <1>8 DEF Bookkeeping, Working, Missing
<1>12. ASSUME NEW c, NEW t \in Types, NEW q, NEW b, c = req[p].c, q = req[p].q, b = h[t], b # NoID
       PROVE  Usable(c, t, q, b)'
  <2>1. CASE t = Current(p)
    BY <2>1, <1>4, <1>12
  <2>2. CASE t # Current(p)
    <3>1. Usable(c, t, q, b)
      BY <2>2, <1>1, <1>4, <1>12 DEF RunUsable
    <3>2. QED
      BY <3>1, UsableKept
  <2>3. QED
    BY <2>1, <2>2
<1>13. RunUsable(p)'
  BY <1>5, <1>6, <1>7, <1>8, <1>12 DEF RunUsable, Usable, Missing
<1>14. QED
  BY <1>7, <1>9, <1>10, <1>11, <1>13 DEF LocalsOK

----------------------------------------------------------------------------
(* The steps of a run *)

\* The parts of the invariant a step starts from.
LEMMA InvParts ==
    ASSUME IInv
    PROVE  /\ LedgerOK /\ RefsUsable /\ ReportsType /\ ReportsUsable /\ LocalsType
           /\ faults \in 0..MaxFaults /\ ds \in [Keys -> IDs \cup {NoID}]
           /\ \A p \in Procs : Bookkeeping(p) /\ RunUsable(p)
BY TypeParts DEF IInv, LedgerOK

\* A step that leaves the datastore alone and adds no report.
LEMMA QuietOK ==
    ASSUME IInv, NEW p \in Procs, Grows, LedgerOK', UNCHANGED <<ds, reports>>, LocalsOK(p),
           faults' \in 0..MaxFaults,
           \A x \in Procs, k \in Keys : env'[x][k] \in {NoID, env[x][k], ds[k]}
    PROVE  IInv'
<1>1. DsGrows
  BY InvParts DEF DsGrows
<1>2. ReportsType' /\ ReportsUsable'
  BY <1>1, ReportsSame
<1>3. RefsUsable'
  BY InvParts, RefsKept
<1>4. QED
  BY <1>1, <1>2, <1>3, Assemble DEF StepOK, LocalsOK

\* A run ends, whatever it wrote to the ledger.
LEMMA EndOK ==
    ASSUME IInv, NEW p \in Procs, Grows, LedgerOK', UNCHANGED <<ds, reports>>, Return(p),
           faults' \in 0..MaxFaults
    PROVE  IInv'
BY ReturnOK, QuietOK

\* Adding reports of one kind leaves those of the other kind.
LEMMA AddReports ==
    ASSUME ReportsType, NEW p \in Procs, NEW S
    PROVE  /\ [reports EXCEPT ![p].op = S] = [reports EXCEPT ![p] = [seq |-> reports[p].seq, op |-> S]]
           /\ [reports EXCEPT ![p].seq = S] = [reports EXCEPT ![p] = [seq |-> S, op |-> reports[p].op]]
<1> DEFINE A == [k: Inputs, out: [Types -> IDs \cup {NoID}]]
           B == [k: OpKeys, out: IDs]
<1>1. reports \in [Procs -> [seq: SUBSET A, op: SUBSET B]]
  BY DEF ReportsType
<1> HIDE DEF A, B
<1>2. ASSUME NEW z \in [seq: SUBSET A, op: SUBSET B]
      PROVE  /\ [z EXCEPT !.op = S] = [seq |-> z.seq, op |-> S]
             /\ [z EXCEPT !.seq = S] = [seq |-> S, op |-> z.op]
  OBVIOUS
<1>3. reports[p] \in [seq: SUBSET A, op: SUBSET B]
  BY <1>1
<1>4. QED
  BY <1>2, <1>3

\* An operation succeeds with the contract it works on.
LEMMA SucceedOK ==
    ASSUME IInv, NEW p \in Procs, Grows, LedgerOK', UNCHANGED <<ds, faults>>,
           pc[p] \in Working, Succeed(p),
           \A c, t, q, a : c = req[p].c /\ t = Current(p) /\ q = req[p].q /\ a = id[p] =>
              Usable(c, t, q, a)'
    PROVE  IInv'
<1>1. DsGrows
  BY InvParts DEF DsGrows
<1>2. OnContract(p) /\ id[p] \in IDs
  BY WorkingFacts DEF OnContract, Belongs
<1>3. LocalsOK(p) /\ UNCHANGED env
  BY <1>1, <1>2, ObtainedOK DEF Succeed
<1> DEFINE r == [k |-> OpKey(p), out |-> id[p]]
           T == reports[p].op \cup {r}
<1>4. /\ r \in [k: OpKeys, out: IDs] /\ r.out = id[p]
      /\ r.k.c = req[p].c /\ r.k.t = Current(p) /\ r.k.q = req[p].q
  BY <1>2, OpKeyType
<1>5. ReportsType /\ ReportsUsable
  BY InvParts
<1>6. reports' = [reports EXCEPT ![p] = [seq |-> reports[p].seq, op |-> T]]
  <2>1. reports' = [reports EXCEPT ![p].op = T]
    BY DEF Succeed
  <2> HIDE DEF T
  <2>2. QED
    BY <2>1, <1>5, AddReports
<1>7. ASSUME NEW s \in T
      PROVE  s \in reports[p].op \/ (s \in [k: OpKeys, out: IDs] /\ Usable(s.k.c, s.k.t, s.k.q, s.out)')
  <2>1. CASE s = r
    <3>1. s \in [k: OpKeys, out: IDs]
      BY <1>4, <2>1
    <3>2. s.k.c = req[p].c /\ s.k.t = Current(p) /\ s.k.q = req[p].q /\ s.out = id[p]
      BY <1>4, <2>1
    <3>3. Usable(s.k.c, s.k.t, s.k.q, s.out)'
      BY <3>2
    <3>4. QED
      BY <3>1, <3>3
  <2>2. QED
    BY <2>1
<1> HIDE DEF T
<1>8. ReportsType' /\ ReportsUsable'
  BY <1>1, <1>5, <1>6, <1>7, ReportsKept
<1>9. RefsUsable'
  BY <1>3, InvParts, RefsKept
<1>10. faults' \in 0..MaxFaults
  BY InvParts
<1>11. QED
  BY <1>1, <1>3, <1>8, <1>9, <1>10, Assemble DEF StepOK, LocalsOK

\* ensureMCM or ensureTimelock reuses the report of an earlier success.
LEMMA ReuseOperationOK ==
    ASSUME IInv, NEW p \in Procs, ReuseOperation(p)
    PROVE  IInv'
<1> DEFINE a == OutputOf(reports[p].op, OpKey(p))
<1>1. pc[p] \in Working \cup {"ensure"} /\ Obtained(p, a) /\ UNCHANGED <<ledger, ds, reports, faults>>
  BY DEF ReuseOperation
<1>2. Grows /\ LedgerOK' /\ DsGrows
  BY <1>1, InvParts, LedgerSame DEF DsGrows
<1>3. PICK r \in reports[p].op : r.k = OpKey(p) /\ a = r.out
  <2>1. \E r \in reports[p].op : r.k = OpKey(p)
    BY DEF ReuseOperation, CanReuse, Reusable
  <2>2. QED
    BY <2>1 DEF OutputOf
<1>4. r \in [k: OpKeys, out: IDs] /\ Usable(r.k.c, r.k.t, r.k.q, r.out)
  BY InvParts DEF ReportsType, ReportsUsable
<1>5. a \in IDs
  BY <1>3, <1>4
<1>6. ASSUME NEW c, NEW t, NEW q, c = req[p].c, t = Current(p), q = req[p].q
      PROVE  Usable(c, t, q, a)
  BY <1>1, <1>3, <1>4, <1>6, OpKeyType
<1> HIDE DEF a
<1>7. \A c, t, q, b : c = req[p].c /\ t = Current(p) /\ q = req[p].q /\ b = a => Usable(c, t, q, b)'
  BY <1>2, <1>6, UsableKept
<1>8. PICK b \in IDs : b = a
  BY <1>5
<1>9. LocalsOK(p) /\ UNCHANGED env
  BY <1>1, <1>2, <1>7, <1>8, ObtainedOK
<1>10. faults' \in 0..MaxFaults
  BY <1>1, InvParts
<1>11. QED
  BY <1>1, <1>2, <1>9, <1>10, QuietOK

\* resolveDeploymentIdentity picks the first attempt that is free or holds the
\* run's artifact.
LEMMA ResolveOK ==
    ASSUME IInv, NEW p \in Procs, resolveDeploymentIdentity(p)
    PROVE  IInv'
<1> DEFINE t == Current(p)
           w == WasmHash(rel[p], t)
           C == Candidates(req[p].c, t, req[p].q, w)
           n == FirstOf(C)
           a == ContractID(req[p].c, t, req[p].q, n)
           l == IF ledger[a].wasm = NoWasm THEN "deploy" ELSE "inspect"
<1>1. pc[p] = "ensure" /\ UNCHANGED <<ledger, ds, reports, faults>>
  BY DEF resolveDeploymentIdentity
<1>2. Grows /\ LedgerOK' /\ DsGrows /\ faults' \in 0..MaxFaults
  BY <1>1, InvParts, LedgerSame DEF DsGrows
<1>3. CASE Return(p)
  BY <1>1, <1>2, <1>3, EndOK
<1>4. CASE /\ C # {} /\ id' = [id EXCEPT ![p] = a] /\ pc' = [pc EXCEPT ![p] = l]
           /\ UNCHANGED <<req, rel, env, have, owner>>
  <2>1. /\ req[p].c \in Chains /\ t \in Types /\ req[p].q \in Qualifiers /\ rel[p] \in Releases
        /\ Missing(have[p]) # {} /\ req[p] \in Inputs
    BY <1>1, WorkingFacts, InputType
  <2>2. n \in C /\ \A m \in C : n <= m
    <3>1. C \subseteq Nat
      BY AttemptsAssumption DEF Candidates, Attempts
    <3>2. \E x \in C : \A m \in C : x <= m
      BY <1>4, <3>1, LeastNat
    <3> HIDE DEF C
    <3>3. QED
      BY <3>2 DEF FirstOf
  <2>3. n \in Attempts /\ ledger[a].wasm \in {NoWasm, w}
    BY <2>2 DEF Candidates
  <2> HIDE DEF n
  <2>4. Belongs(req[p].c, t, req[p].q, a) /\ a[4] = n /\ a \in IDs
    BY <2>1, <2>3, ContractIDType DEF Belongs
  <2>5. ASSUME NEW b \in IDs, Belongs(req[p].c, t, req[p].q, b), b[4] < n
        PROVE  ledger[b].wasm \notin {NoWasm, w}
    <3>1. b = ContractID(req[p].c, t, req[p].q, b[4]) /\ b[4] \in Attempts
      BY <2>5 DEF Belongs, IDs, ContractID, computeContractID, deriveDeploymentSalt
    <3>2. n \in Int /\ b[4] \in Int
      BY <2>3, <3>1, AttemptsAssumption DEF Attempts
    <3>3. b[4] \notin C
      BY <2>2, <2>5, <3>2
    <3>4. QED
      BY <3>1, <3>3 DEF Candidates
  <2> HIDE DEF a, C
  <2>6. LocalsType /\ RunUsable(p)
    BY InvParts
  <2>7. id'[p] = a /\ pc'[p] = l /\ l \in {"deploy", "inspect"} /\ Others(p)
    BY <1>4, <2>6 DEF LocalsType, Others
  <2>8. LocalsType'
    BY <1>4, <2>4, <2>6 DEF LocalsType, Stages
  <2>9. a # NoID
    BY <2>4, NoIDNew
  <2>10. Bookkeeping(p)'
    BY <1>4, <2>1, <2>7, <2>9 DEF Bookkeeping, Working, Missing
  <2>11. Current(p)' = Current(p)
    BY <1>4 DEF Current
  <2>12. pc'[p] = "deploy" => Skipped(p)'
    BY <1>1, <1>4, <2>4, <2>5, <2>7, <2>11 DEF Skipped, Belongs
  <2>13. pc'[p] = "inspect" => ledger'[a].wasm # NoWasm
    BY <1>1, <2>7
  <2>14. \A s \in Types : have'[p][s] # NoID => Usable(req[p].c, s, req[p].q, have[p][s])'
    <3>1. ASSUME NEW c, NEW s, NEW q, NEW b, Usable(c, s, q, b) PROVE Usable(c, s, q, b)'
      BY <1>2, <3>1, UsableKept
    <3>2. QED
      BY <1>4, <2>6, <3>1 DEF RunUsable, Usable
  <2>15. RunUsable(p)'
    BY <1>4, <2>4, <2>7, <2>11, <2>12, <2>13, <2>14 DEF RunUsable, Exists, Usable, Belongs
  <2>16. \A x \in Procs, k \in Keys : env'[x][k] \in {NoID, env[x][k], ds[k]}
    BY <1>4
  <2>17. QED
    BY <1>1, <1>2, <2>7, <2>8, <2>10, <2>15, <2>16, QuietOK DEF LocalsOK
<1>5. QED
  BY <1>3, <1>4 DEF resolveDeploymentIdentity, Goto

\* A counted fault stays within the bound.
LEMMA CountFaultOK ==
    ASSUME IInv, CountFault
    PROVE  faults' \in 0..MaxFaults
BY InvParts, AttemptsAssumption DEF CountFault

\* The contract a run works on, once it is created.
LEMMA WorkingExists ==
    ASSUME IInv, NEW p \in Procs, pc[p] \in {"inspect", "initialize", "config", "set"}
    PROVE  /\ OnContract(p) /\ Exists(id[p]) /\ id[p] \in IDs
           /\ pc[p] \in {"config", "set"} => Current(p) # "Timelock" /\ ledger[id[p]].owner # NoOwner
BY InvParts, WorkingFacts DEF RunUsable, Working, OnContract, Belongs

\* The create transaction, whether its result arrives or not.
LEMMA DeployOK ==
    ASSUME IInv, NEW p \in Procs, DeployContractBytes(p) \/ LoseDeploy(p)
    PROVE  IInv'
<1>1. pc[p] = "deploy" /\ UNCHANGED <<ds, reports>> /\ faults' \in 0..MaxFaults
  BY InvParts, CountFaultOK DEF DeployContractBytes, LoseDeploy
<1>2. OnContract(p) /\ Skipped(p) /\ LedgerOK
  BY <1>1, InvParts, WorkingFacts DEF RunUsable, Working
<1>3. CASE UNCHANGED ledger /\ Return(p)
  BY <1>1, <1>2, <1>3, LedgerSame, EndOK
<1>4. CASE ~Exists(id[p]) /\ ledger' = Deployed(p)
  <2>1. Grows /\ LedgerOK' /\ ledger'[id[p]].wasm # NoWasm /\ DsGrows
    BY <1>1, <1>2, <1>4, DeployedOK, InvParts DEF DsGrows
  <2>2. CASE Return(p)
    BY <1>1, <2>1, <2>2, EndOK
  <2>3. CASE DeployContractBytes(p) /\ ~Return(p)
    <3> DEFINE l == IF Current(p) = "Timelock" THEN "initialize" ELSE "inspect"
    <3>1. Goto(p, l) /\ UNCHANGED <<req, rel, env, have, id, owner>>
      BY <2>3, <1>4 DEF DeployContractBytes, Exists, locals
    <3>2. l \in {"inspect", "initialize"}
      OBVIOUS
    <3>3. owner' \in [Procs -> {Deployer, Governance, NoOwner}] /\ \A x \in Procs : owner'[x] = owner[x]
      BY <3>1, InvParts DEF LocalsType
    <3> HIDE DEF l
    <3>4. PICK m \in {"inspect", "initialize", "config", "set"} : m = l
      BY <3>2
    <3>5. LocalsOK(p)
      BY <1>1, <2>1, <3>1, <3>2, <3>3, <3>4, AdvanceOK DEF Working
    <3>6. QED
      BY <1>1, <2>1, <3>1, <3>5, QuietOK
  <2>4. QED
    BY <2>2, <2>3 DEF LoseDeploy
<1>5. QED
  BY <1>3, <1>4 DEF DeployContractBytes, LoseDeploy, Exists

\* GetOwner decides whether the MCM still has to be initialized.
LEMMA GetOwnerOK ==
    ASSUME IInv, NEW p \in Procs, GetOwner(p)
    PROVE  IInv'
<1> DEFINE l == IF owner'[p] = NoOwner THEN "initialize" ELSE "config"
<1>1. /\ pc[p] = "inspect" /\ Current(p) # "Timelock" /\ Goto(p, l)
      /\ owner' = [owner EXCEPT ![p] = ledger[id[p]].owner]
      /\ UNCHANGED <<ledger, ds, reports, req, rel, env, have, id, faults>>
  BY DEF GetOwner
<1>2. Grows /\ LedgerOK' /\ DsGrows /\ LocalsType /\ faults' \in 0..MaxFaults
  BY <1>1, InvParts, LedgerSame DEF DsGrows
<1>3. id[p] \in IDs /\ Exists(id[p])
  BY <1>1, WorkingExists
<1>4. ledger[id[p]].owner \in {Deployer, Governance, NoOwner}
  BY <1>3, InvParts DEF LedgerOK, Contract
<1>5. /\ owner' \in [Procs -> {Deployer, Governance, NoOwner}]
      /\ \A x \in Procs \ {p} : owner'[x] = owner[x]
      /\ owner'[p] = ledger[id[p]].owner
  BY <1>1, <1>2, <1>4 DEF LocalsType
<1>6. l \in {"initialize", "config"} /\ (l = "config" => ledger'[id[p]].owner # NoOwner)
  BY <1>1, <1>5
<1> HIDE DEF l
<1>7. PICK m \in {"inspect", "initialize", "config", "set"} : m = l
  BY <1>6
<1>8. LocalsOK(p)
  BY <1>1, <1>2, <1>3, <1>5, <1>6, <1>7, AdvanceOK DEF Working, Exists
<1>9. QED
  BY <1>1, <1>2, <1>8, QuietOK

\* A step that reads the ledger and goes on with the operation.
LEMMA ReadOnOK ==
    ASSUME IInv, NEW p \in Procs, pc[p] \in {"inspect", "config"}, NEW l \in {"initialize", "set"},
           Goto(p, l), UNCHANGED <<ledger, ds, reports, req, rel, locals, faults>>,
           l = "set" => pc[p] = "config"
    PROVE  IInv'
<1>1. UNCHANGED <<env, have, id, owner>>
  BY DEF locals
<1>2. Grows /\ LedgerOK' /\ DsGrows /\ faults' \in 0..MaxFaults
  BY InvParts, LedgerSame DEF DsGrows
<1>3. /\ Exists(id[p])
      /\ pc[p] = "config" => Current(p) # "Timelock" /\ ledger[id[p]].owner # NoOwner
  BY WorkingExists
<1>4. owner' \in [Procs -> {Deployer, Governance, NoOwner}] /\ \A x \in Procs : owner'[x] = owner[x]
  BY <1>1, InvParts DEF LocalsType
<1>5. PICK m \in {"inspect", "initialize", "config", "set"} : m = l
  OBVIOUS
<1>6. LocalsOK(p)
  BY <1>1, <1>2, <1>3, <1>4, <1>5, AdvanceOK DEF Working, Exists
<1>7. QED
  BY <1>1, <1>2, <1>6, QuietOK

\* An adopted contract that is initialized is returned as it is.
LEMMA AdoptOK ==
    ASSUME IInv, NEW p \in Procs, pc[p] \in {"inspect", "config"}, Ready(id[p]), Succeed(p),
           UNCHANGED <<ledger, ds, faults>>
    PROVE  IInv'
<1>1. Grows /\ LedgerOK'
  BY InvParts, LedgerSame
<1>2. OnContract(p) /\ Exists(id[p])
  BY WorkingExists
<1>3. ASSUME NEW c, NEW t, NEW q, NEW a, c = req[p].c, t = Current(p), q = req[p].q, a = id[p]
      PROVE  Usable(c, t, q, a)'
  <2>1. Usable(c, t, q, a)
    BY <1>2, <1>3 DEF OnContract, Usable
  <2>2. QED
    BY <1>1, <2>1, UsableKept
<1>4. QED
  BY <1>1, <1>3, SucceedOK DEF Working

\* IsInitialized adopts an initialized timelock.
LEMMA IsInitializedOK ==
    ASSUME IInv, NEW p \in Procs, IsInitialized(p)
    PROVE  IInv'
<1>1. pc[p] = "inspect" /\ Current(p) = "Timelock" /\ UNCHANGED <<ledger, ds, faults>>
  BY DEF IsInitialized
<1>2. CASE ledger[id[p]].init = NoInit
  BY <1>1, <1>2, ReadOnOK DEF IsInitialized
<1>3. CASE ledger[id[p]].init # NoInit
  <2>1. Ready(id[p])
    BY <1>1, <1>3, WorkingExists DEF OnContract, Belongs, Ready
  <2>2. QED
    BY <1>1, <1>3, <2>1, AdoptOK DEF IsInitialized
<1>4. QED
  BY <1>2, <1>3

\* GetConfig adopts an MCM with the run's config; another config is replaced or
\* refused.
LEMMA GetConfigOK ==
    ASSUME IInv, NEW p \in Procs, GetConfig(p)
    PROVE  IInv'
<1>1. pc[p] = "config" /\ UNCHANGED <<ledger, ds, faults>>
  BY DEF GetConfig
<1>2. OnContract(p) /\ Current(p) # "Timelock" /\ ledger[id[p]].owner # NoOwner
  BY <1>1, WorkingExists
<1> DEFINE A == ledger[id[p]].cfg = req[p].cfg[Current(p)]
           B == ledger[id[p]].cfg # req[p].cfg[Current(p)] /\ owner[p] # Deployer
<1>3. CASE A
  <2>1. Succeed(p)
    BY <1>3 DEF GetConfig
  <2>2. Ready(id[p])
    BY <1>2, <1>3, InputType DEF OnContract, Belongs, Ready
  <2>3. QED
    BY <1>1, <2>1, <2>2, AdoptOK
<1>4. CASE B
  <2>1. Return(p) /\ UNCHANGED reports
    BY <1>4 DEF GetConfig
  <2>2. QED
    BY <1>1, <2>1, InvParts, LedgerSame, EndOK
<1>5. CASE ~A /\ ~B
  <2>1. Goto(p, "set") /\ UNCHANGED <<reports, req, rel, locals>>
    BY <1>5 DEF GetConfig
  <2>2. QED
    BY <1>1, <2>1, ReadOnOK
<1>6. QED
  BY <1>3, <1>4, <1>5

\* The initialize transaction, whether its result arrives or not.
LEMMA InitializeOK ==
    ASSUME IInv, NEW p \in Procs, Initialize(p) \/ LoseInitialize(p)
    PROVE  IInv'
<1>1. pc[p] = "initialize" /\ UNCHANGED ds /\ faults' \in 0..MaxFaults
  BY InvParts, CountFaultOK DEF Initialize, LoseInitialize
<1>2. OnContract(p) /\ Exists(id[p]) /\ LedgerOK
  BY <1>1, InvParts, WorkingExists
<1>3. CASE UNCHANGED <<ledger, reports>> /\ Return(p)
  BY <1>1, <1>2, <1>3, LedgerSame, EndOK
<1>4. CASE Uninitialized(p) /\ ledger' = Initialized(p)
  <2>1. Current(p) = "Timelock" =>
           /\ TimelockInput(p) \in TimelockInit
           /\ \A t \in MCMTypes : Usable(req[p].c, t, req[p].q, have[p][t])
    BY <1>1, WorkingFacts, TimelockInputType DEF Working
  <2>2. /\ Grows /\ LedgerOK'
        /\ \A c, t, q, a : c = req[p].c /\ t = Current(p) /\ q = req[p].q /\ a = id[p] =>
             Usable(c, t, q, a)'
    BY <1>2, <1>4, <2>1, InitializedOK, SentinelAssumption
  <2>3. CASE Succeed(p) /\ UNCHANGED faults
    BY <1>1, <2>2, <2>3, SucceedOK DEF Working
  <2>4. CASE Return(p) /\ UNCHANGED reports
    BY <1>1, <2>2, <2>4, EndOK
  <2>5. QED
    BY <1>4, <2>3, <2>4 DEF Initialize, LoseInitialize
<1>5. QED
  BY <1>3, <1>4 DEF Initialize, LoseInitialize

\* The set_config transaction, whether its result arrives or not.
LEMMA SetConfigOK ==
    ASSUME IInv, NEW p \in Procs, SetConfig(p) \/ LoseSetConfig(p)
    PROVE  IInv'
<1>1. pc[p] = "set" /\ UNCHANGED ds /\ faults' \in 0..MaxFaults
  BY InvParts, CountFaultOK DEF SetConfig, LoseSetConfig
<1>2. /\ OnContract(p) /\ Exists(id[p]) /\ LedgerOK
      /\ Current(p) # "Timelock" /\ ledger[id[p]].owner # NoOwner
  BY <1>1, InvParts, WorkingExists
<1>3. CASE UNCHANGED <<ledger, reports>> /\ Return(p)
  BY <1>1, <1>2, <1>3, LedgerSame, EndOK
<1>4. CASE ledger' = Configured(p)
  <2>1. /\ Grows /\ LedgerOK'
        /\ \A c, t, q, a : c = req[p].c /\ t = Current(p) /\ q = req[p].q /\ a = id[p] =>
             Usable(c, t, q, a)'
    BY <1>2, <1>4, ConfiguredOK
  <2>2. CASE Succeed(p) /\ UNCHANGED faults
    BY <1>1, <2>1, <2>2, SucceedOK DEF Working
  <2>3. CASE Return(p) /\ UNCHANGED reports
    BY <1>1, <2>1, <2>3, EndOK
  <2>4. QED
    BY <1>4, <2>2, <2>3 DEF SetConfig, LoseSetConfig
<1>5. QED
  BY <1>3, <1>4 DEF SetConfig, LoseSetConfig

\* A run with nothing missing has a contract of every type.
LEMMA NothingMissing ==
    ASSUME NEW h, Missing(h) = {}, NEW t \in Types
    PROVE  h[t] # NoID
<1>1. t = DeployOrder[1] \/ t = DeployOrder[2] \/ t = DeployOrder[3] \/ t = DeployOrder[4]
  BY DEF DeployOrder, Types, MCMTypes
<1>2. QED
  BY <1>1 DEF Missing

\* The sequence's output with the refs of the datastore covers every type.
LEMMA SequenceOK ==
    ASSUME IInv, NEW p \in Procs, Finish(p), validateDistinctMCMs(have[p])
    PROVE  IInv'
<1> DEFINE o == SequenceOutput(p)
           r == [k |-> req[p], out |-> o]
           S == reports[p].seq \cup {r}
<1>1. pc[p] = "finish" /\ UNCHANGED <<ledger, ds, req, rel, env, id, owner, faults>>
      /\ have' = [have EXCEPT ![p] = o] /\ pc' = [pc EXCEPT ![p] = "record"]
  BY DEF Finish, Goto
<1>2. /\ Grows /\ LedgerOK' /\ DsGrows /\ LocalsType /\ faults' \in 0..MaxFaults
      /\ RunUsable(p) /\ Bookkeeping(p) /\ RefsUsable /\ ReportsType /\ ReportsUsable
  BY <1>1, InvParts, LedgerSame DEF DsGrows
<1>3. req[p] \in Inputs /\ rel[p] \in Releases /\ id[p] = NoID /\ Missing(have[p]) = {}
  BY <1>1, <1>2 DEF RunUsable, Bookkeeping, Working
<1>4. have[p] \in [Types -> IDs \cup {NoID}]
  BY <1>2 DEF LocalsType
<1>5. o \in [Types -> IDs \cup {NoID}]
  BY <1>4 DEF SequenceOutput
<1>6. ASSUME NEW t \in Types
      PROVE  IF o[t] # NoID THEN Usable(req[p].c, t, req[p].q, o[t]) ELSE ds[<<req[p].c, t, req[p].q>>] # NoID
  <2>1. CASE t \in Discovered(p)
    BY <2>1, <1>2 DEF SequenceOutput, RunUsable, Discovered
  <2>2. CASE t \notin Discovered(p)
    <3>1. env[p][<<req[p].c, t, req[p].q>>] # NoID
      BY <2>2, <1>3, NothingMissing DEF Discovered
    <3>2. ds[<<req[p].c, t, req[p].q>>] # NoID
      BY <3>1, <1>2, <1>3, KeyType DEF RefsUsable
    <3>3. QED
      BY <2>2, <3>2 DEF SequenceOutput
  <2>3. QED
    BY <2>1, <2>2
<1> HIDE DEF o
<1>7. ASSUME NEW i, NEW h, i = req[p], h = o PROVE Complete(i, h)'
  <2>1. Complete(i, h)
    BY <1>6, <1>7 DEF Complete
  <2>2. QED
    BY <2>1, <1>2, <1>3, <1>7, CompleteKept
<1>8. ASSUME NEW s \in S
      PROVE  s \in reports[p].seq
             \/ (s \in [k: Inputs, out: [Types -> IDs \cup {NoID}]] /\ Complete(s.k, s.out)')
  <2>1. CASE s = r
    <3>1. s \in [k: Inputs, out: [Types -> IDs \cup {NoID}]] /\ s.k = req[p] /\ s.out = o
      BY <2>1, <1>3, <1>5
    <3>2. Complete(s.k, s.out)'
      BY <3>1, <1>7
    <3>3. QED
      BY <3>1, <3>2
  <2>2. QED
    BY <2>1
<1>9. reports' = [reports EXCEPT ![p] = [seq |-> S, op |-> reports[p].op]]
  <2>1. reports' = [reports EXCEPT ![p].seq = S]
    BY DEF Finish, o
  <2> HIDE DEF S
  <2>2. QED
    BY <2>1, <1>2, AddReports
<1> HIDE DEF S
<1>10. ReportsType' /\ ReportsUsable'
  BY <1>2, <1>8, <1>9, ReportsKept
<1>11. RefsUsable'
  BY <1>1, <1>2, RefsKept
<1>12. LocalsType' /\ Others(p)
  BY <1>1, <1>2, <1>5 DEF LocalsType, Stages, Others
<1>13. pc'[p] = "record" /\ have'[p] = o /\ id'[p] = NoID /\ req'[p] = req[p] /\ rel'[p] = rel[p]
  BY <1>1, <1>2, <1>3 DEF LocalsType
<1>14. Bookkeeping(p)'
  BY <1>3, <1>13 DEF Bookkeeping, Working
<1>15. Complete(req[p], have[p])'
  <2>1. \A i, h : i = req[p] /\ h = o => Complete(i, h)'
    BY <1>7
  <2>2. QED
    BY <2>1, <1>13 DEF Complete, Usable
<1>16. \A t \in Types : have'[p][t] # NoID => Usable(req[p].c, t, req[p].q, have[p][t])'
  BY <1>15 DEF Complete
<1>17. RunUsable(p)'
  BY <1>13, <1>15, <1>16 DEF RunUsable
<1>18. QED
  BY <1>2, <1>10, <1>11, <1>12, <1>14, <1>17, Assemble DEF StepOK

\* A finished sequence returns its output, or refuses MCMs that are not three.
LEMMA FinishOK ==
    ASSUME IInv, NEW p \in Procs, Finish(p)
    PROVE  IInv'
<1>1. CASE validateDistinctMCMs(have[p])
  BY <1>1, SequenceOK
<1>2. CASE ~validateDistinctMCMs(have[p])
  <2>1. Return(p) /\ UNCHANGED <<ledger, ds, reports, faults>>
    BY <1>2 DEF Finish
  <2>2. QED
    BY <2>1, InvParts, LedgerSame, EndOK
<1>3. QED
  BY <1>1, <1>2

\* Apply's merge keeps every recorded key recorded and writes usable contracts.
LEMMA RecordOK ==
    ASSUME IInv, NEW p \in Procs, Record(p)
    PROVE  IInv'
<1> DEFINE found(k) == k[1] = req[p].c /\ k[3] = req[p].q /\ have[p][k[2]] # NoID
<1>1. pc[p] = "record" /\ Return(p) /\ UNCHANGED <<ledger, reports, faults>>
      /\ ds' = [k \in Keys |-> IF found(k) THEN have[p][k[2]]
                               ELSE IF env[p][k] # NoID THEN env[p][k] ELSE ds[k]]
  BY DEF Record
<1>2. /\ Grows /\ LedgerOK' /\ LocalsType /\ faults' \in 0..MaxFaults
      /\ RunUsable(p) /\ Bookkeeping(p) /\ RefsUsable /\ ds \in [Keys -> IDs \cup {NoID}]
  BY <1>1, InvParts, LedgerSame
<1>3. req[p] \in Inputs /\ Complete(req[p], have[p])
  BY <1>1, <1>2 DEF RunUsable, Bookkeeping
<1>4. \A k \in Keys : k[1] \in Chains /\ k[2] \in Types /\ k[3] \in Qualifiers /\ k = <<k[1], k[2], k[3]>>
  BY DEF Keys
<1>5. \A k \in Keys : ds'[k] = IF found(k) THEN have[p][k[2]]
                               ELSE IF env[p][k] # NoID THEN env[p][k] ELSE ds[k]
  BY <1>1
<1>6. ASSUME NEW k \in Keys, ds'[k] # NoID
      PROVE  Usable(k[1], k[2], k[3], ds'[k]) /\ ds'[k] \in IDs
  <2>1. CASE found(k)
    BY <2>1, <1>2, <1>4, <1>5 DEF RunUsable, Usable, Belongs
  <2>2. CASE ~found(k)
    BY <2>2, <1>2, <1>5, <1>6 DEF RefsUsable, Usable, Belongs
  <2>3. QED
    BY <2>1, <2>2
<1>7. DsGrows
  <2>1. \A k \in Keys : ds'[k] \in IDs \cup {NoID}
    BY <1>6
  <2>2. ds' = [k \in Keys |-> ds'[k]]
    BY <1>1
  <2>3. \A k \in Keys : ds[k] # NoID => ds'[k] # NoID
    BY <1>5
  <2>4. QED
    BY <2>1, <2>2, <2>3 DEF DsGrows
<1>8. LocalsOK(p) /\ \A x \in Procs, k \in Keys : env'[x][k] \in {NoID, env[x][k]}
  <2>1. LocalsOK(p)
    BY <1>1, ReturnOK
  <2>2. env'[p] = NoRefs
    BY <1>1, <1>2 DEF Return, LocalsType
  <2>3. QED
    BY <2>1, <2>2 DEF LocalsOK, Others, NoRefs
<1>9. ASSUME NEW k \in Keys, NEW a, Usable(k[1], k[2], k[3], a)
      PROVE  Usable(k[1], k[2], k[3], a)'
  BY <1>2, <1>9, UsableKept
<1>10. ASSUME NEW c \in Chains, NEW q \in Qualifiers, ds'[<<c, "Timelock", q>>] # NoID
       PROVE  \A t \in MCMTypes : ds'[<<c, t, q>>] # NoID
  <2>1. \A t \in Types : <<c, t, q>> \in Keys
    BY DEF Keys
  <2>2. "Timelock" \in Types /\ MCMTypes \subseteq Types
    BY DEF Types
  <2>3. CASE ds[<<c, "Timelock", q>>] # NoID
    BY <2>1, <2>2, <2>3, <1>2, <1>7 DEF RefsUsable, DsGrows
  <2>4. CASE ds[<<c, "Timelock", q>>] = NoID
    <3>1. env[p][<<c, "Timelock", q>>] = NoID
      BY <2>1, <2>2, <2>4, <1>2 DEF RefsUsable
    <3>2. found(<<c, "Timelock", q>>)
      BY <2>1, <2>2, <2>4, <3>1, <1>5, <1>10
    <3>3. c = req[p].c /\ q = req[p].q
      BY <3>2
    <3>4. ASSUME NEW t \in MCMTypes PROVE ds'[<<c, t, q>>] # NoID
      <4>1. CASE have[p][t] # NoID
        <5>1. found(<<c, t, q>>)
          BY <4>1, <3>3
        <5>2. QED
          BY <4>1, <5>1, <2>1, <2>2, <1>5
      <4>2. CASE have[p][t] = NoID
        BY <4>2, <3>3, <2>1, <2>2, <1>3, <1>7 DEF Complete, DsGrows
      <4>3. QED
        BY <4>1, <4>2
    <3>5. QED
      BY <3>4
  <2>5. QED
    BY <2>3, <2>4
<1>11. RefsUsable'
  <2>1. \A k \in Keys : ds'[k] # NoID => Usable(k[1], k[2], k[3], ds[k])'
    BY <1>6, <1>9 DEF Usable
  <2>2. ASSUME NEW x \in Procs, NEW k \in Keys, env'[x][k] # NoID
        PROVE  ds'[k] # NoID /\ Usable(k[1], k[2], k[3], env[x][k])'
    <3>1. env'[x][k] = env[x][k]
      BY <2>2, <1>8
    <3>2. ds[k] # NoID /\ Usable(k[1], k[2], k[3], env[x][k])
      BY <3>1, <2>2, <1>2 DEF RefsUsable
    <3>3. QED
      BY <3>1, <3>2, <1>7, <1>9 DEF DsGrows, Usable
  <2>3. QED
    BY <2>1, <2>2, <1>10 DEF RefsUsable, Usable
<1>12. ReportsType' /\ ReportsUsable'
  BY <1>1, <1>2, <1>7, ReportsSame
<1>13. QED
  BY <1>2, <1>7, <1>8, <1>11, <1>12, Assemble DEF StepOK, LocalsOK

\* A run that fails or dies wrote nothing.
LEMMA FailOK ==
    ASSUME IInv, NEW p \in Procs, Fail(p)
    PROVE  IInv'
BY InvParts, LedgerSame, CountFaultOK, EndOK DEF Fail

\* A process that starts over has no reports.
LEMMA LoseReportsOK ==
    ASSUME IInv, NEW p \in Procs, LoseReports(p)
    PROVE  IInv'
<1>1. UNCHANGED <<ledger, ds, pc, req, rel, env, have, id, owner>> /\ faults' \in 0..MaxFaults
  BY CountFaultOK DEF LoseReports, locals
<1>2. /\ Grows /\ LedgerOK' /\ DsGrows /\ LocalsType /\ RefsUsable /\ ReportsType /\ ReportsUsable
      /\ RunUsable(p) /\ Bookkeeping(p)
  BY <1>1, InvParts, LedgerSame DEF DsGrows
<1> DEFINE S == {}
<1>3. reports' = [reports EXCEPT ![p] = [seq |-> S, op |-> S]]
  BY DEF LoseReports, NoReports
<1>4. ReportsType' /\ ReportsUsable'
  <2>1. \A r \in S : FALSE
    OBVIOUS
  <2> HIDE DEF S
  <2>2. QED
    BY <1>2, <1>3, <2>1, ReportsKept
<1>5. RefsUsable'
  BY <1>1, <1>2, RefsKept
<1>6. RunUsable(p)' /\ Bookkeeping(p)'
  BY <1>1, <1>2, RunKept
<1>7. LocalsType' /\ Others(p)
  BY <1>1, <1>2 DEF LocalsType, Others
<1>8. QED
  BY <1>1, <1>2, <1>4, <1>5, <1>6, <1>7, Assemble DEF StepOK

\* A run starts from the datastore, or from the report of its sequence.
LEMMA StartOK ==
    ASSUME IInv, NEW p \in Procs, NEW i \in Inputs, NEW r \in Releases, Start(p, i, r)
    PROVE  IInv'
<1> DEFINE reuse == Reusable(reports[p].seq, i)
           h == IF reuse THEN OutputOf(reports[p].seq, i) ELSE loadAddressRef(ds, i)
           l == IF reuse THEN "record" ELSE NextStage(h)
<1>1. /\ pc[p] = "idle" /\ UNCHANGED <<ledger, ds, reports, id, owner, faults>>
      /\ req' = [req EXCEPT ![p] = i] /\ rel' = [rel EXCEPT ![p] = r] /\ env' = [env EXCEPT ![p] = ds]
      /\ have' = [have EXCEPT ![p] = h]
  BY DEF Start
<1>2. /\ Grows /\ LedgerOK' /\ DsGrows /\ LocalsType /\ RefsUsable /\ ReportsType /\ ReportsUsable
      /\ Bookkeeping(p) /\ faults' \in 0..MaxFaults /\ ds \in [Keys -> IDs \cup {NoID}]
  BY <1>1, InvParts, LedgerSame DEF DsGrows
<1>3. reuse => h \in [Types -> IDs \cup {NoID}] /\ Complete(i, h)
  <2> SUFFICES ASSUME reuse PROVE h \in [Types -> IDs \cup {NoID}] /\ Complete(i, h)
    OBVIOUS
  <2>1. PICK s \in reports[p].seq : s.k = i /\ h = s.out
    BY DEF Reusable, OutputOf
  <2>2. s \in [k: Inputs, out: [Types -> IDs \cup {NoID}]] /\ Complete(s.k, s.out)
    BY <1>2 DEF ReportsType, ReportsUsable
  <2> HIDE DEF h
  <2>3. QED
    BY <2>1, <2>2
<1>4. ~reuse => /\ h \in [Types -> IDs \cup {NoID}]
                /\ \A t \in Types : h[t] # NoID => Usable(i.c, t, i.q, h[t])
  BY <1>2, KeyType DEF loadAddressRef, RefsUsable
<1>5. /\ h \in [Types -> IDs \cup {NoID}]
      /\ \A t \in Types : h[t] # NoID => Usable(i.c, t, i.q, h[t])
  BY <1>3, <1>4 DEF Complete
<1>6. have'[p] = h
  BY <1>1, <1>2 DEF LocalsType
<1>7. pc' = [pc EXCEPT ![p] = l]
  BY <1>6 DEF Start, Goto
<1>8. l \in {"record", "ensure", "finish"} /\ (l = "ensure" => Missing(h) # {})
      /\ (l = "finish" => Missing(h) = {}) /\ (l = "record" => Complete(i, h))
  BY <1>3, StageType
<1> HIDE DEF h, l
<1>9. /\ pc'[p] = l /\ req'[p] = i /\ rel'[p] = r /\ id'[p] = id[p]
  BY <1>1, <1>2, <1>7 DEF LocalsType
<1>10. id[p] = NoID
  BY <1>1, <1>2 DEF Bookkeeping, Working
<1>11. LocalsType' /\ Others(p)
  <2>1. LocalsType'
    BY <1>1, <1>2, <1>5, <1>7, <1>8 DEF LocalsType, Stages
  <2>2. QED
    BY <2>1, <1>1, <1>2, <1>7 DEF LocalsType, Others
<1>12. Bookkeeping(p)'
  BY <1>6, <1>8, <1>9, <1>10 DEF Bookkeeping, Working, Missing
<1>13. \A t \in Types : h[t] # NoID => \A a : a = h[t] => Usable(i.c, t, i.q, a)'
  BY <1>2, <1>5, UsableKept
<1>14. l = "record" => \A g : g = h => Complete(i, g)'
  BY <1>2, <1>8, CompleteKept
<1>15. RunUsable(p)'
  BY <1>6, <1>8, <1>9, <1>10, <1>13, <1>14 DEF RunUsable, Missing, Usable, Complete
<1>16. \A x \in Procs, k \in Keys : env'[x][k] \in {NoID, env[x][k], ds[k]}
  BY <1>1, <1>2 DEF LocalsType
<1>17. QED
  BY <1>1, <1>2, <1>11, <1>12, <1>15, <1>16, QuietOK DEF LocalsOK

\* The hand-over of a recorded MCM.
LEMMA HandOverOK ==
    ASSUME IInv, NEW k \in Keys, TransferOwnership(k)
    PROVE  IInv'
<1>1. UNCHANGED <<ds, reports, pc, req, rel, env, have, id, owner, faults>>
  BY DEF TransferOwnership, locals
<1>2. Grows /\ LedgerOK' /\ DsGrows
  BY <1>1, TransferOwnershipOK, InvParts DEF DsGrows
<1>3. ReportsType' /\ ReportsUsable'
  BY <1>1, <1>2, ReportsSame
<1>4. RefsUsable'
  BY <1>1, <1>2, InvParts, RefsKept
<1>5. \A x \in Procs : RunUsable(x)' /\ Bookkeeping(x)'
  BY <1>1, <1>2, InvParts, RunKept
<1>6. TypeOK'
  BY <1>1, <1>2, <1>5, InvParts
     DEF LedgerOK, TypeOK, LocalsType, ReportsType, Stages, Working, Bookkeeping
<1>7. QED
  BY <1>2, <1>3, <1>4, <1>5, <1>6 DEF IInv, LedgerOK

----------------------------------------------------------------------------
(* The invariants *)

\* A step of a run, a fault or a hand-over keeps the inductive invariant.
LEMMA Inductive == IInv /\ [Next]_vars => IInv'
<1> SUFFICES ASSUME IInv, [Next]_vars PROVE IInv'
  OBVIOUS
<1>1. ASSUME NEW p \in Procs, Begin(p) PROVE IInv'
  BY <1>1, StartOK DEF Begin
<1>2. ASSUME NEW p \in Procs, Step(p) PROVE IInv'
  BY <1>2, ReuseOperationOK, ResolveOK, DeployOK, GetOwnerOK, IsInitializedOK, InitializeOK,
     GetConfigOK, SetConfigOK, FinishOK, RecordOK DEF Step
<1>3. ASSUME NEW p \in Procs, Fault(p) PROVE IInv'
  BY <1>3, DeployOK, InitializeOK, SetConfigOK, FailOK, LoseReportsOK DEF Fault
<1>4. ASSUME NEW k \in Keys, TransferOwnership(k) PROVE IInv'
  BY <1>4, HandOverOK
<1>5. CASE UNCHANGED vars
  <2>1. UNCHANGED <<ledger, ds, reports, pc, req, rel, env, have, id, owner, faults>>
    BY <1>5 DEF vars, locals
  <2>2. Grows /\ LedgerOK' /\ DsGrows
    BY <2>1, InvParts, LedgerSame DEF DsGrows
  <2>3. ReportsType' /\ ReportsUsable'
    BY <2>1, <2>2, ReportsSame
  <2>4. RefsUsable'
    BY <2>1, <2>2, InvParts, RefsKept
  <2>5. \A x \in Procs : RunUsable(x)' /\ Bookkeeping(x)'
    BY <2>1, <2>2, InvParts, RunKept
  <2>6. TypeOK'
    BY <2>1, <2>2, <2>5, InvParts
       DEF LedgerOK, TypeOK, LocalsType, ReportsType, Stages, Working, Bookkeeping
  <2>7. QED
    BY <2>2, <2>3, <2>4, <2>5, <2>6 DEF IInv, LedgerOK
<1>6. QED
  BY <1>1, <1>2, <1>3, <1>4, <1>5 DEF Next

\* Nothing is deployed, recorded or running at first.
LEMMA InitOK == Init => IInv
<1> SUFFICES ASSUME Init PROVE IInv
  OBVIOUS
<1>1. Absent \in Contract
  BY DEF Absent, Contract
<1>2. \A a \in IDs : ledger[a] = Absent /\ ~Exists(a) /\ ledger[a].init = NoInit
  BY DEF Init, Exists, Absent
<1>3. LedgerOK
  <2>1. ledger \in [IDs -> Contract]
    BY <1>1 DEF Init
  <2>2. OneInstance /\ AttemptsInOrder /\ HoldersUsable
    BY <1>2 DEF OneInstance, AttemptsInOrder, HoldersUsable
  <2>3. QED
    BY <2>1, <2>2 DEF LedgerOK
<1>4. NoRefs \in [Keys -> IDs \cup {NoID}] /\ NoAddresses \in [Types -> IDs \cup {NoID}]
  BY DEF NoRefs, NoAddresses
<1>5. NoReports \in [seq: SUBSET [k: Inputs, out: [Types -> IDs \cup {NoID}]],
                     op: SUBSET [k: OpKeys, out: IDs]]
      /\ NoReports.seq = {} /\ NoReports.op = {}
  BY DEF NoReports
<1>6. ReportsType /\ ReportsUsable
  BY <1>5 DEF Init, ReportsType, ReportsUsable
<1>7. LocalsType
  BY <1>4 DEF Init, LocalsType, Stages
<1>8. RefsUsable
  <2>1. \A c \in Chains, q \in Qualifiers : <<c, "Timelock", q>> \in Keys
    BY DEF Keys, Types
  <2>2. \A k \in Keys : ds[k] = NoID /\ \A p \in Procs : env[p][k] = NoID
    BY DEF Init, NoRefs
  <2>3. QED
    BY <2>1, <2>2 DEF RefsUsable
<1>9. ASSUME NEW p \in Procs PROVE Bookkeeping(p) /\ RunUsable(p)
  <2>1. pc[p] = "idle" /\ id[p] = NoID /\ \A t \in Types : have[p][t] = NoID
    BY DEF Init, NoAddresses
  <2>2. QED
    BY <2>1 DEF Bookkeeping, Working, RunUsable
<1>10. ds \in [Keys -> IDs \cup {NoID}] /\ faults \in 0..MaxFaults
  BY <1>4, AttemptsAssumption DEF Init
<1>11. TypeOK
  BY <1>3, <1>6, <1>7, <1>9, <1>10, TypeParts DEF LedgerOK
<1>12. QED
  BY <1>3, <1>6, <1>8, <1>9, <1>11 DEF IInv, LedgerOK

\* The inductive invariant holds in every state of every run.
THEOREM Invariance == Spec => []IInv
BY InitOK, Inductive, PTL DEF Spec

\* A run's bookkeeping goes with its step: it holds a contract ID exactly while it
\* works on a contract, and its reports hold contract IDs.
THEOREM TypeCorrect == Spec => []TypeOK
<1>1. IInv => TypeOK
  BY DEF IInv
<1>2. QED
  BY <1>1, Invariance, PTL

\* Whatever fails, is lost or races, a chain holds one instance of an artifact per
\* type and qualifier: resolveDeploymentIdentity adopts what is there.
THEOREM SingleInstance == Spec => []OneInstance
<1>1. IInv => OneInstance
  BY DEF IInv
<1>2. QED
  BY <1>1, Invariance, PTL

\* Apply never records a contract whose initialize transaction is still missing.
THEOREM RecordedReady == Spec => []RecordedInitialized
<1>1. IInv => RecordedInitialized
  BY DEF IInv, RefsUsable, Usable, Belongs, Ready, RecordedInitialized
<1>2. QED
  BY <1>1, Invariance, PTL

\* With one MCMS artifact every MCM sits at the first salt attempt.
LEMMA FirstAttempt ==
    ASSUME IInv, OneRelease, NEW c, NEW t \in MCMTypes, NEW q,
           NEW a, Usable(c, t, q, a), NEW b, Usable(c, t, q, b)
    PROVE  a = b
<1>1. /\ a \in IDs /\ b \in IDs /\ Exists(a) /\ Exists(b)
      /\ a[1] = c /\ a[2] = t /\ a[3] = q /\ b[1] = c /\ b[2] = t /\ b[3] = q
  BY DEF Usable, Belongs
<1>2. PICK r \in Releases : ledger[a].wasm = WasmHash(r, t)
  BY <1>1 DEF IInv, AttemptsInOrder
<1>3. PICK s \in Releases : ledger[b].wasm = WasmHash(s, t)
  BY <1>1 DEF IInv, AttemptsInOrder
<1>4. t # "Timelock" /\ r.mcm = s.mcm
  BY DEF MCMTypes, OneRelease
<1>5. ledger[a].wasm = ledger[b].wasm
  BY <1>2, <1>3, <1>4 DEF WasmHash
<1>6. QED
  BY <1>1, <1>5 DEF IInv, OneInstance

\* The three MCMs recorded with a timelock are the ones that hold its roles, when
\* one MCMS artifact is in use.
THEOREM WiredTimelock == Spec => []Wired
<1>1. ASSUME IInv, OneRelease, NEW c \in Chains, NEW q \in Qualifiers,
             ds[<<c, "Timelock", q>>] # NoID
      PROVE  LET tl == ledger[ds[<<c, "Timelock", q>>]].init IN
             /\ tl.p = ds[<<c, "Proposer", q>>]
             /\ tl.c = ds[<<c, "Canceller", q>>]
             /\ tl.b = ds[<<c, "Bypasser", q>>]
  <2> DEFINE x == ds[<<c, "Timelock", q>>]
             tl == ledger[x].init
  <2>1. \A t \in Types : <<c, t, q>> \in Keys
    BY DEF Keys
  <2>2. "Timelock" \in Types /\ MCMTypes \subseteq Types /\ "Timelock" \notin MCMTypes
    BY DEF Types, MCMTypes
  <2>3. \A t \in Types : ds[<<c, t, q>>] # NoID => Usable(c, t, q, ds[<<c, t, q>>])
    BY <1>1, <2>1 DEF IInv, RefsUsable
  <2>4. Usable(c, "Timelock", q, x)
    BY <1>1, <2>2, <2>3
  <2>5. x \in IDs /\ x[1] = c /\ x[3] = q /\ tl # NoInit
    BY <2>4 DEF Usable, Belongs, Ready
  <2> HIDE DEF x
  <2>6. Usable(c, "Proposer", q, tl.p) /\ Usable(c, "Canceller", q, tl.c) /\ Usable(c, "Bypasser", q, tl.b)
    BY <1>1, <2>5 DEF IInv, HoldersUsable
  <2>7. \A t \in MCMTypes : Usable(c, t, q, ds[<<c, t, q>>])
    BY <1>1, <2>2, <2>3 DEF IInv, RefsUsable
  <2>8. tl.p = ds[<<c, "Proposer", q>>] /\ tl.c = ds[<<c, "Canceller", q>>] /\ tl.b = ds[<<c, "Bypasser", q>>]
    <3>1. \A t \in MCMTypes : \A a : Usable(c, t, q, a) => a = ds[<<c, t, q>>]
      BY <1>1, <2>7, FirstAttempt
    <3>2. QED
      BY <2>6, <3>1 DEF MCMTypes
  <2>9. QED
    BY <2>8 DEF x
<1>2. IInv => Wired
  BY <1>1 DEF Wired
<1>3. QED
  BY <1>2, Invariance, PTL

----------------------------------------------------------------------------
(* The refinement of DeploymentRecord *)

\* A step that creates no contract leaves the abstract contracts alone.
LEMMA CreatedSame ==
    ASSUME \A a \in IDs : ledger'[a].wasm = ledger[a].wasm
    PROVE  Created' = Created
BY DEF Created, Exists

\* The create transaction is a Create step of the abstract specification.
LEMMA DeployRefines ==
    ASSUME IInv, NEW p \in Procs, pc[p] = "deploy", ~Exists(id[p]), ledger' = Deployed(p), UNCHANGED ds
    PROVE  \E k \in Keys, a \in IDs : Promise!Create(k, a)
<1> DEFINE x == id[p]
           w == WasmHash(rel[p], Current(p))
           k == <<x[1], x[2], x[3]>>
<1>1. OnContract(p)
  BY WorkingFacts DEF Working
<1>2. x \in IDs /\ w # NoWasm /\ ledger \in [IDs -> Contract] /\ ledger[x].wasm = NoWasm
  BY <1>1, WasmType, InvParts DEF OnContract, Belongs, LedgerOK, Exists
<1>3. ledger' = [ledger EXCEPT ![x].wasm = w]
  BY DEF Deployed
<1> HIDE DEF x, w
<1>4. \A a \in IDs : Exists(a)' <=> Exists(a) \/ a = x
  BY <1>2, <1>3 DEF Exists, Contract
<1>5. k \in Keys /\ k[1] = x[1] /\ k[2] = x[2] /\ k[3] = x[3]
  BY <1>2, IDType DEF Keys
<1>6. ASSUME NEW j \in Keys
      PROVE  Created'[j] = IF j = k THEN Created[j] \cup {x} ELSE Created[j]
  <2>1. /\ Created[j] = {a \in IDs : Exists(a) /\ <<a[1], a[2], a[3]>> = j}
        /\ Created'[j] = {a \in IDs : Exists(a)' /\ <<a[1], a[2], a[3]>> = j}
    BY DEF Created
  <2>2. QED
    BY <2>1, <1>2, <1>4
<1>7. \A j \in Keys : x \notin Created[j]
  BY <1>2 DEF Created, Exists
<1>8. Created' = [Created EXCEPT ![k] = @ \cup {x}]
  <2>1. Created' = [j \in Keys |-> Created'[j]] /\ Created = [j \in Keys |-> Created[j]]
    BY DEF Created
  <2>2. QED
    BY <2>1, <1>5, <1>6
<1> HIDE DEF k
<1>9. Promise!Create(k, x)
  BY <1>7, <1>8 DEF Promise!Create
<1>10. QED
  BY <1>2, <1>5, <1>9

\* Apply's write is a Record step.
LEMMA RecordRefines ==
    ASSUME IInv, NEW p \in Procs, Record(p)
    PROVE  Promise!Record
<1>1. UNCHANGED ledger /\ Created' = Created
  BY CreatedSame DEF Record
<1>2. IInv'
  BY RecordOK
<1>3. ds' \in [Keys -> IDs \cup {NoID}]
  BY <1>2 DEF IInv, TypeOK
<1>4. ASSUME NEW k \in Keys, ds'[k] # ds[k] PROVE ds'[k] \in Created[k]
  <2>1. ds'[k] # NoID
    BY <1>4 DEF Record
  <2>2. Usable(k[1], k[2], k[3], ds[k])'
    BY <1>2, <2>1 DEF IInv, RefsUsable
  <2>3. Belongs(k[1], k[2], k[3], ds'[k]) /\ ledger[ds'[k]].wasm # NoWasm
    BY <1>1, <2>2 DEF Usable, Exists, Belongs
  <2>4. k = <<k[1], k[2], k[3]>>
    BY DEF Keys
  <2>5. QED
    BY <2>3, <2>4 DEF Created, Exists, Belongs
<1>5. QED
  BY <1>1, <1>3, <1>4 DEF Promise!Record

\* Every step is a step of DeploymentRecord or leaves it alone.
LEMMA StepRefines ==
    IInv /\ [Next]_vars => [Promise!RecordNext]_(Promise!recordVars)
<1> SUFFICES ASSUME IInv, [Next]_vars
             PROVE  Promise!RecordNext \/ (Created' = Created /\ ds' = ds)
  BY DEF Promise!recordVars
<1>1. ASSUME \A a \in IDs : ledger'[a].wasm = ledger[a].wasm, UNCHANGED ds
      PROVE  Created' = Created /\ ds' = ds
  BY <1>1, CreatedSame
<1>2. ASSUME NEW p \in Procs, DeployContractBytes(p) \/ LoseDeploy(p)
      PROVE  Promise!RecordNext \/ (Created' = Created /\ ds' = ds)
  <2>1. pc[p] = "deploy" /\ UNCHANGED ds
    BY <1>2 DEF DeployContractBytes, LoseDeploy
  <2>2. CASE UNCHANGED ledger
    BY <2>1, <2>2, <1>1
  <2>3. CASE ~Exists(id[p]) /\ ledger' = Deployed(p)
    BY <2>1, <2>3, DeployRefines DEF Promise!RecordNext
  <2>4. QED
    BY <1>2, <2>2, <2>3 DEF DeployContractBytes, LoseDeploy, Exists
<1>3. ASSUME NEW p \in Procs, Record(p) PROVE Promise!RecordNext
  BY <1>3, RecordRefines DEF Promise!RecordNext
<1>4. ASSUME NEW p \in Procs, Initialize(p) \/ LoseInitialize(p)
      PROVE  UNCHANGED ds /\ \A a \in IDs : ledger'[a].wasm = ledger[a].wasm
  <2>1. UNCHANGED ds /\ (UNCHANGED ledger \/ ledger' = Initialized(p))
    BY <1>4 DEF Initialize, LoseInitialize
  <2>2. ledger \in [IDs -> Contract]
    BY InvParts DEF LedgerOK
  <2>3. ASSUME ledger' = Initialized(p), NEW a \in IDs PROVE ledger'[a].wasm = ledger[a].wasm
    <3>1. CASE Current(p) = "Timelock"
      <4> DEFINE x == id[p]
                 in == TimelockInput(p)
      <4>1. ledger' = [ledger EXCEPT ![x].init = in]
        BY <2>3, <3>1 DEF Initialized
      <4> HIDE DEF x, in
      <4>2. QED
        BY <4>1, <2>2 DEF Contract
    <3>2. CASE Current(p) # "Timelock"
      <4> DEFINE x == id[p]
                 g == req[p].cfg[Current(p)]
      <4>1. ledger' = [ledger EXCEPT ![x].owner = Deployer, ![x].cfg = g]
        BY <2>3, <3>2 DEF Initialized
      <4> HIDE DEF x, g
      <4>2. QED
        BY <4>1, <2>2 DEF Contract
    <3>3. QED
      BY <3>1, <3>2
  <2>4. QED
    BY <2>1, <2>3
<1>5. ASSUME NEW p \in Procs, SetConfig(p) \/ LoseSetConfig(p)
      PROVE  UNCHANGED ds /\ \A a \in IDs : ledger'[a].wasm = ledger[a].wasm
  <2>1. UNCHANGED ds /\ (UNCHANGED ledger \/ ledger' = Configured(p))
    BY <1>5 DEF SetConfig, LoseSetConfig
  <2> DEFINE x == id[p]
             g == req[p].cfg[Current(p)]
  <2>2. UNCHANGED ledger \/ ledger' = [ledger EXCEPT ![x].cfg = g]
    BY <2>1 DEF Configured
  <2> HIDE DEF x, g
  <2>3. ledger \in [IDs -> Contract]
    BY InvParts DEF LedgerOK
  <2>4. QED
    BY <2>1, <2>2, <2>3 DEF Contract
<1>6. ASSUME NEW k \in Keys, TransferOwnership(k)
      PROVE  UNCHANGED ds /\ \A a \in IDs : ledger'[a].wasm = ledger[a].wasm
  <2> DEFINE x == ds[k]
  <2>1. UNCHANGED ds /\ ledger' = [ledger EXCEPT ![x].owner = Governance]
    BY <1>6 DEF TransferOwnership
  <2> HIDE DEF x
  <2>2. ledger \in [IDs -> Contract]
    BY InvParts DEF LedgerOK
  <2>3. QED
    BY <2>1, <2>2 DEF Contract
<1>7. ASSUME NEW p \in Procs, \/ Begin(p) \/ ReuseOperation(p) \/ resolveDeploymentIdentity(p)
                              \/ GetOwner(p) \/ IsInitialized(p) \/ GetConfig(p) \/ Finish(p)
                              \/ Fail(p) \/ LoseReports(p)
      PROVE  UNCHANGED <<ledger, ds>>
  BY <1>7 DEF Begin, Start, ReuseOperation, resolveDeploymentIdentity, GetOwner, IsInitialized,
     GetConfig, Finish, Fail, LoseReports
<1>8. UNCHANGED vars => UNCHANGED <<ledger, ds>>
  BY DEF vars
<1>9. UNCHANGED <<ledger, ds>> => Created' = Created /\ ds' = ds
  BY <1>1
<1>10. QED
  BY <1>1, <1>2, <1>3, <1>4, <1>5, <1>6, <1>7, <1>8, <1>9 DEF Next, Step, Fault

\* The Stellar sequence implements DeploymentRecord: contracts appear one at a time
\* at unused IDs, and every ref it writes is a contract of that chain, type and
\* qualifier, adopted and reused contracts included.
THEOREM Refinement == Spec => RefinesRecord
<1>1. Init => Promise!RecordInit
  <2> SUFFICES ASSUME Init PROVE Promise!RecordInit
    OBVIOUS
  <2>1. \A a \in IDs : ~Exists(a)
    BY DEF Init, Exists, Absent
  <2>2. Created = [k \in Keys |-> {}]
    BY <2>1 DEF Created
  <2>3. QED
    BY <2>2 DEF Promise!RecordInit, Init, NoRefs
<1>2. QED
  BY <1>1, StepRefines, Invariance, PTL DEF Spec, RefinesRecord, Promise!RecordSpec
=============================================================================
