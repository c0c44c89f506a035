-------------------------- MODULE SolanaMcmsDeploy --------------------------
(***************************************************************************)
(* The Solana family of the deploy changeset.                              *)
(*   mcms/solana/deploy/{sequence,operations,addresses,idempotency}.go     *)
(*   mcms/changesets/deploy/changeset.go                                   *)
(*                                                                         *)
(* A set of a chain and qualifier is three programs, four access           *)
(* controller accounts, three MCM instances and a timelock instance.       *)
(* Accounts are created under random keys, so a transaction whose result   *)
(* is lost leaves an account nothing refers to.  Every operation is keyed  *)
(* by the chain and its input.  A run that fails records nothing; within   *)
(* the bundle a retry reuses the reports of what was done.                 *)
(***************************************************************************)
EXTENDS Integers, Sequences, FiniteSets

CONSTANTS
    Chains,      \* chain selectors (naturals: Apply sorts them)
    Quals,       \* qualifiers
    Inputs,      \* ConfigByChain: functions from chains to [qual, cfg, delay]
    MaxUint64,   \* the largest delay a timelock can hold
    Deletable,   \* sets of slots an operator deletes from the datastore at once
    None,
    MaxRuns,     \* bound: runs of Apply
    MaxFails,    \* bound: failed runs
    MaxBundles,  \* bound: fresh bundles
    MaxDeletes   \* bound: deletions by the operator

ACRoles == {"proposer", "executor", "canceller", "bypasser"}
MCMRoles == {"proposer", "canceller", "bypasser"}

ProgramSlots == {"acProgram", "mcmProgram", "timelockProgram"}
ACSlot == [proposer |-> "proposerAC", executor |-> "executorAC",
           canceller |-> "cancellerAC", bypasser |-> "bypasserAC"]
MCMSlot == [proposer |-> "proposerMCM", canceller |-> "cancellerMCM", bypasser |-> "bypasserMCM"]
ACSlots == {ACSlot[r] : r \in ACRoles}
MCMSlots == {MCMSlot[r] : r \in MCMRoles}
Slots == ProgramSlots \cup ACSlots \cup MCMSlots \cup {"timelock"}

ASSUME ChainsAssumption == Chains \subseteq Nat
ASSUME InputsAssumption ==
    \A i \in Inputs : /\ DOMAIN i \in (SUBSET Chains) \ {{}}
                      /\ \A c \in DOMAIN i : i[c].qual \in Quals /\ i[c].cfg # None /\ i[c].delay \in Int
ASSUME SentinelAssumption == None \notin Nat /\ None \notin [prog : Nat, seed : Nat]
ASSUME DeletableAssumption == Deletable \subseteq SUBSET Slots
ASSUME BoundsAssumption == {MaxUint64, MaxRuns, MaxFails, MaxBundles, MaxDeletes} \subseteq Nat

VARIABLES
    accts,    \* accounts on all chains, in the order of creation; an id is an index
    ds,       \* [Chains \X Quals -> [Slots -> ref or None]]: the datastore
    reports,  \* successful reports of the bundle
    pc, req, todo,
    existing, \* deployedAddresses: [Slots -> id or None]
    grants,   \* role grants still to be sent
    out, agg, \* refs of the chain in progress; of the finished chains
    moved,    \* sets changed by a deletion since the bundle began
    replaced, \* sets some of whose refs were replaced by others since then
    stale,    \* sets a reused report was written to after a deletion
    runs, fails, bundles, deletes

local == <<existing, grants, out>>
counters == <<runs, fails, bundles, deletes>>
changes == <<moved, replaced>>
vars == <<accts, ds, reports, pc, req, todo, local, agg, changes, stale, counters>>

\* Reports of this changeset's chains and operations, and of fund-mcm-pdas.
NoReports == [op \in {"chain", "op", "fund"} |-> {}]
Reusable(op, k) == \E r \in reports[op] : r.k = k
OutputOf(op, k) == (CHOOSE r \in reports[op] : r.k = k).out
Report(op, k, o) == reports' = [reports EXCEPT ![op] = @ \cup {[k |-> k, out |-> o]}]

----------------------------------------------------------------------------
(* Accounts on the chains, external *)

Nothing == [s \in Slots |-> None]
NewId == Len(accts) + 1
Account(c, kind, prog) ==
    [ch |-> c, kind |-> kind, prog |-> prog, cfg |-> None, members |-> {},
     acs |-> <<>>, delay |-> 0]
SignerPDA(prog, seed) == [prog |-> prog, seed |-> seed]
Create(a) == accts' = Append(accts, a)

----------------------------------------------------------------------------
(* addresses.go *)

Embedded(refs, slots) == {refs[s].prog : s \in {x \in slots : refs[x] # None}}

\* The program an instance ref names counts where the program has no ref.
reconcile(refs, program, instances) ==
    IF refs[program] = None /\ Embedded(refs, instances) # {}
    THEN CHOOSE p \in Embedded(refs, instances) : TRUE ELSE refs[program]
reconcileInstanceProgramID(refs, program, instances) ==
    \A p \in Embedded(refs, instances) : p = reconcile(refs, program, instances)

\* Refs of instances hold the program and the seed.
loadDeployedAddresses(refs) ==
    [s \in Slots |->
        CASE s = "mcmProgram" -> reconcile(refs, s, MCMSlots)
          [] s = "timelockProgram" -> reconcile(refs, s, {"timelock"})
          [] s \in MCMSlots \cup {"timelock"} -> IF refs[s] = None THEN None ELSE refs[s].seed
          [] OTHER -> refs[s]]
loadable(refs) ==
    /\ reconcileInstanceProgramID(refs, "mcmProgram", MCMSlots)
    /\ reconcileInstanceProgramID(refs, "timelockProgram", {"timelock"})

----------------------------------------------------------------------------
(* changeset.go: Apply *)

verifySolanaChains(i) == DOMAIN i \subseteq Chains

Start(i) ==
    /\ pc = "idle" /\ verifySolanaChains(i)
    /\ runs < MaxRuns /\ runs' = runs + 1
    /\ req' = i /\ todo' = DOMAIN i /\ agg' = {} /\ pc' = "chain"
    /\ UNCHANGED <<accts, ds, reports, local, changes, stale, fails, bundles, deletes>>

ch == CHOOSE c \in todo : \A d \in todo : c <= d
set == <<ch, req[ch].qual>>
ChainInput == [ch |-> ch, config |-> req[ch]]

\* A ref is written under its set and slot.
Refs(o) == {[set |-> set, slot |-> r.slot, addr |-> r.addr] : r \in o}

ReuseChain ==
    /\ pc = "chain" /\ todo # {} /\ Reusable("chain", ChainInput)
    /\ agg' = agg \cup Refs(OutputOf("chain", ChainInput))
    /\ stale' = IF set \in moved THEN stale \cup {set} ELSE stale
    /\ todo' = todo \ {ch}
    /\ UNCHANGED <<accts, ds, reports, pc, req, local, changes, counters>>

deployMCMSWithTimelock ==
    /\ pc = "chain" /\ todo # {} /\ ~Reusable("chain", ChainInput)
    /\ loadable(ds[set])
    /\ existing' = loadDeployedAddresses(ds[set])
    /\ out' = {} /\ grants' = <<>> /\ pc' = "acProgram"
    /\ UNCHANGED <<accts, ds, reports, req, todo, agg, changes, stale, counters>>

End ==
    /\ pc' = "idle" /\ req' = <<>> /\ todo' = {} /\ agg' = {}
    /\ existing' = Nothing /\ grants' = <<>> /\ out' = {}

mergeOutputs(refs) ==
    [t \in DOMAIN ds |-> [s \in Slots |->
        LET new == {r \in refs : r.set = t /\ r.slot = s}
        IN  IF new = {} THEN ds[t][s] ELSE (CHOOSE r \in new : TRUE).addr]]

Apply ==
    /\ pc = "chain" /\ todo = {}
    /\ ds' = mergeOutputs(agg)
    /\ replaced' = replaced \cup {t \in DOMAIN ds : \E s \in Slots : ds[t][s] \notin {None, ds'[t][s]}}
    /\ End
    /\ UNCHANGED <<accts, reports, moved, stale, counters>>

----------------------------------------------------------------------------
(* sequence.go: the steps of a chain, in order *)

After == [acProgram |-> "proposerAC", proposerAC |-> "executorAC",
          executorAC |-> "cancellerAC", cancellerAC |-> "bypasserAC",
          bypasserAC |-> "mcmProgram", mcmProgram |-> "bypasserMCM",
          bypasserMCM |-> "cancellerMCM", cancellerMCM |-> "proposerMCM",
          proposerMCM |-> "timelockProgram", timelockProgram |-> "timelock",
          timelock |-> "roles"]

\* Between the two parts of an operation.
Waiting == [acProgram |-> "waitACProgram", mcmProgram |-> "waitMCMProgram",
            timelockProgram |-> "waitTimelockProgram"]
Configuring == [proposerMCM |-> "configProposerMCM", cancellerMCM |-> "configCancellerMCM",
                bypasserMCM |-> "configBypasserMCM"]

\* The keys of the operations: their input, and the chain as idempotency key.
chainIdempotencyKey_AnyChain(in) == [ch |-> 0, qual |-> req[ch].qual, in |-> in]
chainIdempotencyKey(in) == [ch |-> ch, qual |-> req[ch].qual, in |-> in]
deployProgramInput(s) == <<s>>
initACAccountInput(s) == <<s, existing.acProgram>>
initMCMInstanceInput(s) == <<s, existing.mcmProgram, req[ch].cfg>>
initTimelockInstanceInput ==
    <<"timelock", existing.timelockProgram, existing.acProgram,
      [s \in ACSlots |-> existing[s]], req[ch].delay>>
setupTimelockRolesInput == <<"roles", existing>>

InputOf(s) ==
    CASE s \in ProgramSlots -> deployProgramInput(s)
      [] s \in ACSlots -> initACAccountInput(s)
      [] s \in MCMSlots -> initMCMInstanceInput(s)
      [] s = "timelock" -> initTimelockInstanceInput
OpKey(s) == chainIdempotencyKey(InputOf(s))

\* The address a ref of the slot gets: an instance's names its program too.
addressRef(s, id) ==
    CASE s \in MCMSlots -> [prog |-> existing.mcmProgram, seed |-> id]
      [] s = "timelock" -> [prog |-> existing.timelockProgram, seed |-> id]
      [] OTHER -> id

Have(s, id) ==
    /\ existing' = [existing EXCEPT ![s] = id]
    /\ out' = out \cup {[slot |-> s, addr |-> addressRef(s, id)]}
    /\ pc' = After[s] /\ UNCHANGED grants

needed(s) == pc = s /\ existing[s] = None

hasExisting ==
    /\ pc \in Slots /\ existing[pc] # None
    /\ pc' = After[pc]
    /\ UNCHANGED <<accts, ds, reports, req, todo, local, agg, changes, stale, counters>>

ReuseOp_NotRecorded ==
    /\ pc \in Slots /\ needed(pc) /\ Reusable("op", OpKey(pc))
    /\ existing' = [existing EXCEPT ![pc] = OutputOf("op", OpKey(pc))]
    /\ pc' = After[pc] /\ UNCHANGED <<out, grants>>
    /\ UNCHANGED <<accts, ds, reports, req, todo, agg, changes, stale, counters>>
ReuseOp ==
    /\ pc \in Slots /\ needed(pc) /\ Reusable("op", OpKey(pc))
    /\ Have(pc, OutputOf("op", OpKey(pc)))
    /\ UNCHANGED <<accts, ds, reports, req, todo, agg, changes, stale, counters>>

MustRun(s) == needed(s) /\ ~Reusable("op", OpKey(s))
Done(s, id) == Report("op", OpKey(s), id) /\ Have(s, id)

----------------------------------------------------------------------------
(* operations.go *)

\* The program is deployed; the operation ends when it is seen executable.
opDeployProgram(s) ==
    /\ MustRun(s)
    /\ Create(Account(ch, s, None))
    /\ pc' = Waiting[s]
    /\ UNCHANGED <<ds, reports, req, todo, local, agg, changes, stale, counters>>
deployAccessControllerProgramIfNeeded == opDeployProgram("acProgram")
deployMCMProgramIfNeeded == opDeployProgram("mcmProgram")
deployTimelockProgramIfNeeded == opDeployProgram("timelockProgram")

waitForProgramReady ==
    \E s \in ProgramSlots :
       /\ pc = Waiting[s]
       /\ Done(s, Len(accts))
       /\ UNCHANGED <<accts, ds, req, todo, agg, changes, stale, counters>>

\* Creation and initialization are one transaction.
buildAccessControllerInit == Account(ch, "ac", existing.acProgram)
opInitAccessControllerAccount ==
    \E s \in ACSlots :
       /\ MustRun(s)
       /\ Create(buildAccessControllerInit)
       /\ Done(s, NewId)
       /\ UNCHANGED <<ds, req, todo, agg, changes, stale, counters>>

\* An instance is initialized, then configured, by two transactions.
opInitMCMInstance ==
    \E s \in MCMSlots :
       /\ MustRun(s)
       /\ Create(Account(ch, "mcm", existing.mcmProgram))
       /\ pc' = Configuring[s]
       /\ UNCHANGED <<ds, reports, req, todo, local, agg, changes, stale, counters>>

SetConfig_Skipped(id) == UNCHANGED accts
SetConfig(id) == accts' = [accts EXCEPT ![id].cfg = req[ch].cfg]
initMCMInstance ==
    \E s \in MCMSlots :
       /\ pc = Configuring[s]
       /\ SetConfig(Len(accts))
       /\ Done(s, Len(accts))
       /\ UNCHANGED <<ds, req, todo, agg, changes, stale, counters>>

timelockMinDelayUint64_Positive(d) == d \in 1..MaxUint64
timelockMinDelayUint64(d) == d \in 0..MaxUint64

\* The program takes only accounts its access controller program owns.
Owned == \A s \in ACSlots : accts[existing[s]].prog = existing.acProgram
Timelock ==
    [Account(ch, "timelock", existing.timelockProgram) EXCEPT
        !.acs = [s \in ACSlots |-> existing[s]], !.delay = req[ch].delay]
opInitTimelockInstance ==
    /\ MustRun("timelock")
    /\ timelockMinDelayUint64(req[ch].delay) /\ Owned
    /\ Create(Timelock)
    /\ Done("timelock", NewId)
    /\ UNCHANGED <<ds, req, todo, agg, changes, stale, counters>>

\* One transaction per role; the executor is the deployer.
Signer(r) == SignerPDA(existing.mcmProgram, existing[MCMSlot[r]])
Deployer == SignerPDA(0, 0)
timelockRoleGrants ==
    <<[ac |-> "proposerAC", to |-> {Signer("proposer")}],
      [ac |-> "executorAC", to |-> {Deployer}],
      [ac |-> "cancellerAC", to |-> {Signer("canceller"), Signer("proposer"), Signer("bypasser")}],
      [ac |-> "bypasserAC", to |-> {Signer("bypasser")}]>>

rolesKey == chainIdempotencyKey(setupTimelockRolesInput)
setupTimelockRoles_OnlyNew ==
    /\ pc = "roles"
    /\ IF Reusable("op", rolesKey) \/ ds[set].timelock # None
       THEN pc' = "done" /\ UNCHANGED grants
       ELSE pc' = "grant" /\ grants' = timelockRoleGrants
    /\ UNCHANGED <<accts, ds, reports, req, todo, existing, out, agg, changes, stale, counters>>
setupTimelockRoles ==
    /\ pc = "roles"
    /\ IF Reusable("op", rolesKey)
       THEN pc' = "done" /\ UNCHANGED grants
       ELSE pc' = "grant" /\ grants' = timelockRoleGrants
    /\ UNCHANGED <<accts, ds, reports, req, todo, existing, out, agg, changes, stale, counters>>

\* The timelock adds members to its own access controllers only.
Accepted(g) ==
    /\ accts[existing.timelock].acs[g.ac] = existing[g.ac]
    /\ accts[existing[g.ac]].prog = existing.acProgram
buildTimelockBatchAddAccess(g) ==
    accts' = [accts EXCEPT ![existing[g.ac]].members = @ \cup g.to]

opSetupTimelockRoles ==
    /\ pc = "grant" /\ Accepted(Head(grants))
    /\ buildTimelockBatchAddAccess(Head(grants))
    /\ grants' = Tail(grants)
    /\ IF Len(grants) = 1 THEN Report("op", rolesKey, None) /\ pc' = "done" ELSE UNCHANGED <<reports, pc>>
    /\ UNCHANGED <<ds, req, todo, existing, out, agg, changes, stale, counters>>

ChainDone ==
    /\ pc = "done"
    /\ Report("chain", ChainInput, out)
    /\ agg' = agg \cup Refs(out)
    /\ todo' = todo \ {ch} /\ pc' = "chain"
    /\ existing' = Nothing /\ out' = {} /\ UNCHANGED grants
    /\ UNCHANGED <<accts, ds, req, changes, stale, counters>>

----------------------------------------------------------------------------
(* Failures, and what happens between runs *)

Abort == End /\ fails' = fails + 1 /\ UNCHANGED <<ds, reports, changes, stale, runs, bundles, deletes>>

\* A call fails, a wait times out or the process dies: nothing is recorded.
Fail == pc # "idle" /\ fails < MaxFails /\ UNCHANGED accts /\ Abort

\* What no retry can do: refs that disagree, a delay out of range, a
\* transaction the programs refuse.
Doomed ==
    \/ pc = "chain" /\ todo # {} /\ ~Reusable("chain", ChainInput) /\ ~loadable(ds[set])
    \/ MustRun("timelock") /\ ~(timelockMinDelayUint64(req[ch].delay) /\ Owned)
    \/ pc = "grant" /\ ~Accepted(Head(grants))
Refused ==
    /\ Doomed /\ End
    /\ UNCHANGED <<accts, ds, reports, changes, stale, counters>>

\* The account is created and the result is lost.
LoseResult ==
    /\ fails < MaxFails
    /\ \/ (\E s \in ACSlots : MustRun(s)) /\ Create(buildAccessControllerInit)
       \/ MustRun("timelock") /\ timelockMinDelayUint64(req[ch].delay) /\ Owned /\ Create(Timelock)
    /\ Abort

NewBundle ==
    /\ pc = "idle" /\ bundles < MaxBundles /\ bundles' = bundles + 1
    /\ reports # NoReports /\ reports' = NoReports /\ moved' = {} /\ replaced' = {}
    /\ UNCHANGED <<accts, ds, pc, req, todo, local, agg, stale, runs, fails, deletes>>

\* The operator deletes refs with the datastore changesets.
Delete(t, slots) ==
    /\ pc = "idle" /\ deletes < MaxDeletes /\ deletes' = deletes + 1
    /\ \A s \in slots : ds[t][s] # None
    /\ ds' = [ds EXCEPT ![t] = [s \in Slots |-> IF s \in slots THEN None ELSE @[s]]]
    /\ moved' = moved \cup {t} /\ replaced' = replaced
    /\ UNCHANGED <<accts, reports, pc, req, todo, local, agg, stale, runs, fails, bundles>>

Run ==
    \/ ReuseChain \/ deployMCMSWithTimelock \/ Apply \/ hasExisting \/ ReuseOp
    \/ deployAccessControllerProgramIfNeeded \/ deployMCMProgramIfNeeded
    \/ deployTimelockProgramIfNeeded \/ waitForProgramReady
    \/ opInitAccessControllerAccount \/ opInitMCMInstance \/ initMCMInstance
    \/ opInitTimelockInstance \/ setupTimelockRoles \/ opSetupTimelockRoles \/ ChainDone
    \/ Refused

DeployNext ==
    \/ \E i \in Inputs : Start(i)
    \/ Run \/ Fail \/ LoseResult \/ NewBundle
    \/ \E t \in DOMAIN ds, slots \in Deletable : Delete(t, slots)

Init ==
    /\ accts = <<>> /\ ds = [t \in Chains \X Quals |-> Nothing] /\ reports = NoReports
    /\ pc = "idle" /\ req = <<>> /\ todo = {} /\ agg = {}
    /\ existing = Nothing /\ grants = <<>> /\ out = {}
    /\ moved = {} /\ replaced = {} /\ stale = {} /\ runs = 0 /\ fails = 0 /\ bundles = 0 /\ deletes = 0

Spec == Init /\ [][DeployNext]_vars

\* A running Apply proceeds and the operator runs an input again until the
\* bounds are met.
FairSpec == Spec /\ WF_vars(Run) /\ \A i \in Inputs : SF_vars(Start(i))

----------------------------------------------------------------------------
(* Properties *)

KindOf(s) == CASE s \in ACSlots -> "ac" [] s \in MCMSlots -> "mcm" [] OTHER -> s
IdOf(s, ref) == IF s \in MCMSlots \cup {"timelock"} THEN ref.seed ELSE ref

\* Every ref of the datastore names an account of its slot's kind, created on
\* its chain by its program (addressRef, chainIdempotencyKey).
TypeOK ==
    /\ \A n \in DOMAIN accts : accts[n].ch \in Chains /\ accts[n].delay \in 0..MaxUint64
    /\ \A t \in DOMAIN ds, s \in Slots : ds[t][s] # None =>
          LET a == accts[IdOf(s, ds[t][s])] IN
            /\ a.ch = t[1] /\ a.kind = KindOf(s)
            /\ s \in MCMSlots \cup {"timelock"} => a.prog = ds[t][s].prog
    /\ todo \subseteq Chains /\ DOMAIN req \subseteq Chains
    /\ runs \in 0..MaxRuns /\ fails \in 0..MaxFails /\ bundles \in 0..MaxBundles
    /\ deletes \in 0..MaxDeletes

\* Whatever runs fail and whatever results are lost, no access controller has
\* a member that is an MCM instance of another chain or one whose config was
\* never set (opInitMCMInstance sends two transactions, opSetupTimelockRoles
\* grants by seed).
GrantedConfigured ==
    \A n \in DOMAIN accts : \A m \in accts[n].members \ {Deployer} :
       /\ accts[m.seed].kind = "mcm" /\ accts[m.seed].prog = m.prog
       /\ accts[m.seed].ch = accts[n].ch /\ accts[m.seed].cfg # None

Members(t, r) == accts[ds[t][ACSlot[r]]].members
PDAOf(t, r) == SignerPDA(ds[t][MCMSlot[r]].prog, ds[t][MCMSlot[r]].seed)

\* A recorded set works as a whole: its timelock obeys its access controllers,
\* and they obey its MCMs, also when refs were deleted and deployed again.  The
\* exception are sets an old report was written to (setupTimelockRoles,
\* loadDeployedAddresses; changeset.go, Apply).
Wired ==
    \A t \in DOMAIN ds \ stale : (\A s \in Slots \ ProgramSlots : ds[t][s] # None) =>
       /\ \A s \in ACSlots : accts[ds[t].timelock.seed].acs[s] = ds[t][s]
       /\ \A r \in MCMRoles : PDAOf(t, r) \in Members(t, r) \cap Members(t, "canceller")
       /\ Deployer \in Members(t, "executor")

CompleteSet(refs) == loadable(refs) /\ \A s \in Slots : loadDeployedAddresses(refs)[s] # None

\* A run that succeeds leaves the set of each of its chains complete, also when
\* it retried in a bundle that had reports of parts of it; the exception is a
\* report reused after a deletion (Apply, mergeOutputs).
RecordComplete ==
    [][ pc = "chain" /\ todo = {} /\ pc' = "idle" =>
          (fails' = fails => \A c \in DOMAIN req :
              \/ <<c, req[c].qual>> \in stale
              \/ CompleteSet(ds'[<<c, req[c].qual>>])) ]_vars

\* An input with delays in range that is run until it succeeds is deployed, as
\* long as no ref is deleted (operations.go; Apply's retries).
EventuallyRecorded ==
    \A i \in Inputs : (\A c \in DOMAIN i : i[c].delay \in 0..MaxUint64) =>
       ([](deletes = 0 /\ req \in {<<>>, i})
          => <>(\A c \in DOMAIN i : CompleteSet(ds[<<c, i[c].qual>>])))

============================================================================
