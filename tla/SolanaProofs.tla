---------------------------- MODULE SolanaProofs ----------------------------
(***************************************************************************)
(* Proofs about the Solana deploy and fund-mcm-pdas, for every value of    *)
(* the constants.  Through failed runs, lost results, retries, fresh       *)
(* bundles and deletions:                                                  *)
(*   - the refs of the datastore name accounts of the set's chain and of   *)
(*     the slot's kind;                                                    *)
(*   - no access controller has a member that was never configured;        *)
(*   - a set the datastore has as a whole works, and a run that succeeds   *)
(*     completes its sets, unless an old report was written to them;       *)
(*   - within a bundle no PDA gets an amount twice unless the result of a  *)
(*     transfer that landed was lost;                                      *)
(*   - a run that passed the balance check lacks at most fees, unless      *)
(*     others spend the lamports or the amounts overflow;                  *)
(*   - when fund-mcm-pdas succeeds, the PDAs of the recorded instances     *)
(*     have got their amounts.                                             *)
(***************************************************************************)
EXTENDS FundMcmPdas, ProofLemmas, FiniteSetTheorems

----------------------------------------------------------------------------
(* The inductive invariant of the deploy: accounts and refs *)

Instances == MCMSlots \cup {"timelock"}
AccountFields == {"ch", "kind", "prog", "cfg", "members", "acs", "delay"}

\* An account of the chain and of the slot's kind; an MCM has its config.
Good(c, s, id) ==
    /\ id \in DOMAIN accts /\ accts[id].ch = c /\ accts[id].kind = KindOf(s)
    /\ s \in MCMSlots => accts[id].cfg # None

\* A ref names such an account, that of an instance its program too.
Named(c, s, ref) ==
    /\ ref # None /\ Good(c, s, IdOf(s, ref))
    /\ s \in Instances =>
          /\ ref = [prog |-> ref.prog, seed |-> ref.seed] /\ ref.prog \in Nat
          /\ accts[ref.seed].prog = ref.prog

\* A member is a configured MCM of the access controller's chain.
MemberOK(n, m) ==
    /\ m.seed \in DOMAIN accts
    /\ accts[m.seed].kind = "mcm" /\ accts[m.seed].prog = m.prog
    /\ accts[m.seed].ch = accts[n].ch /\ accts[m.seed].cfg # None
AccountOK(n) ==
    /\ DOMAIN accts[n] = AccountFields
    /\ accts[n].ch \in Chains /\ accts[n].delay \in 0..MaxUint64
    /\ accts[n].kind \in {"mcm", "timelock"} => accts[n].prog \in Nat
    /\ \A m \in accts[n].members \ {Deployer} : MemberOK(n, m)
AcctsOK == IsList(accts) /\ \A n \in DOMAIN accts : AccountOK(n)

RefsNamed ==
    /\ DOMAIN ds = Chains \X Quals
    /\ \A t \in DOMAIN ds :
          /\ ds[t] = [s \in Slots |-> ds[t][s]]
          /\ \A s \in Slots : ds[t][s] # None => Named(t[1], s, ds[t][s])
    /\ \A r \in agg : r.set \in DOMAIN ds /\ r.slot \in Slots /\ Named(r.set[1], r.slot, r.addr)

OutNamed(c, o) ==
    \A x \in o : x = [slot |-> x.slot, addr |-> x.addr] /\ x.slot \in Slots /\ Named(c, x.slot, x.addr)

ChainReportOK(r) ==
    r.k.ch \in Chains /\ r.k.config.qual \in Quals /\ OutNamed(r.k.ch, r.out)
OpReportOK(r) ==
    LET s == r.k.in[1]
    IN  s \in Slots => /\ Good(r.k.ch, s, r.out)
                       /\ s \in Instances => accts[r.out].prog = r.k.in[2]
ReportsOK ==
    /\ DOMAIN reports = {"chain", "op", "fund"}
    /\ \A r \in reports["chain"] : ChainReportOK(r)
    /\ \A r \in reports["op"] : OpReportOK(r)

\* What the running sequence holds for a slot.
HeldOK(s) ==
    /\ s \in ProgramSlots => existing[s] \in Nat
    /\ s \notin ProgramSlots => Good(ch, s, existing[s])
    /\ s \in MCMSlots => accts[existing[s]].prog = existing.mcmProgram
    /\ s = "timelock" => accts[existing[s]].prog = existing.timelockProgram

\* The order of the steps of a chain.
Order == [acProgram |-> 1, proposerAC |-> 2, executorAC |-> 3, cancellerAC |-> 4,
          bypasserAC |-> 5, mcmProgram |-> 6, bypasserMCM |-> 7, cancellerMCM |-> 8,
          proposerMCM |-> 9, timelockProgram |-> 10, timelock |-> 11]
\* pc is at the step of slot s.
At(s) == \/ pc = s
         \/ s \in ProgramSlots /\ pc = Waiting[s]
         \/ s \in MCMSlots /\ pc = Configuring[s]
Running == pc \notin {"idle", "chain"}

SequenceOK ==
    Running =>
       /\ ch \in todo /\ DOMAIN existing = Slots
       /\ \A s \in Slots : existing[s] # None => HeldOK(s)
       /\ OutNamed(ch, out)
       /\ \/ \E s \in Slots : At(s) /\ \A u \in Slots : Order[u] < Order[s] => existing[u] # None
          \/ pc \in {"roles", "grant", "done"} /\ \A u \in Slots : existing[u] # None
       /\ \A s \in ProgramSlots : pc = Waiting[s] => existing[s] = None /\ Good(ch, s, Len(accts))
       /\ \A s \in MCMSlots : pc = Configuring[s] =>
             /\ existing[s] = None /\ Len(accts) \in DOMAIN accts
             /\ accts[Len(accts)].ch = ch /\ accts[Len(accts)].kind = "mcm"
             /\ accts[Len(accts)].prog = existing.mcmProgram
       /\ pc = "grant" =>
             /\ Len(grants) \in 1..4
             /\ grants = [n \in 1..Len(grants) |-> timelockRoleGrants[n + 4 - Len(grants)]]

ApplyOK ==
    /\ pc # "idle" => req \in Inputs /\ todo \subseteq DOMAIN req
    /\ pc = "idle" => req = <<>> /\ todo = {}
    /\ runs \in 0..MaxRuns /\ fails \in 0..MaxFails /\ bundles \in 0..MaxBundles
    /\ deletes \in 0..MaxDeletes

DeployInv == AcctsOK /\ RefsNamed /\ ReportsOK /\ SequenceOK /\ ApplyOK

----------------------------------------------------------------------------
(* The inductive invariant of the deploy: whole sets *)

\* The refs of a set after those of an output were written over them.
AtSlot(o, s) == {x \in o : x.slot = s}
Over(refs, o) ==
    [s \in Slots |-> IF AtSlot(o, s) = {} THEN refs[s] ELSE (CHOOSE x \in AtSlot(o, s) : TRUE).addr]
SlotsOf(o) == {x.slot : x \in o}
Functional(o) == \A x, y \in o : x.slot = y.slot => x = y
Missing(refs) == {s \in Slots : loadDeployedAddresses(refs)[s] = None}

Whole(refs) == \A s \in Slots \ ProgramSlots : refs[s] # None
RefMembers(refs, r) == accts[refs[ACSlot[r]]].members
RefPDA(refs, r) == SignerPDA(refs[MCMSlot[r]].prog, refs[MCMSlot[r]].seed)
WiredRefs(refs) ==
    /\ \A s \in ACSlots : accts[refs.timelock.seed].acs[s] = refs[s]
    /\ \A r \in MCMRoles : RefPDA(refs, r) \in RefMembers(refs, r) \cap RefMembers(refs, "canceller")
    /\ Deployer \in RefMembers(refs, "executor")
Sound(refs) == CompleteSet(refs) /\ Whole(refs) /\ WiredRefs(refs)

\* The timelock e.timelock obeys the access controller, which has the members.
Granted(e, g) ==
    /\ e.timelock \in DOMAIN accts /\ e[g.ac] \in DOMAIN accts
    /\ accts[e.timelock].acs[g.ac] = e[g.ac] /\ g.to \subseteq accts[e[g.ac]].members
SignerOf(e, r) == SignerPDA(e.mcmProgram, e[MCMSlot[r]])
GrantsOf(e) ==
    <<[ac |-> "proposerAC", to |-> {SignerOf(e, "proposer")}],
      [ac |-> "executorAC", to |-> {Deployer}],
      [ac |-> "cancellerAC", to |-> {SignerOf(e, "canceller"), SignerOf(e, "proposer"), SignerOf(e, "bypasser")}],
      [ac |-> "bypasserAC", to |-> {SignerOf(e, "bypasser")}]>>
Obeyed(e) == \A n \in 1..4 : Granted(e, GrantsOf(e)[n])

RolesReported == \A r \in reports["op"] : r.k.in[1] = "roles" => Obeyed(r.k.in[2])
RolesGranted ==
    /\ pc = "grant" => \A n \in 1..(4 - Len(grants)) : Granted(existing, timelockRoleGrants[n])
    /\ pc = "done" => Obeyed(existing)

\* What the sequence holds is what the datastore has and what it will record.
Agrees(refs, o) ==
    /\ loadable(refs) /\ Functional(o)
    /\ \A s \in Slots :
          /\ AtSlot(o, s) = {} => existing[s] = loadDeployedAddresses(refs)[s]
          /\ \A x \in AtSlot(o, s) :
                /\ existing[s] # None /\ x.addr = addressRef(s, existing[s])
                /\ loadDeployedAddresses(refs)[s] = None
Recorded == Running => Agrees(ds[set], out)

SetOf(r) == <<r.k.ch, r.k.config.qual>>
Alike(o, p) == o = {} \/ p = {} \/ SlotsOf(o) = SlotsOf(p)
ReportSound(r) ==
    SetOf(r) \notin moved \cup stale =>
       /\ Functional(r.out) /\ Sound(Over(ds[SetOf(r)], r.out))
       /\ Missing(ds[SetOf(r)]) # {} => SlotsOf(r.out) = Missing(ds[SetOf(r)])
       /\ \A u \in reports["chain"] : SetOf(u) = SetOf(r) => Alike(r.out, u.out)
ReportsSound == \A r \in reports["chain"] : ReportSound(r)

AggOf(t) == {[slot |-> r.slot, addr |-> r.addr] : r \in {x \in agg : x.set = t}}
Finished == {<<c, req[c].qual>> : c \in DOMAIN req \ todo}
AggSound ==
    pc # "idle" =>
       /\ \A r \in agg : r.set \in Finished
       /\ \A t \in Finished \ stale :
             /\ Functional(AggOf(t)) /\ Sound(Over(ds[t], AggOf(t)))
             /\ t \notin moved => \E r \in reports["chain"] : SetOf(r) = t /\ r.out = AggOf(t)

\* Wired, by the refs of a set.
SetsWired == \A t \in DOMAIN ds \ stale : Whole(ds[t]) => WiredRefs(ds[t])

SetsInv == SetsWired /\ RolesReported /\ RolesGranted /\ Recorded /\ ReportsSound /\ AggSound

----------------------------------------------------------------------------
(* Slots and steps *)

\* The slots of a set by name.
LEMMA SlotNames ==
    /\ ProgramSlots = {"acProgram", "mcmProgram", "timelockProgram"}
    /\ ACSlots = {"proposerAC", "executorAC", "cancellerAC", "bypasserAC"}
    /\ MCMSlots = {"proposerMCM", "cancellerMCM", "bypasserMCM"}
    /\ Slots = ProgramSlots \cup ACSlots \cup MCMSlots \cup {"timelock"}
<1>1. ACSlots = {ACSlot["proposer"], ACSlot["executor"], ACSlot["canceller"], ACSlot["bypasser"]}
  BY DEF ACSlots, ACRoles
<1>2. MCMSlots = {MCMSlot["proposer"], MCMSlot["canceller"], MCMSlot["bypasser"]}
  BY DEF MCMSlots, MCMRoles
<1>3. QED
  BY <1>1, <1>2 DEF ProgramSlots, Slots, ACSlot, MCMSlot

\* The kinds of accounts the slots name.
LEMMA Kinds ==
    /\ \A s \in ACSlots : KindOf(s) = "ac"
    /\ \A s \in MCMSlots : KindOf(s) = "mcm"
    /\ \A s \in ProgramSlots : KindOf(s) = s
    /\ KindOf("timelock") = "timelock"
BY SlotNames DEF KindOf

\* The steps of a chain follow each other up to the grants.
LEMMA OrderNext ==
    ASSUME NEW s \in Slots
    PROVE  /\ Order[s] \in 1..11
           /\ \/ s = "timelock" /\ After[s] = "roles" /\ \A u \in Slots : u # s => Order[u] < Order[s]
              \/ /\ After[s] \in Slots /\ Order[After[s]] = Order[s] + 1
                 /\ \A u \in Slots : Order[u] < Order[s] + 1 => u = s \/ Order[u] < Order[s]
BY SlotNames DEF Order, After

\* The step of a slot is neither the chain loop nor the grants, and it is the
\* step of one slot.
LEMMA Places ==
    /\ \A s \in Slots : s \notin {"idle", "chain", "roles", "grant", "done"}
    /\ \A s \in ProgramSlots :
          /\ Waiting[s] \notin {"idle", "chain", "roles", "grant", "done"} /\ Waiting[s] \notin Slots
          /\ \A u \in ProgramSlots : Waiting[u] = Waiting[s] => u = s
          /\ \A u \in MCMSlots : Configuring[u] # Waiting[s]
    /\ \A s \in MCMSlots :
          /\ Configuring[s] \notin {"idle", "chain", "roles", "grant", "done"} /\ Configuring[s] \notin Slots
          /\ \A u \in MCMSlots : Configuring[u] = Configuring[s] => u = s
BY SlotNames DEF Waiting, Configuring

\* pc is at the step of one slot.
LEMMA OneStep ==
    ASSUME NEW s \in Slots, NEW u \in Slots, At(s), At(u)
    PROVE  s = u
BY Places DEF At

----------------------------------------------------------------------------
(* Accounts are created, configured and given members, never taken away *)

SameAccount(n) ==
    /\ DOMAIN accts'[n] = DOMAIN accts[n]
    /\ accts'[n].ch = accts[n].ch /\ accts'[n].kind = accts[n].kind /\ accts'[n].prog = accts[n].prog
    /\ accts'[n].acs = accts[n].acs /\ accts'[n].delay = accts[n].delay
    /\ accts[n].cfg # None => accts'[n].cfg # None
    /\ accts[n].members \subseteq accts'[n].members
Grows == DOMAIN accts \subseteq DOMAIN accts' /\ \A n \in DOMAIN accts : SameAccount(n)

\* What is said of an account stays true.
LEMMA GoodStable ==
    ASSUME Grows, NEW c, NEW s, NEW id, Good(c, s, id)
    PROVE  Good(c, s, id)' /\ accts'[id].prog = accts[id].prog /\ id \in DOMAIN accts
BY DEF Grows, SameAccount, Good, KindOf

\* So does what a ref says.
LEMMA NamedStable ==
    ASSUME Grows, NEW c, NEW s \in Slots, NEW ref, Named(c, s, ref)
    PROVE  Named(c, s, ref)'
<1>1. Good(c, s, IdOf(s, ref))
  BY DEF Named
<1>2. /\ Good(c, s, IdOf(s, ref))' /\ accts'[IdOf(s, ref)].prog = accts[IdOf(s, ref)].prog
  <2>1. PICK id : id = IdOf(s, ref)
    OBVIOUS
  <2>2. Good(c, s, id)' /\ accts'[id].prog = accts[id].prog
    BY <1>1, <2>1, GoodStable
  <2>3. QED
    BY <2>1, <2>2 DEF Good, IdOf
<1>3. CASE s \in Instances
  <2>1. IdOf(s, ref) = ref.seed
    BY <1>3 DEF IdOf, Instances
  <2>2. QED
    BY <1>2, <1>3, <2>1 DEF Named
<1>4. CASE s \notin Instances
  BY <1>2, <1>4 DEF Named
<1>5. QED
  BY <1>3, <1>4

\* Members stay configured MCMs.
LEMMA MemberStable ==
    ASSUME Grows, NEW n \in DOMAIN accts, NEW m, MemberOK(n, m)
    PROVE  MemberOK(n, m)'
BY DEF Grows, SameAccount, MemberOK

\* A new account comes last and has no members.
LEMMA Created ==
    ASSUME AcctsOK, NEW a, Create(a), DOMAIN a = AccountFields, a.ch \in Chains,
           a.delay \in 0..MaxUint64, a.kind \in {"mcm", "timelock"} => a.prog \in Nat,
           a.members = {}
    PROVE  /\ AcctsOK' /\ Grows
           /\ Len(accts') = Len(accts) + 1 /\ NewId = Len(accts') /\ NewId \in DOMAIN accts'
           /\ accts'[NewId] = a
<1>1. accts' = Append(accts, a) /\ IsList(accts)
  BY DEF Create, AcctsOK
<1>2. /\ IsList(accts') /\ DOMAIN accts' = 1..(Len(accts) + 1)
      /\ \A n \in DOMAIN accts : accts'[n] = accts[n]
      /\ accts'[Len(accts) + 1] = a
  <2>1. PICK s, t : s = accts /\ t = accts'
    OBVIOUS
  <2>2. IsList(s)
    BY <1>1, <2>1
  <2>5. t = Append(s, a)
    BY <1>1, <2>1
  <2>3. /\ IsList(t) /\ DOMAIN t = 1..(Len(s) + 1)
        /\ \A n \in DOMAIN s : t[n] = s[n]
        /\ t[Len(s) + 1] = a
    <3>1. PICK e : e = a
      OBVIOUS
    <3>2. t = Append(s, e)
      BY <2>5, <3>1
    <3>3. IsList(t)
      BY <2>2, <3>2, AppendWhole
    <3>4. DOMAIN t = 1..(Len(s) + 1)
      BY <2>2, <3>2, AppendWhole
    <3>5. \A n \in DOMAIN s : t[n] = s[n]
      BY <2>2, <3>2, AppendWhole
    <3>6. t[Len(s) + 1] = e
      BY <2>2, <3>2, AppendWhole
    <3>7. QED
      BY <3>1, <3>3, <3>4, <3>5, <3>6
  <2>4. QED
    BY <2>1, <2>3 DEF IsList
<1>3. Len(accts) \in Nat /\ DOMAIN accts = 1..Len(accts)
  BY <1>1, ListIds
<1>4. Len(accts') = Len(accts) + 1
  <2>1. DOMAIN accts' = 1..Len(accts') /\ Len(accts') \in Nat
    BY <1>2 DEF IsList
  <2>2. QED
    BY <1>2, <1>3, <2>1
<1>5. Grows
  BY <1>2, <1>3 DEF Grows, SameAccount
<1>6. ASSUME NEW n \in DOMAIN accts' PROVE AccountOK(n)'
  <2>1. CASE n \in DOMAIN accts
    <3>1. AccountOK(n) /\ accts'[n] = accts[n]
      BY <1>2, <2>1 DEF AcctsOK
    <3>2. \A m \in accts[n].members \ {Deployer} : MemberOK(n, m)'
      BY <1>5, <2>1, <3>1, MemberStable DEF AccountOK
    <3>3. QED
      BY <3>1, <3>2 DEF AccountOK, Deployer, SignerPDA
  <2>2. CASE n = Len(accts) + 1
    BY <1>2, <2>2 DEF AccountOK
  <2>3. QED
    BY <1>2, <1>3, <2>1, <2>2
<1>7. QED
  BY <1>2, <1>3, <1>4, <1>5, <1>6 DEF AcctsOK, NewId

\* One account gets a config or members; all else stays as it is.
LEMMA Changed ==
    ASSUME AcctsOK, NEW k \in DOMAIN accts, NEW a, accts' = [accts EXCEPT ![k] = a],
           DOMAIN a = AccountFields, a.ch = accts[k].ch, a.kind = accts[k].kind,
           a.prog = accts[k].prog, a.acs = accts[k].acs, a.delay = accts[k].delay,
           accts[k].cfg # None => a.cfg # None,
           accts[k].members \subseteq a.members,
           \A m \in a.members \ (accts[k].members \cup {Deployer}) : MemberOK(k, m)
    PROVE  AcctsOK' /\ Grows /\ Len(accts') = Len(accts) /\ DOMAIN accts' = DOMAIN accts /\ accts'[k] = a
<1>1. IsList(accts)
  BY DEF AcctsOK
<1>2. /\ IsList(accts') /\ DOMAIN accts' = DOMAIN accts
      /\ \A n \in DOMAIN accts : accts'[n] = IF n = k THEN a ELSE accts[n]
  <2>1. PICK s, t : s = accts /\ t = accts'
    OBVIOUS
  <2>2. IsList(s) /\ t = [s EXCEPT ![k] = a]
    BY <1>1, <2>1
  <2>3. /\ IsList(t) /\ DOMAIN t = DOMAIN s
        /\ \A n \in DOMAIN s : t[n] = IF n = k THEN a ELSE s[n]
    BY <2>2, ExceptWhole
  <2>4. QED
    BY <2>1, <2>3 DEF IsList
<1>3. Len(accts') = Len(accts)
  <2>1. DOMAIN accts' = 1..Len(accts') /\ Len(accts') \in Nat /\ DOMAIN accts = 1..Len(accts) /\ Len(accts) \in Nat
    BY <1>1, <1>2 DEF IsList
  <2>2. QED
    BY <1>2, <2>1
<1>4. AccountOK(k)
  BY DEF AcctsOK
<1>5. Grows
  BY <1>2, <1>4 DEF Grows, SameAccount, AccountOK
<1>6. ASSUME NEW n \in DOMAIN accts' PROVE AccountOK(n)'
  <2>1. n \in DOMAIN accts /\ AccountOK(n)
    BY <1>2 DEF AcctsOK
  <2>2. \A m \in accts[n].members \ {Deployer} : MemberOK(n, m)'
    BY <1>5, <2>1, MemberStable DEF AccountOK
  <2>3. CASE n = k
    <3>1. \A m \in a.members \ (accts[k].members \cup {Deployer}) : MemberOK(k, m)'
      BY <1>5, MemberStable
    <3>2. accts'[n] = a
      BY <1>2, <2>3
    <3>3. \A m \in accts'[n].members \ {Deployer} : MemberOK(n, m)'
      BY <2>2, <2>3, <3>1, <3>2
    <3>4. QED
      BY <1>4, <2>3, <3>2, <3>3 DEF AccountOK, Deployer, SignerPDA
  <2>4. CASE n # k
    <3>1. accts'[n] = accts[n]
      BY <1>2, <2>4
    <3>2. QED
      BY <2>1, <2>2, <3>1 DEF AccountOK, Deployer, SignerPDA
  <2>5. QED
    BY <2>3, <2>4
<1>7. QED
  BY <1>2, <1>3, <1>5, <1>6 DEF AcctsOK

----------------------------------------------------------------------------
(* What the invariant's parts say in the next state *)

\* Accounts that stay as they are have not lost anything.
LEMMA SameGrows ==
    ASSUME UNCHANGED accts
    PROVE  Grows /\ (AcctsOK => AcctsOK')
<1>1. Grows
  BY DEF Grows, SameAccount
<1>2. ASSUME AcctsOK, NEW n \in DOMAIN accts' PROVE AccountOK(n)'
  BY <1>2 DEF AcctsOK, AccountOK, MemberOK, Deployer, SignerPDA
<1>3. QED
  BY <1>1, <1>2 DEF AcctsOK

\* A seed and an id of an account are no missing value.
LEMMA IdFacts ==
    ASSUME AcctsOK, NEW id \in DOMAIN accts
    PROVE  /\ id \in Nat /\ id # None
           /\ accts[id].kind \in {"mcm", "timelock"} => accts[id].prog \in Nat /\ accts[id].prog # None
<1>1. id \in Nat
  BY ListIds DEF AcctsOK
<1>2. AccountOK(id)
  BY DEF AcctsOK
<1>3. QED
  BY <1>1, <1>2, SentinelAssumption DEF AccountOK

\* The next chain of a run is one of its chains.
LEMMA NextChain ==
    ASSUME ApplyOK, todo # {}
    PROVE  /\ ch \in todo /\ ch \in DOMAIN req /\ ch \in Chains /\ req \in Inputs
           /\ req[ch].qual \in Quals /\ req[ch].cfg # None /\ set \in Chains \X Quals /\ set[1] = ch
<1>1. req \in Inputs /\ todo \subseteq DOMAIN req
  BY DEF ApplyOK
<1>2. DOMAIN req \subseteq Chains /\ \A c \in DOMAIN req : req[c].qual \in Quals /\ req[c].cfg # None
  BY <1>1, InputsAssumption
<1>3. todo \subseteq Nat
  BY <1>1, <1>2, ChainsAssumption
<1>4. ch \in todo
  BY <1>3, LeastNat DEF ch
<1>5. QED
  BY <1>1, <1>2, <1>4 DEF set

\* Refs keep naming accounts; those still to be written may be new.
LEMMA RefsStay ==
    ASSUME RefsNamed, Grows, UNCHANGED ds,
           \A r \in agg' \ agg : r.set \in DOMAIN ds /\ r.slot \in Slots /\ Named(r.set[1], r.slot, r.addr)'
    PROVE  RefsNamed'
<1>1. ASSUME NEW t \in DOMAIN ds, NEW s \in Slots, ds[t][s] # None
      PROVE  Named(t[1], s, ds[t][s])'
  <2>1. PICK c, ref : c = t[1] /\ ref = ds[t][s]
    OBVIOUS
  <2>2. Named(c, s, ref)
    BY <1>1, <2>1 DEF RefsNamed
  <2>3. Named(c, s, ref)'
    BY <2>2, NamedStable
  <2>4. QED
    BY <2>1, <2>3
<1>2. ASSUME NEW r \in agg PROVE Named(r.set[1], r.slot, r.addr)'
  BY <1>2, NamedStable DEF RefsNamed
<1>3. QED
  BY <1>1, <1>2 DEF RefsNamed

\* Refs of an output keep naming accounts.
LEMMA OutStays ==
    ASSUME Grows, NEW c, NEW o, OutNamed(c, o)
    PROVE  OutNamed(c, o)'
BY NamedStable DEF OutNamed

\* Reports that are kept keep telling of accounts that are there.
LEMMA ChainReportStays ==
    ASSUME Grows, NEW r, ChainReportOK(r)
    PROVE  ChainReportOK(r)'
BY OutStays DEF ChainReportOK

\* The report of an operation keeps naming an account of its kind.
LEMMA OpReportStays ==
    ASSUME Grows, NEW r, OpReportOK(r)
    PROVE  OpReportOK(r)'
BY GoodStable DEF OpReportOK

\* So do all reports, while none is added.
LEMMA ReportsStay ==
    ASSUME ReportsOK, Grows, DOMAIN reports' = DOMAIN reports,
           UNCHANGED <<reports["chain"], reports["op"]>>
    PROVE  ReportsOK'
BY ChainReportStays, OpReportStays DEF ReportsOK

\* A new report of an operation tells of an account.
LEMMA OpReported ==
    ASSUME ReportsOK, Grows, NEW k, NEW o, Report("op", k, o), OpReportOK([k |-> k, out |-> o])'
    PROVE  ReportsOK'
<1>1. /\ DOMAIN reports' = DOMAIN reports /\ reports'["chain"] = reports["chain"]
      /\ reports'["op"] = reports["op"] \cup {[k |-> k, out |-> o]}
  BY DEF Report, ReportsOK
<1>2. \A r \in reports["op"] : OpReportOK(r)'
  BY OpReportStays DEF ReportsOK
<1>3. \A r \in reports["chain"] : ChainReportOK(r)'
  BY ChainReportStays DEF ReportsOK
<1>4. QED
  BY <1>1, <1>2, <1>3 DEF ReportsOK

\* What the sequence holds stays held.
LEMMA HeldStays ==
    ASSUME Grows, UNCHANGED <<existing, todo>>, NEW s \in Slots, HeldOK(s)
    PROVE  HeldOK(s)'
<1>1. ch' = ch
  BY DEF ch
<1>2. s \notin ProgramSlots => Good(ch, s, existing[s])' /\ accts'[existing[s]].prog = accts[existing[s]].prog
  <2>1. PICK c, id : c = ch /\ id = existing[s]
    OBVIOUS
  <2>2. s \notin ProgramSlots => Good(c, s, id)' /\ accts'[id].prog = accts[id].prog
    BY <2>1, GoodStable DEF HeldOK
  <2>3. QED
    BY <1>1, <2>1, <2>2
<1>3. s \in MCMSlots \cup {"timelock"} => s \notin ProgramSlots
  BY SlotNames
<1>4. QED
  BY <1>1, <1>2, <1>3 DEF HeldOK

----------------------------------------------------------------------------
(* The sequence takes hold of the account of a slot *)

\* The program an instance is to be created by is held before.
LEMMA ProgramsHeld ==
    ASSUME SequenceOK, Running, NEW s \in Slots, At(s)
    PROVE  /\ ch \in todo /\ DOMAIN existing = Slots /\ OutNamed(ch, out)
           /\ \A u \in Slots : existing[u] # None => HeldOK(u)
           /\ \A u \in Slots : Order[u] < Order[s] => existing[u] # None /\ HeldOK(u)
           /\ s \in ACSlots => existing.acProgram \in Nat
           /\ s \in MCMSlots => existing.mcmProgram \in Nat
           /\ s = "timelock" => existing.timelockProgram \in Nat /\ existing.acProgram \in Nat
<1>1. /\ ch \in todo /\ DOMAIN existing = Slots /\ OutNamed(ch, out)
      /\ \A u \in Slots : existing[u] # None => HeldOK(u)
  BY DEF SequenceOK
<1>2. pc \notin {"roles", "grant", "done"}
  BY Places, SlotNames DEF At
<1>3. \A u \in Slots : Order[u] < Order[s] => existing[u] # None
  BY <1>2, OneStep DEF SequenceOK
<1>4. /\ s \in ACSlots => Order["acProgram"] < Order[s]
      /\ s \in MCMSlots => Order["mcmProgram"] < Order[s]
      /\ s = "timelock" => Order["timelockProgram"] < Order[s] /\ Order["acProgram"] < Order[s]
  BY SlotNames DEF Order
<1>5. {"acProgram", "mcmProgram", "timelockProgram"} \subseteq Slots \cap ProgramSlots
  BY SlotNames
<1>6. QED
  BY <1>1, <1>3, <1>4, <1>5 DEF HeldOK

\* An MCM or a timelock is held only with its program.
LEMMA InstancesHaveProgram ==
    ASSUME AcctsOK, NEW u \in Slots, existing[u] # None, HeldOK(u)
    PROVE  /\ u \in MCMSlots => existing["mcmProgram"] # None
           /\ u = "timelock" => existing["timelockProgram"] # None
<1>1. u \in MCMSlots \cup {"timelock"} => u \notin ProgramSlots
  BY SlotNames
<1>2. CASE u \in MCMSlots
  <2>1. existing[u] \in DOMAIN accts /\ accts[existing[u]].kind = "mcm" /\ accts[existing[u]].prog = existing.mcmProgram
    BY <1>1, <1>2, Kinds DEF HeldOK, Good
  <2>2. accts[existing[u]].prog # None
    BY <2>1, IdFacts
  <2>3. u # "timelock"
    BY <1>2, SlotNames
  <2>4. QED
    BY <2>1, <2>2, <2>3
<1>3. CASE u = "timelock"
  <2>1. existing[u] \in DOMAIN accts /\ accts[existing[u]].kind = "timelock" /\ accts[existing[u]].prog = existing.timelockProgram
    BY <1>1, <1>3, Kinds DEF HeldOK, Good
  <2>2. accts[existing[u]].prog # None
    BY <2>1, IdFacts
  <2>3. u \notin MCMSlots
    BY <1>3, SlotNames
  <2>4. QED
    BY <2>1, <2>2, <2>3
<1>4. QED
  BY <1>2, <1>3

\* The account a slot takes is one of the slot's kind, created by the program
\* the sequence holds.
Fits(s, id) ==
    /\ s \in MCMSlots => accts'[id].prog = existing.mcmProgram
    /\ s = "timelock" => accts'[id].prog = existing.timelockProgram

\* So its ref names it.
LEMMA AddressNamed ==
    ASSUME AcctsOK', SequenceOK, Running, NEW s \in Slots, At(s), NEW c, NEW id, Good(c, s, id)', Fits(s, id),
           NEW ref, ref = addressRef(s, id)
    PROVE  Named(c, s, ref)'
<1>1. /\ s \in MCMSlots => existing.mcmProgram \in Nat
      /\ s = "timelock" => existing.timelockProgram \in Nat
  BY ProgramsHeld
<1>2. id \in Nat /\ id # None
  <2>1. id \in DOMAIN accts'
    BY DEF Good
  <2>2. QED
    BY <2>1, ListIds, SentinelAssumption DEF AcctsOK
<1>3. CASE s \in MCMSlots
  <2>1. ref = [prog |-> existing.mcmProgram, seed |-> id]
    BY <1>3, SlotNames DEF addressRef
  <2>2. ref # None
    BY <1>1, <1>2, <1>3, <2>1, SentinelAssumption
  <2>3. QED
    BY <1>1, <1>3, <2>1, <2>2 DEF Named, IdOf, Fits
<1>4. CASE s = "timelock"
  <2>1. s \notin MCMSlots /\ ref = [prog |-> existing.timelockProgram, seed |-> id]
    BY <1>4, SlotNames DEF addressRef
  <2>2. ref # None
    BY <1>1, <1>2, <1>4, <2>1, SentinelAssumption
  <2>3. QED
    BY <1>1, <1>4, <2>1, <2>2 DEF Named, IdOf, Fits
<1>5. CASE s \notin Instances
  <2>1. ref = id
    BY <1>5 DEF addressRef, Instances
  <2>2. QED
    BY <1>2, <1>5, <2>1 DEF Named, IdOf, Instances
<1>6. QED
  BY <1>3, <1>4, <1>5 DEF Instances

\* The sequence goes on with the account of one more slot.
LEMMA HaveKeeps ==
    ASSUME AcctsOK, AcctsOK', SequenceOK, Running, NEW s \in Slots, At(s), existing[s] = None,
           Grows, todo' = todo, NEW id, Have(s, id), Good(ch, s, id)', Fits(s, id)
    PROVE  SequenceOK'
<1>1. /\ ch' = ch /\ ch \in todo /\ DOMAIN existing = Slots /\ OutNamed(ch, out)
      /\ \A u \in Slots : existing[u] # None => HeldOK(u)
      /\ \A u \in Slots : Order[u] < Order[s] => existing[u] # None /\ HeldOK(u)
      /\ s \in MCMSlots => existing.mcmProgram \in Nat
      /\ s = "timelock" => existing.timelockProgram \in Nat
  BY ProgramsHeld DEF ch
<1>2. /\ existing' = [existing EXCEPT ![s] = id] /\ pc' = After[s] /\ grants' = grants
      /\ out' = out \cup {[slot |-> s, addr |-> addressRef(s, id)]}
  BY DEF Have
<1>3. id \in DOMAIN accts' /\ id \in Nat /\ id # None
  <2>1. id \in DOMAIN accts'
    BY DEF Good
  <2>2. QED
    BY <2>1, ListIds, SentinelAssumption DEF AcctsOK
<1>4. DOMAIN existing' = Slots /\ existing'[s] = id /\ \A u \in Slots \ {s} : existing'[u] = existing[u]
  BY <1>1, <1>2
<1>5. HeldOK(s)'
  <2>1. s \in MCMSlots => existing'["mcmProgram"] = existing["mcmProgram"]
    BY <1>4, SlotNames
  <2>2. s = "timelock" => existing'["timelockProgram"] = existing["timelockProgram"]
    BY <1>4, SlotNames
  <2>3. QED
    BY <1>1, <1>3, <1>4, <2>1, <2>2 DEF HeldOK, Fits
<1>6. ASSUME NEW u \in Slots \ {s}, existing'[u] # None PROVE HeldOK(u)'
  <2>1. existing'[u] = existing[u] /\ existing[u] # None /\ HeldOK(u)
    BY <1>1, <1>4, <1>6
  <2>2. /\ u \in MCMSlots => existing'["mcmProgram"] = existing["mcmProgram"]
        /\ u = "timelock" => existing'["timelockProgram"] = existing["timelockProgram"]
    BY <2>1, <1>4, InstancesHaveProgram, SlotNames
  <2>3. PICK c, n : c = ch /\ n = existing[u]
    OBVIOUS
  <2>4. u \notin ProgramSlots => Good(c, u, n)' /\ accts'[n].prog = accts[n].prog
    BY <2>1, <2>3, GoodStable DEF HeldOK
  <2>5. u \in MCMSlots \cup {"timelock"} => u \notin ProgramSlots
    BY SlotNames
  <2>6. QED
    BY <1>1, <2>1, <2>2, <2>3, <2>4, <2>5 DEF HeldOK
<1>7. OutNamed(ch, out)'
  <2>1. PICK c, ref : c = ch /\ ref = addressRef(s, id)
    OBVIOUS
  <2>2. \A x \in out : x = [slot |-> x.slot, addr |-> x.addr] /\ x.slot \in Slots /\ Named(c, x.slot, x.addr)'
    BY <1>1, <2>1, NamedStable DEF OutNamed
  <2>3. Good(c, s, id)'
    BY <1>1, <2>1
  <2>4. Named(c, s, ref)'
    BY <2>1, <2>3, AddressNamed
  <2>5. out' = out \cup {[slot |-> s, addr |-> ref]}
    BY <1>2, <2>1
  <2>6. \A x \in out' : x = [slot |-> x.slot, addr |-> x.addr] /\ x.slot \in Slots /\ Named(c, x.slot, x.addr)'
    BY <2>2, <2>4, <2>5
  <2>7. QED
    BY <1>1, <2>1, <2>6 DEF OutNamed
<1>8. \A u \in Slots : u = s \/ Order[u] < Order[s] => existing'[u] # None
  BY <1>1, <1>3, <1>4
<1>9. /\ pc' \notin {"idle", "chain", "grant"}
      /\ \A u \in ProgramSlots : pc' # Waiting[u]
      /\ \A u \in MCMSlots : pc' # Configuring[u]
      /\ \/ pc' \in Slots /\ \A u \in Slots : Order[u] < Order[pc'] => existing'[u] # None
         \/ pc' = "roles" /\ \A u \in Slots : existing'[u] # None
  BY <1>2, <1>8, OrderNext, Places
<1>10. \/ \E t \in Slots : At(t)' /\ \A u \in Slots : Order[u] < Order[t] => existing'[u] # None
       \/ pc' \in {"roles", "grant", "done"} /\ \A u \in Slots : existing'[u] # None
  BY <1>9 DEF At
<1>11. \A u \in Slots : existing'[u] # None => HeldOK(u)'
  BY <1>5, <1>6
<1>12. QED
  BY <1>1, <1>4, <1>7, <1>9, <1>10, <1>11 DEF SequenceOK

----------------------------------------------------------------------------
(* The invariant is kept: the chain loop *)

\* What the sequence holds and has written stays so while it only grows accounts.
LEMMA SequenceStays ==
    ASSUME SequenceOK, Running, Grows, UNCHANGED <<existing, out, todo>>
    PROVE  /\ ch' = ch /\ ch \in todo /\ DOMAIN existing = Slots /\ OutNamed(ch, out)'
           /\ \A s \in Slots : existing[s] # None => HeldOK(s)'
<1>1. /\ ch \in todo /\ DOMAIN existing = Slots /\ OutNamed(ch, out)
      /\ \A s \in Slots : existing[s] # None => HeldOK(s)
  BY DEF SequenceOK
<1>2. ch' = ch
  BY DEF ch
<1>3. OutNamed(ch, out)'
  <2>1. PICK c : c = ch
    OBVIOUS
  <2>2. \A x \in out : x = [slot |-> x.slot, addr |-> x.addr] /\ x.slot \in Slots /\ Named(c, x.slot, x.addr)
    BY <1>1, <2>1 DEF OutNamed
  <2>3. \A x \in out : x = [slot |-> x.slot, addr |-> x.addr] /\ x.slot \in Slots /\ Named(c, x.slot, x.addr)'
    BY <2>2, NamedStable
  <2>4. QED
    BY <1>2, <2>1, <2>3 DEF OutNamed
<1>4. QED
  BY <1>1, <1>2, <1>3, HeldStays

\* A run starts with all its chains to do (Apply).
LEMMA StartDeploys ==
    ASSUME DeployInv, NEW i \in Inputs, Start(i)
    PROVE  DeployInv' /\ Grows
<1>1. UNCHANGED <<accts, ds, reports, fails, bundles, deletes>> /\ agg' = {}
  BY DEF Start
<1>2. AcctsOK' /\ Grows
  BY <1>1, SameGrows DEF DeployInv
<1>3. RefsNamed'
  BY <1>1, <1>2, RefsStay DEF DeployInv
<1>4. ReportsOK'
  BY <1>1, <1>2, ReportsStay DEF DeployInv
<1>5. SequenceOK' /\ ApplyOK'
  <2>1. runs < MaxRuns /\ runs' = runs + 1 /\ req' = i /\ todo' = DOMAIN i /\ pc' = "chain"
    BY DEF Start
  <2>2. runs \in 0..MaxRuns /\ MaxRuns \in Nat
    BY BoundsAssumption DEF DeployInv, ApplyOK
  <2>3. runs' \in 0..MaxRuns
    BY <2>1, <2>2
  <2>4. QED
    BY <1>1, <2>1, <2>3 DEF SequenceOK, ApplyOK, Running, DeployInv
<1>6. QED
  BY <1>2, <1>3, <1>4, <1>5 DEF DeployInv

\* The output of a report is that of one that was made.
LEMMA ReportOf ==
    ASSUME NEW op, NEW k, Reusable(op, k)
    PROVE  \E r \in reports[op] : r.k = k /\ OutputOf(op, k) = r.out
BY DEF Reusable, OutputOf

\* The refs of a chain that is reused name accounts of its set.
LEMMA ReuseChainDeploys ==
    ASSUME DeployInv, ReuseChain
    PROVE  DeployInv' /\ Grows
<1>1. /\ UNCHANGED <<accts, ds, reports, pc, req, counters>> /\ pc = "chain" /\ todo # {}
      /\ todo' = todo \ {ch} /\ Reusable("chain", ChainInput)
      /\ agg' = agg \cup Refs(OutputOf("chain", ChainInput))
  BY DEF ReuseChain
<1>2. AcctsOK' /\ Grows
  BY <1>1, SameGrows DEF DeployInv
<1>3. set \in Chains \X Quals /\ set[1] = ch
  BY <1>1, NextChain DEF DeployInv
<1>4. PICK r \in reports["chain"] : r.k = ChainInput /\ OutputOf("chain", ChainInput) = r.out
  BY <1>1, ReportOf
<1>5. PICK t, o : t = set /\ o = r.out
  OBVIOUS
<1>6. OutNamed(t[1], o)'
  <2>1. ChainReportOK(r) /\ r.k.ch = t[1]
    BY <1>3, <1>4, <1>5 DEF DeployInv, ReportsOK, ChainInput
  <2>2. OutNamed(t[1], o)
    BY <1>5, <2>1 DEF ChainReportOK
  <2>3. QED
    BY <1>2, <2>2, OutStays
<1>7. RefsNamed'
  <2>1. \A x \in agg' \ agg : \E y \in o : x = [set |-> t, slot |-> y.slot, addr |-> y.addr]
    BY <1>1, <1>4, <1>5 DEF Refs
  <2>2. t \in DOMAIN ds
    BY <1>3, <1>5 DEF DeployInv, RefsNamed
  <2>3. \A x \in agg' \ agg : x.set \in DOMAIN ds /\ x.slot \in Slots /\ Named(x.set[1], x.slot, x.addr)'
    BY <1>6, <2>1, <2>2 DEF OutNamed
  <2>4. QED
    BY <1>1, <1>2, <2>3, RefsStay DEF DeployInv
<1>8. ReportsOK'
  BY <1>1, <1>2, ReportsStay DEF DeployInv
<1>9. SequenceOK' /\ ApplyOK'
  BY <1>1 DEF SequenceOK, ApplyOK, Running, DeployInv, counters
<1>10. QED
  BY <1>2, <1>7, <1>8, <1>9 DEF DeployInv

\* What addresses.go loads of a set names accounts of the set's chain, instances
\* with the program that created them.
LEMMA LoadHeld ==
    ASSUME AcctsOK, RefsNamed, NEW t \in DOMAIN ds, loadable(ds[t]), NEW s \in Slots,
           NEW e, e = loadDeployedAddresses(ds[t]), e[s] # None
    PROVE  /\ s \in ProgramSlots => e[s] \in Nat
           /\ s \notin ProgramSlots => Good(t[1], s, e[s])
           /\ s \in MCMSlots => accts[e[s]].prog = e["mcmProgram"]
           /\ s = "timelock" => accts[e[s]].prog = e["timelockProgram"]
<1>1. \A u \in Slots : ds[t][u] # None => Named(t[1], u, ds[t][u])
  BY DEF RefsNamed
<1>2. /\ e["acProgram"] = ds[t]["acProgram"]
      /\ e["mcmProgram"] = reconcile(ds[t], "mcmProgram", MCMSlots)
      /\ e["timelockProgram"] = reconcile(ds[t], "timelockProgram", {"timelock"})
      /\ \A u \in ACSlots : e[u] = ds[t][u]
      /\ \A u \in MCMSlots \cup {"timelock"} : e[u] = IF ds[t][u] = None THEN None ELSE ds[t][u].seed
  BY SlotNames DEF loadDeployedAddresses
<1>3. \A u \in ProgramSlots : ds[t][u] # None => ds[t][u] \in Nat
  <2>1. ASSUME NEW u \in ProgramSlots, ds[t][u] # None PROVE ds[t][u] \in DOMAIN accts
    BY <1>1, <2>1, SlotNames DEF Named, Good, IdOf
  <2>2. QED
    BY <2>1, IdFacts
<1>4. \A u \in MCMSlots \cup {"timelock"} : ds[t][u] # None =>
         /\ ds[t][u].prog \in Nat /\ Good(t[1], u, ds[t][u].seed) /\ accts[ds[t][u].seed].prog = ds[t][u].prog
  BY <1>1, SlotNames DEF Named, IdOf, Instances
<1>5. /\ \A p \in Embedded(ds[t], MCMSlots) : p \in Nat
      /\ \A p \in Embedded(ds[t], {"timelock"}) : p \in Nat
  BY <1>4 DEF Embedded
<1>6. CASE s \in ProgramSlots
  <2>1. CASE s = "acProgram"
    BY <1>2, <1>3, <2>1, SlotNames
  <2>2. CASE s = "mcmProgram"
    BY <1>2, <1>3, <1>5, <2>2, SlotNames DEF reconcile
  <2>3. CASE s = "timelockProgram"
    BY <1>2, <1>3, <1>5, <2>3, SlotNames DEF reconcile
  <2>4. QED
    BY <1>6, <2>1, <2>2, <2>3, SlotNames
<1>7. CASE s \in ACSlots
  BY <1>1, <1>2, <1>7, SlotNames DEF Named, IdOf
<1>8. CASE s \in MCMSlots
  <2>1. ds[t][s] # None /\ e[s] = ds[t][s].seed
    BY <1>2, <1>8
  <2>2. ds[t][s].prog \in Embedded(ds[t], MCMSlots)
    BY <1>8, <2>1 DEF Embedded
  <2>3. ds[t][s].prog = e["mcmProgram"]
    BY <1>2, <2>2 DEF loadable, reconcileInstanceProgramID
  <2>4. QED
    BY <1>4, <1>8, <2>1, <2>3, SlotNames
<1>9. CASE s = "timelock"
  <2>1. ds[t][s] # None /\ e[s] = ds[t][s].seed
    BY <1>2, <1>9
  <2>2. ds[t][s].prog \in Embedded(ds[t], {"timelock"})
    BY <1>9, <2>1 DEF Embedded
  <2>3. ds[t][s].prog = e["timelockProgram"]
    BY <1>2, <2>2 DEF loadable, reconcileInstanceProgramID
  <2>4. QED
    BY <1>4, <1>9, <2>1, <2>3, SlotNames
<1>10. QED
  BY <1>6, <1>7, <1>8, <1>9, SlotNames

\* A chain begins with what the datastore has of its set.
LEMMA LoadDeploys ==
    ASSUME DeployInv, deployMCMSWithTimelock
    PROVE  DeployInv' /\ Grows
<1>1. /\ UNCHANGED <<accts, ds, reports, req, todo, agg, counters>> /\ pc = "chain" /\ todo # {}
      /\ loadable(ds[set]) /\ existing' = loadDeployedAddresses(ds[set])
      /\ out' = {} /\ pc' = "acProgram"
  BY DEF deployMCMSWithTimelock
<1>2. AcctsOK' /\ Grows
  BY <1>1, SameGrows DEF DeployInv
<1>3. RefsNamed' /\ ReportsOK'
  BY <1>1, <1>2, RefsStay, ReportsStay DEF DeployInv
<1>4. ApplyOK'
  BY <1>1 DEF DeployInv, ApplyOK, counters
<1>5. /\ ch \in todo /\ set \in DOMAIN ds /\ set[1] = ch /\ ch' = ch
  BY <1>1, NextChain DEF DeployInv, RefsNamed, ch
<1>6. PICK t, e : t = set /\ e = loadDeployedAddresses(ds[set])
  OBVIOUS
<1>7. ASSUME NEW s \in Slots, e[s] # None PROVE HeldOK(s)'
  <2>1. /\ s \in ProgramSlots => e[s] \in Nat
        /\ s \notin ProgramSlots => Good(t[1], s, e[s])
        /\ s \in MCMSlots => accts[e[s]].prog = e["mcmProgram"]
        /\ s = "timelock" => accts[e[s]].prog = e["timelockProgram"]
    BY <1>1, <1>5, <1>6, <1>7, LoadHeld DEF DeployInv
  <2>2. s \notin ProgramSlots => Good(t[1], s, e[s])'
    BY <1>2, <2>1, GoodStable
  <2>3. ch' = t[1] /\ existing' = e /\ accts' = accts
    BY <1>1, <1>5, <1>6
  <2>4. QED
    BY <2>1, <2>2, <2>3 DEF HeldOK
<1>8. /\ "acProgram" \in Slots /\ At("acProgram")' /\ \A u \in Slots : ~(Order[u] < Order["acProgram"])
      /\ \A u \in ProgramSlots : pc' # Waiting[u]
      /\ \A u \in MCMSlots : pc' # Configuring[u]
      /\ pc' # "grant"
  BY <1>1, SlotNames, Places DEF Order, At
<1>9. SequenceOK'
  <2>1. ch' \in todo' /\ DOMAIN existing' = Slots /\ OutNamed(ch, out)'
    BY <1>1, <1>5 DEF loadDeployedAddresses, OutNamed
  <2>2. \A s \in Slots : existing'[s] # None => HeldOK(s)'
    BY <1>1, <1>6, <1>7
  <2>3. \E s \in Slots : At(s)' /\ \A u \in Slots : Order[u] < Order[s] => existing'[u] # None
    BY <1>8
  <2>4. QED
    BY <1>8, <2>1, <2>2, <2>3 DEF SequenceOK
<1>10. QED
  BY <1>2, <1>3, <1>4, <1>9 DEF DeployInv

\* mergeOutputs writes the refs of the run; the others stay.
LEMMA ApplyDeploys ==
    ASSUME DeployInv, Apply
    PROVE  DeployInv' /\ Grows
<1>1. /\ UNCHANGED <<accts, reports, counters>> /\ ds' = mergeOutputs(agg)
      /\ pc' = "idle" /\ req' = <<>> /\ todo' = {} /\ agg' = {}
  BY DEF Apply, End
<1>2. AcctsOK' /\ Grows
  BY <1>1, SameGrows DEF DeployInv
<1>3. DOMAIN ds' = DOMAIN ds /\ \A t \in DOMAIN ds : ds'[t] = [s \in Slots |-> ds'[t][s]]
  BY <1>1 DEF mergeOutputs
<1>4. ASSUME NEW t \in DOMAIN ds, NEW s \in Slots, ds'[t][s] # None
      PROVE  Named(t[1], s, ds[t][s])'
  <2> DEFINE new == {r \in agg : r.set = t /\ r.slot = s}
  <2>1. ds'[t][s] = IF new = {} THEN ds[t][s] ELSE (CHOOSE r \in new : TRUE).addr
    BY <1>1 DEF mergeOutputs
  <2>2. \/ ds'[t][s] = ds[t][s]
        \/ \E r \in agg : r.set = t /\ r.slot = s /\ ds'[t][s] = r.addr
    BY <2>1
  <2>3. Named(t[1], s, ds'[t][s])
    BY <1>4, <2>2 DEF DeployInv, RefsNamed
  <2>4. PICK c, ref : c = t[1] /\ ref = ds'[t][s]
    OBVIOUS
  <2>5. Named(c, s, ref)
    BY <2>3, <2>4
  <2>6. Named(c, s, ref)'
    BY <1>2, <2>5, NamedStable
  <2>7. QED
    BY <2>4, <2>6
<1>5. RefsNamed'
  <2>1. \A t \in DOMAIN ds : \A s \in Slots : ds'[t][s] # None => Named(t[1], s, ds[t][s])'
    BY <1>4
  <2>2. QED
    BY <1>1, <1>3, <2>1 DEF RefsNamed, DeployInv
<1>6. ReportsOK'
  BY <1>1, <1>2, ReportsStay DEF DeployInv
<1>7. SequenceOK' /\ ApplyOK'
  BY <1>1 DEF SequenceOK, ApplyOK, Running, DeployInv, counters
<1>8. QED
  BY <1>2, <1>5, <1>6, <1>7 DEF DeployInv

\* A finished chain reports what it wrote.
LEMMA ChainDoneDeploys ==
    ASSUME DeployInv, ChainDone
    PROVE  DeployInv' /\ Grows
<1>1. /\ UNCHANGED <<accts, ds, req, counters>> /\ pc = "done" /\ pc' = "chain"
      /\ Report("chain", ChainInput, out) /\ agg' = agg \cup Refs(out) /\ todo' = todo \ {ch}
  BY DEF ChainDone
<1>2. AcctsOK' /\ Grows
  BY <1>1, SameGrows DEF DeployInv
<1>3. ch \in todo /\ OutNamed(ch, out)
  BY <1>1 DEF DeployInv, SequenceOK, Running
<1>4. /\ set \in DOMAIN ds /\ set[1] = ch /\ ch \in Chains /\ req[ch].qual \in Quals
  BY <1>3, NextChain DEF DeployInv, RefsNamed
<1>5. PICK t, o, k : t = set /\ o = out /\ k = ChainInput
  OBVIOUS
<1>6. OutNamed(t[1], o)'
  BY <1>2, <1>3, <1>4, <1>5, OutStays
<1>7. RefsNamed'
  <2>1. \A x \in agg' \ agg : \E y \in o : x = [set |-> t, slot |-> y.slot, addr |-> y.addr]
    BY <1>1, <1>5 DEF Refs
  <2>2. \A x \in agg' \ agg : x.set \in DOMAIN ds /\ x.slot \in Slots /\ Named(x.set[1], x.slot, x.addr)'
    BY <1>4, <1>5, <1>6, <2>1 DEF OutNamed
  <2>3. QED
    BY <1>1, <1>2, <2>2, RefsStay DEF DeployInv
<1>8. ReportsOK'
  <2>1. /\ DOMAIN reports' = DOMAIN reports /\ reports'["op"] = reports["op"]
        /\ reports'["chain"] = reports["chain"] \cup {[k |-> k, out |-> o]}
    BY <1>1, <1>5 DEF Report, DeployInv, ReportsOK
  <2>2. \A r \in reports["chain"] : ChainReportOK(r)'
    BY <1>2, ChainReportStays DEF DeployInv, ReportsOK
  <2>3. \A r \in reports["op"] : OpReportOK(r)'
    BY <1>2, OpReportStays DEF DeployInv, ReportsOK
  <2>4. k.ch = t[1] /\ k.ch \in Chains /\ k.config.qual \in Quals
    BY <1>4, <1>5 DEF ChainInput
  <2>5. ChainReportOK([k |-> k, out |-> o])'
    BY <1>6, <2>4 DEF ChainReportOK
  <2>6. QED
    BY <2>1, <2>2, <2>3, <2>5 DEF ReportsOK, DeployInv
<1>9. SequenceOK' /\ ApplyOK'
  BY <1>1 DEF SequenceOK, ApplyOK, Running, DeployInv, counters
<1>10. QED
  BY <1>2, <1>7, <1>8, <1>9 DEF DeployInv

----------------------------------------------------------------------------
(* The invariant is kept: the steps of a chain *)

\* The input of an operation begins with its slot; that of an instance goes on
\* with its program.
LEMMA KeyFacts ==
    ASSUME NEW s \in Slots
    PROVE  /\ OpKey(s).ch = ch /\ OpKey(s).in[1] = s
           /\ s \in MCMSlots => OpKey(s).in[2] = existing.mcmProgram
           /\ s = "timelock" => OpKey(s).in[2] = existing.timelockProgram
<1>1. OpKey(s).ch = ch /\ OpKey(s).in = InputOf(s)
  BY DEF OpKey, chainIdempotencyKey
<1>2. CASE s \in ProgramSlots
  BY <1>1, <1>2, SlotNames DEF InputOf, deployProgramInput
<1>3. CASE s \in ACSlots
  BY <1>1, <1>3, SlotNames DEF InputOf, initACAccountInput
<1>4. CASE s \in MCMSlots
  BY <1>1, <1>4, SlotNames DEF InputOf, initMCMInstanceInput
<1>5. CASE s = "timelock"
  BY <1>1, <1>5, SlotNames DEF InputOf, initTimelockInstanceInput
<1>6. QED
  BY <1>2, <1>3, <1>4, <1>5, SlotNames

\* The account of a slot is taken: by the operation, or from its report.
Took ==
    \E s \in Slots : \E id :
       /\ At(s) /\ existing[s] = None /\ id # None /\ Have(s, id)
       /\ reports' = reports \/ Report("op", OpKey(s), id)

\* A step that takes the account of its slot keeps the invariant.
LEMMA TakeDeploys ==
    ASSUME DeployInv, Running, AcctsOK', Grows, NEW s \in Slots, At(s), existing[s] = None,
           NEW id, Have(s, id), Good(ch, s, id)', Fits(s, id),
           UNCHANGED <<ds, req, todo, agg, counters>>,
           reports' = reports \/ Report("op", OpKey(s), id)
    PROVE  DeployInv' /\ Grows /\ Took
<1>1. SequenceOK'
  BY HaveKeeps DEF DeployInv
<1>2. RefsNamed'
  BY RefsStay DEF DeployInv
<1>3. ReportsOK'
  <2>1. PICK k, c : k = OpKey(s) /\ c = ch
    OBVIOUS
  <2>2. CASE Report("op", OpKey(s), id)
    <3>1. /\ k.ch = c /\ k.in[1] = s
          /\ s \in MCMSlots => k.in[2] = existing.mcmProgram
          /\ s = "timelock" => k.in[2] = existing.timelockProgram
      BY <2>1, KeyFacts
    <3>2. Good(c, s, id)'
      <4>1. ch' = ch
        BY DEF ch
      <4>2. QED
        BY <2>1, <4>1
    <3>3. OpReportOK([k |-> k, out |-> id])'
      BY <3>1, <3>2 DEF OpReportOK, Fits, Instances
    <3>4. QED
      BY <2>1, <2>2, <3>3, OpReported DEF DeployInv
  <2>3. CASE reports' = reports
    BY <2>3, ReportsStay DEF DeployInv
  <2>4. QED
    BY <2>2, <2>3
<1>4. ApplyOK'
  <2>1. pc' # "idle"
    BY OrderNext, Places DEF Have
  <2>2. QED
    BY <2>1 DEF DeployInv, ApplyOK, Running, counters
<1>5. Took
  <2>1. id \in DOMAIN accts'
    BY DEF Good
  <2>2. id # None
    BY <2>1, ListIds, SentinelAssumption DEF AcctsOK
  <2>3. QED
    BY <2>2 DEF Took
<1>6. QED
  BY <1>1, <1>2, <1>3, <1>4, <1>5 DEF DeployInv

\* A slot that is held needs no step of its own.
LEMMA HasDeploys ==
    ASSUME DeployInv, hasExisting
    PROVE  DeployInv' /\ Grows
<1>1. PICK s \in Slots : s = pc
  BY DEF hasExisting
<1>2. /\ UNCHANGED <<accts, ds, reports, req, todo, existing, out, agg, counters>>
      /\ existing[s] # None /\ pc' = After[s] /\ grants' = grants
  BY <1>1 DEF hasExisting, local
<1>3. At(s) /\ Running
  BY <1>1, Places DEF At, Running
<1>4. AcctsOK' /\ Grows
  BY <1>2, SameGrows DEF DeployInv
<1>5. RefsNamed' /\ ReportsOK'
  BY <1>2, <1>4, RefsStay, ReportsStay DEF DeployInv
<1>6. \A u \in Slots : u = s \/ Order[u] < Order[s] => existing'[u] # None
  BY <1>2, <1>3, ProgramsHeld DEF DeployInv
<1>7. /\ pc' \notin {"idle", "chain", "grant"}
      /\ \A u \in ProgramSlots : pc' # Waiting[u]
      /\ \A u \in MCMSlots : pc' # Configuring[u]
      /\ \/ pc' \in Slots /\ \A u \in Slots : Order[u] < Order[pc'] => existing'[u] # None
         \/ pc' = "roles" /\ \A u \in Slots : existing'[u] # None
  BY <1>2, <1>6, OrderNext, Places
<1>8. SequenceOK'
  <2>1. /\ ch' = ch /\ ch \in todo /\ DOMAIN existing = Slots /\ OutNamed(ch, out)'
        /\ \A u \in Slots : existing[u] # None => HeldOK(u)'
    BY <1>2, <1>3, <1>4, SequenceStays DEF DeployInv
  <2>2. \/ \E t \in Slots : At(t)' /\ \A u \in Slots : Order[u] < Order[t] => existing'[u] # None
        \/ pc' \in {"roles", "grant", "done"} /\ \A u \in Slots : existing'[u] # None
    BY <1>7 DEF At
  <2>3. QED
    BY <1>2, <1>7, <2>1, <2>2 DEF SequenceOK
<1>9. ApplyOK'
  BY <1>2, <1>3, <1>7 DEF DeployInv, ApplyOK, Running, counters
<1>10. QED
  BY <1>4, <1>5, <1>8, <1>9 DEF DeployInv

\* An operation's report in the bundle names the account it made.
LEMMA ReuseDeploys ==
    ASSUME DeployInv, ReuseOp
    PROVE  DeployInv' /\ Grows /\ Took
<1>1. PICK s, id, k : s \in Slots /\ s = pc /\ k = OpKey(s) /\ id = OutputOf("op", k)
  BY DEF ReuseOp
<1>2. /\ existing[s] = None /\ Reusable("op", k) /\ Have(s, id)
      /\ UNCHANGED <<accts, ds, reports, req, todo, agg, counters>>
  BY <1>1 DEF ReuseOp, needed
<1>3. At(s) /\ Running
  BY <1>1, Places DEF At, Running
<1>4. AcctsOK' /\ Grows
  BY <1>2, SameGrows DEF DeployInv
<1>5. PICK r \in reports["op"] : r.k = k /\ id = r.out
  BY <1>1, <1>2, ReportOf
<1>6. PICK c : c = ch
  OBVIOUS
<1>7. /\ Good(c, s, id)
      /\ s \in MCMSlots => accts[id].prog = existing.mcmProgram
      /\ s = "timelock" => accts[id].prog = existing.timelockProgram
  BY <1>1, <1>5, <1>6, KeyFacts DEF DeployInv, ReportsOK, OpReportOK, Instances
<1>8. Good(ch, s, id)'
  <2>1. ch' = ch
    BY <1>2 DEF ch
  <2>2. Good(c, s, id)'
    BY <1>4, <1>7, GoodStable
  <2>3. QED
    BY <1>6, <2>1, <2>2
<1>9. Fits(s, id)
  BY <1>2, <1>7 DEF Fits
<1>10. QED
  BY <1>1, <1>2, <1>3, <1>4, <1>8, <1>9, TakeDeploys

\* The first transaction of an operation: the account is there, the slot not
\* yet held.
LEMMA PartDeploys ==
    ASSUME DeployInv, NEW s \in ProgramSlots \cup MCMSlots, pc = s, existing[s] = None,
           NEW a, Create(a), a = IF s \in ProgramSlots THEN Account(ch, s, None)
                                 ELSE Account(ch, "mcm", existing.mcmProgram),
           pc' = IF s \in ProgramSlots THEN Waiting[s] ELSE Configuring[s],
           UNCHANGED <<ds, reports, req, todo, existing, grants, out, agg, counters>>
    PROVE  DeployInv' /\ Grows
<1>1. s \in Slots /\ At(s) /\ Running /\ s \in ProgramSlots \cup MCMSlots
  BY SlotNames, Places DEF At, Running
<1>2. /\ ch \in todo /\ DOMAIN existing = Slots
      /\ \A u \in Slots : Order[u] < Order[s] => existing[u] # None
      /\ s \in MCMSlots => existing.mcmProgram \in Nat
  BY <1>1, ProgramsHeld DEF DeployInv
<1>3. ch \in Chains
  BY <1>2, NextChain DEF DeployInv
<1>4. /\ DOMAIN a = AccountFields /\ a.ch = ch /\ a.delay = 0 /\ a.members = {}
      /\ a.kind = IF s \in ProgramSlots THEN s ELSE "mcm"
      /\ s \in MCMSlots => a.prog = existing.mcmProgram
  BY <1>1, SlotNames DEF Account, AccountFields
<1>5. a.kind \in {"mcm", "timelock"} => a.prog \in Nat
  BY <1>1, <1>2, <1>4, SlotNames
<1>6. a.ch \in Chains /\ a.delay \in 0..MaxUint64
  BY <1>3, <1>4, BoundsAssumption
<1>7. /\ AcctsOK' /\ Grows /\ Len(accts') = Len(accts) + 1
      /\ Len(accts') \in DOMAIN accts' /\ accts'[Len(accts')] = a
  BY <1>4, <1>5, <1>6, Created DEF DeployInv, NewId
<1>8. RefsNamed' /\ ReportsOK'
  BY <1>7, RefsStay, ReportsStay DEF DeployInv
<1>9. pc' \notin {"idle", "chain", "roles", "grant", "done"}
  BY <1>1, Places
<1>10. SequenceOK'
  <2>1. /\ ch' = ch /\ OutNamed(ch, out)' /\ \A u \in Slots : existing[u] # None => HeldOK(u)'
    BY <1>1, <1>7, SequenceStays DEF DeployInv
  <2>2. At(s)'
    BY <1>1 DEF At
  <2>3. \A u \in ProgramSlots : pc' = Waiting[u] => u = s
    BY <1>1, Places
  <2>4. \A u \in MCMSlots : pc' = Configuring[u] => u = s
    BY <1>1, Places
  <2>5. s \in ProgramSlots => Good(ch, s, Len(accts))'
    BY <1>4, <1>7, <2>1, Kinds, SlotNames DEF Good
  <2>6. s \in MCMSlots => s \notin ProgramSlots
    BY SlotNames
  <2>7. \A u \in ProgramSlots : pc' = Waiting[u] => existing'[u] = None /\ Good(ch, u, Len(accts))'
    BY <2>3, <2>5
  <2>8. ASSUME NEW u \in MCMSlots, pc' = Configuring[u]
        PROVE  /\ existing'[u] = None /\ accts'[Len(accts')].ch = ch' /\ accts'[Len(accts')].kind = "mcm"
               /\ accts'[Len(accts')].prog = existing'.mcmProgram
    BY <1>4, <1>7, <2>1, <2>4, <2>6, <2>8
  <2>9. \E u \in Slots : At(u)' /\ \A v \in Slots : Order[v] < Order[u] => existing'[v] # None
    BY <1>1, <1>2, <2>2
  <2>10. ch' \in todo' /\ DOMAIN existing' = Slots /\ \A u \in Slots : existing'[u] # None => HeldOK(u)'
    BY <1>2, <2>1
  <2>11. QED
    BY <1>7, <1>9, <2>1, <2>7, <2>8, <2>9, <2>10 DEF SequenceOK
<1>11. ApplyOK'
  BY <1>1, <1>9 DEF DeployInv, ApplyOK, Running, counters
<1>12. QED
  BY <1>7, <1>8, <1>10, <1>11 DEF DeployInv

\* A program is deployed; the operation still waits for it.
LEMMA ProgramDeploys ==
    ASSUME DeployInv, NEW s \in ProgramSlots, opDeployProgram(s)
    PROVE  DeployInv' /\ Grows
<1>1. /\ UNCHANGED <<ds, reports, req, todo, existing, grants, out, agg, counters>>
      /\ pc = s /\ existing[s] = None /\ pc' = Waiting[s] /\ Create(Account(ch, s, None))
  BY DEF opDeployProgram, MustRun, needed, local
<1>2. PICK a : a = Account(ch, s, None)
  OBVIOUS
<1>3. Create(a)
  BY <1>1, <1>2
<1>4. QED
  BY <1>1, <1>2, <1>3, PartDeploys

\* An MCM instance is initialized; its config is still to be set.
LEMMA MCMDeploys ==
    ASSUME DeployInv, opInitMCMInstance
    PROVE  DeployInv' /\ Grows
<1>1. PICK s \in MCMSlots :
         /\ UNCHANGED <<ds, reports, req, todo, existing, grants, out, agg, counters>>
         /\ pc = s /\ existing[s] = None /\ pc' = Configuring[s]
         /\ Create(Account(ch, "mcm", existing.mcmProgram))
  BY DEF opInitMCMInstance, MustRun, needed, local
<1>2. PICK a : a = Account(ch, "mcm", existing.mcmProgram)
  OBVIOUS
<1>3. Create(a)
  BY <1>1, <1>2
<1>4. s \notin ProgramSlots
  BY SlotNames
<1>5. QED
  BY <1>1, <1>2, <1>3, <1>4, PartDeploys

\* The program is seen executable.
LEMMA WaitDeploys ==
    ASSUME DeployInv, waitForProgramReady
    PROVE  DeployInv' /\ Grows /\ Took
<1>1. PICK s, id :
         /\ s \in ProgramSlots /\ pc = Waiting[s] /\ id = Len(accts) /\ Report("op", OpKey(s), id) /\ Have(s, id)
         /\ UNCHANGED <<accts, ds, req, todo, agg, counters>>
  BY DEF waitForProgramReady, Done
<1>2. s \in Slots /\ At(s) /\ Running
  BY <1>1, SlotNames, Places DEF At, Running
<1>3. existing[s] = None /\ Good(ch, s, Len(accts))
  BY <1>1, <1>2 DEF DeployInv, SequenceOK
<1>4. AcctsOK' /\ Grows
  BY <1>1, SameGrows DEF DeployInv
<1>5. Good(ch, s, id)'
  <2>1. PICK c : c = ch
    OBVIOUS
  <2>2. Good(c, s, id)'
    BY <1>1, <1>3, <1>4, <2>1, GoodStable
  <2>3. ch' = ch
    BY <1>1 DEF ch
  <2>4. QED
    BY <2>1, <2>2, <2>3
<1>6. Fits(s, id)
  BY <1>1, SlotNames DEF Fits
<1>7. QED
  BY <1>1, <1>2, <1>3, <1>4, <1>5, <1>6, TakeDeploys

\* Creation and initialization of an access controller are one transaction.
LEMMA AccessControllerDeploys ==
    ASSUME DeployInv, opInitAccessControllerAccount
    PROVE  DeployInv' /\ Grows /\ Took
<1>1. PICK s, id, a :
         /\ s \in ACSlots /\ pc = s /\ existing[s] = None /\ id = NewId /\ a = Account(ch, "ac", existing.acProgram)
         /\ Create(a) /\ Report("op", OpKey(s), id) /\ Have(s, id)
         /\ UNCHANGED <<ds, req, todo, agg, counters>>
  BY DEF opInitAccessControllerAccount, Done, MustRun, needed, buildAccessControllerInit
<1>2. s \in Slots /\ At(s) /\ Running
  BY <1>1, SlotNames, Places DEF At, Running
<1>3. ch \in Chains
  <2>1. ch \in todo
    BY <1>2 DEF DeployInv, SequenceOK
  <2>2. QED
    BY <2>1, NextChain DEF DeployInv
<1>4. /\ DOMAIN a = AccountFields /\ a.ch = ch /\ a.delay = 0 /\ a.members = {} /\ a.kind = "ac"
  BY <1>1 DEF Account, AccountFields
<1>5. a.ch \in Chains /\ a.delay \in 0..MaxUint64 /\ a.kind \notin {"mcm", "timelock"}
  BY <1>3, <1>4, BoundsAssumption
<1>6. AcctsOK' /\ Grows /\ id \in DOMAIN accts' /\ accts'[id] = a
  BY <1>1, <1>4, <1>5, Created DEF DeployInv
<1>7. Good(ch, s, id)'
  <2>1. ch' = ch
    BY <1>1 DEF ch
  <2>2. QED
    BY <1>1, <1>4, <1>6, <2>1, Kinds, SlotNames DEF Good
<1>8. Fits(s, id)
  BY <1>1, SlotNames DEF Fits
<1>9. QED
  BY <1>1, <1>2, <1>6, <1>7, <1>8, TakeDeploys

\* SetConfig is the second transaction of an MCM instance.
LEMMA ConfigDeploys ==
    ASSUME DeployInv, initMCMInstance
    PROVE  DeployInv' /\ Grows /\ Took
<1>1. PICK s, id :
         /\ s \in MCMSlots /\ pc = Configuring[s] /\ id = Len(accts) /\ SetConfig(id)
         /\ Report("op", OpKey(s), id) /\ Have(s, id)
         /\ UNCHANGED <<ds, req, todo, agg, counters>>
  BY DEF initMCMInstance, Done
<1>2. s \in Slots /\ At(s) /\ Running
  BY <1>1, SlotNames, Places DEF At, Running
<1>3. /\ existing[s] = None /\ id \in DOMAIN accts /\ accts[id].ch = ch /\ accts[id].kind = "mcm"
      /\ accts[id].prog = existing.mcmProgram /\ ch \in todo
  BY <1>1, <1>2 DEF DeployInv, SequenceOK
<1>4. PICK a : a = [accts[id] EXCEPT !.cfg = req[ch].cfg]
  OBVIOUS
<1>5. AccountOK(id) /\ req[ch].cfg # None
  BY <1>3, NextChain DEF DeployInv, AcctsOK
<1>6. accts' = [accts EXCEPT ![id] = a]
  BY <1>1, <1>4 DEF SetConfig
<1>7. /\ DOMAIN a = AccountFields /\ a.ch = accts[id].ch /\ a.kind = accts[id].kind
      /\ a.prog = accts[id].prog /\ a.acs = accts[id].acs /\ a.delay = accts[id].delay
      /\ a.cfg # None /\ a.members = accts[id].members
  BY <1>4, <1>5 DEF AccountOK, AccountFields
<1>8. AcctsOK' /\ Grows /\ id \in DOMAIN accts' /\ accts'[id] = a
  BY <1>3, <1>6, <1>7, Changed DEF DeployInv
<1>9. Good(ch, s, id)'
  <2>1. ch' = ch
    BY <1>1 DEF ch
  <2>2. QED
    BY <1>1, <1>3, <1>7, <1>8, <2>1, Kinds DEF Good
<1>10. Fits(s, id)
  BY <1>1, <1>3, <1>7, <1>8, SlotNames DEF Fits
<1>11. QED
  BY <1>1, <1>2, <1>3, <1>8, <1>9, <1>10, TakeDeploys

\* A timelock account has a delay the program can hold.
LEMMA TimelockCreated ==
    ASSUME DeployInv, Running, At("timelock"), timelockMinDelayUint64(req[ch].delay), Create(Timelock)
    PROVE  /\ AcctsOK' /\ Grows /\ NewId \in DOMAIN accts' /\ accts'[NewId] = Timelock
           /\ Timelock.ch = ch /\ Timelock.kind = "timelock" /\ Timelock.prog = existing.timelockProgram
<1>1. ch \in todo /\ existing.timelockProgram \in Nat
  BY SlotNames, ProgramsHeld DEF DeployInv
<1>2. ch \in Chains
  BY <1>1, NextChain DEF DeployInv
<1>3. PICK a : a = Timelock
  OBVIOUS
<1>4. /\ DOMAIN a = AccountFields /\ a.ch = ch /\ a.kind = "timelock" /\ a.members = {}
      /\ a.prog = existing.timelockProgram /\ a.delay = req[ch].delay
  BY <1>3 DEF Timelock, Account, AccountFields
<1>5. a.ch \in Chains /\ a.delay \in 0..MaxUint64 /\ a.prog \in Nat
  BY <1>1, <1>2, <1>4 DEF timelockMinDelayUint64
<1>6. Create(a)
  BY <1>3
<1>7. AcctsOK' /\ Grows /\ NewId \in DOMAIN accts' /\ accts'[NewId] = a
  BY <1>4, <1>5, <1>6, Created DEF DeployInv
<1>8. QED
  BY <1>3, <1>4, <1>7

\* The timelock is initialized with the access controllers held.
LEMMA TimelockDeploys ==
    ASSUME DeployInv, opInitTimelockInstance
    PROVE  DeployInv' /\ Grows /\ Took
<1>1. /\ pc = "timelock" /\ existing["timelock"] = None /\ timelockMinDelayUint64(req[ch].delay)
      /\ Create(Timelock) /\ Done("timelock", NewId)
      /\ UNCHANGED <<ds, req, todo, agg, counters>>
  BY DEF opInitTimelockInstance, MustRun, needed
<1>2. "timelock" \in Slots /\ At("timelock") /\ Running
  BY <1>1, SlotNames DEF At, Running
<1>3. PICK id, s : id = NewId /\ s = "timelock"
  OBVIOUS
<1>4. /\ AcctsOK' /\ Grows /\ id \in DOMAIN accts' /\ accts'[id].ch = ch
      /\ accts'[id].kind = "timelock" /\ accts'[id].prog = existing.timelockProgram
  BY <1>1, <1>2, <1>3, TimelockCreated
<1>5. Good(ch, s, id)'
  <2>1. ch' = ch
    BY <1>1 DEF ch
  <2>2. QED
    BY <1>3, <1>4, <2>1, Kinds, SlotNames DEF Good
<1>6. Fits(s, id)
  BY <1>3, <1>4, SlotNames DEF Fits
<1>7. s \in Slots /\ At(s) /\ existing[s] = None /\ Have(s, id) /\ Report("op", OpKey(s), id)
  BY <1>1, <1>2, <1>3 DEF Done
<1>8. QED
  BY <1>1, <1>2, <1>4, <1>5, <1>6, <1>7, TakeDeploys

\* The roles are granted already, or will be one by one.
LEMMA RolesDeploys ==
    ASSUME DeployInv, setupTimelockRoles
    PROVE  DeployInv' /\ Grows
<1>1. /\ pc = "roles" /\ UNCHANGED <<accts, ds, reports, req, todo, existing, out, agg, counters>>
      /\ (pc' = "done" \/ (pc' = "grant" /\ grants' = timelockRoleGrants))
  <2>1. /\ pc = "roles" /\ UNCHANGED <<accts, ds, reports, req, todo, existing, out, agg, counters>>
    BY DEF setupTimelockRoles
  <2>2. CASE Reusable("op", rolesKey)
    BY <2>2 DEF setupTimelockRoles
  <2>3. CASE ~Reusable("op", rolesKey)
    BY <2>3 DEF setupTimelockRoles
  <2>4. QED
    BY <2>1, <2>2, <2>3
<1>2. AcctsOK' /\ Grows
  BY <1>1, SameGrows DEF DeployInv
<1>3. RefsNamed' /\ ReportsOK'
  BY <1>1, <1>2, RefsStay, ReportsStay DEF DeployInv
<1>4. Running /\ \A s \in Slots : ~At(s)
  BY <1>1, Places, SlotNames DEF Running, At
<1>5. \A u \in Slots : existing[u] # None
  BY <1>4 DEF DeployInv, SequenceOK
<1>6. (pc = "grant" => /\ Len(grants) \in 1..4
                       /\ grants = [n \in 1..Len(grants) |-> timelockRoleGrants[n + 4 - Len(grants)]])'
  <2>1. timelockRoleGrants' = timelockRoleGrants
    BY <1>1 DEF timelockRoleGrants, Signer, SignerPDA, Deployer
  <2>2. PICK g, T : g = grants' /\ T = timelockRoleGrants
    OBVIOUS
  <2>3. Len(T) = 4 /\ DOMAIN T = 1..4 /\ T = [n \in 1..4 |-> T[n]]
    BY <2>2 DEF timelockRoleGrants
  <2>4. \A n \in 1..4 : n + 4 - 4 = n
    OBVIOUS
  <2>5. T = [n \in 1..4 |-> T[n + 4 - 4]]
    BY <2>3, <2>4
  <2>6. ASSUME pc' = "grant"
        PROVE  /\ Len(g) \in 1..4 /\ g = [n \in 1..Len(g) |-> T[n + 4 - Len(g)]]
    <3>1. g = T
      BY <1>1, <2>2, <2>6
    <3>2. QED
      BY <2>3, <2>5, <3>1
  <2>7. QED
    BY <2>1, <2>2, <2>6
<1>7. SequenceOK'
  <2>1. /\ ch' = ch /\ ch \in todo /\ DOMAIN existing = Slots /\ OutNamed(ch, out)'
        /\ \A u \in Slots : existing[u] # None => HeldOK(u)'
    BY <1>1, <1>2, <1>4, SequenceStays DEF DeployInv
  <2>2. /\ \A u \in ProgramSlots : pc' # Waiting[u]
        /\ \A u \in MCMSlots : pc' # Configuring[u]
    BY <1>1, Places
  <2>3. QED
    BY <1>1, <1>5, <1>6, <2>1, <2>2 DEF SequenceOK
<1>8. ApplyOK'
  BY <1>1 DEF DeployInv, ApplyOK, counters
<1>9. QED
  BY <1>2, <1>3, <1>7, <1>8 DEF DeployInv

\* The grants name an access controller and the signers of MCMs.
LEMMA GrantFacts ==
    ASSUME NEW n \in 1..4
    PROVE  /\ timelockRoleGrants[n].ac \in ACSlots
           /\ \A m \in timelockRoleGrants[n].to \ {Deployer} : \E r \in MCMRoles : m = Signer(r)
<1>1. {"proposer", "canceller", "bypasser"} \subseteq MCMRoles
  BY DEF MCMRoles
<1>2. n = 1 \/ n = 2 \/ n = 3 \/ n = 4
  OBVIOUS
<1>3. QED
  BY <1>1, <1>2, SlotNames DEF timelockRoleGrants

\* While it grants, the sequence holds every account and sends the last of the
\* grants.
LEMMA Granting ==
    ASSUME DeployInv, pc = "grant"
    PROVE  /\ ch \in todo /\ DOMAIN existing = Slots /\ \A s \in Slots : existing[s] # None /\ HeldOK(s)
           /\ Len(grants) \in 1..4 /\ grants # <<>>
           /\ Head(grants) = timelockRoleGrants[5 - Len(grants)]
           /\ Len(Tail(grants)) = Len(grants) - 1
           /\ Tail(grants) = [n \in 1..(Len(grants) - 1) |-> timelockRoleGrants[n + 4 - (Len(grants) - 1)]]
<1>1. Running /\ \A s \in Slots : ~At(s)
  BY Places, SlotNames DEF Running, At
<1>2. ch \in todo /\ DOMAIN existing = Slots /\ \A s \in Slots : existing[s] # None /\ HeldOK(s)
  BY <1>1 DEF DeployInv, SequenceOK
<1>3. PICK q, N, R : q = grants /\ N = 4 /\ R = timelockRoleGrants
  OBVIOUS
<1>4. Len(q) \in 1..N /\ q = [n \in 1..Len(q) |-> R[n + N - Len(q)]]
  BY <1>1, <1>3 DEF DeployInv, SequenceOK
<1>5. N \in Nat /\ Len(q) \in 0..N /\ q # <<>>
  <2>1. N \in Nat /\ Len(q) \in 0..N
    BY <1>3, <1>4
  <2>2. 1 \in 1..Len(q)
    BY <1>3, <1>4
  <2>3. DOMAIN q = 1..Len(q)
    BY <1>4
  <2>4. QED
    BY <2>1, <2>2, <2>3
<1>6. Head(q) = R[N + 1 - Len(q)]
  BY <1>4, <1>5, SuffixTail
<1>7. Len(Tail(q)) = Len(q) - 1
  BY <1>4, <1>5, SuffixTail
<1>8. Tail(q) = [n \in 1..(Len(q) - 1) |-> R[n + N - (Len(q) - 1)]]
  BY <1>4, <1>5, SuffixTail
<1>9. N + 1 - Len(q) = 5 - Len(q)
  BY <1>3, <1>4
<1>10. QED
  BY <1>2, <1>3, <1>4, <1>5, <1>6, <1>7, <1>8, <1>9

\* A grant adds configured MCMs of the chain to an access controller.
LEMMA GrantGrows ==
    ASSUME DeployInv, opSetupTimelockRoles, NEW g, g = Head(grants)
    PROVE  /\ g.ac \in ACSlots /\ existing[g.ac] \in DOMAIN accts
           /\ AcctsOK' /\ Grows
           /\ g.to \subseteq accts'[existing[g.ac]].members
<1>1. pc = "grant" /\ accts' = [accts EXCEPT ![existing[g.ac]].members = @ \cup g.to]
  BY DEF opSetupTimelockRoles, buildTimelockBatchAddAccess
<1>2. PICK n \in 1..4 : g = timelockRoleGrants[n]
  <2>1. PICK L : L = Len(grants)
    OBVIOUS
  <2>2. L \in 1..4 /\ g = timelockRoleGrants[5 - L]
    BY <1>1, <2>1, Granting
  <2>3. 5 - L \in 1..4
    BY <2>2
  <2>4. QED
    BY <2>2, <2>3
<1>3. g.ac \in ACSlots /\ \A m \in g.to \ {Deployer} : \E r \in MCMRoles : m = Signer(r)
  BY <1>2, GrantFacts
<1>4. /\ \A s \in Slots \ ProgramSlots : Good(ch, s, existing[s])
      /\ \A s \in MCMSlots : accts[existing[s]].prog = existing.mcmProgram
  BY <1>1, Granting, SlotNames DEF HeldOK
<1>5. PICK k : k = existing[g.ac]
  OBVIOUS
<1>6. k \in DOMAIN accts /\ accts[k].ch = ch /\ AccountOK(k)
  BY <1>3, <1>4, <1>5, SlotNames DEF Good, DeployInv, AcctsOK
<1>7. ASSUME NEW m \in g.to \ {Deployer} PROVE MemberOK(k, m)
  <2>1. PICK r \in MCMRoles : m = Signer(r)
    BY <1>3
  <2>2. MCMSlot[r] \in MCMSlots /\ MCMSlot[r] \in Slots \ ProgramSlots
    BY SlotNames DEF MCMSlots
  <2>3. m.seed = existing[MCMSlot[r]] /\ m.prog = existing.mcmProgram
    BY <2>1 DEF Signer, SignerPDA
  <2>4. QED
    BY <1>4, <1>6, <2>2, <2>3, Kinds DEF Good, MemberOK
<1>8. PICK a : a = [accts[k] EXCEPT !.members = @ \cup g.to]
  OBVIOUS
<1>9. accts' = [accts EXCEPT ![k] = a]
  BY <1>1, <1>5, <1>8
<1>10. /\ DOMAIN a = AccountFields /\ a.ch = accts[k].ch /\ a.kind = accts[k].kind
       /\ a.prog = accts[k].prog /\ a.acs = accts[k].acs /\ a.delay = accts[k].delay
       /\ a.cfg = accts[k].cfg /\ a.members = accts[k].members \cup g.to
  BY <1>6, <1>8 DEF AccountOK, AccountFields
<1>11. AcctsOK' /\ Grows /\ accts'[k] = a
  BY <1>6, <1>7, <1>9, <1>10, Changed DEF DeployInv
<1>12. QED
  BY <1>3, <1>5, <1>6, <1>10, <1>11

\* A role is granted to configured MCM instances of the chain.
LEMMA GrantDeploys ==
    ASSUME DeployInv, opSetupTimelockRoles
    PROVE  DeployInv' /\ Grows
<1>1. /\ pc = "grant" /\ grants' = Tail(grants)
      /\ UNCHANGED <<ds, req, todo, existing, out, agg, counters>>
  BY DEF opSetupTimelockRoles
<1>2. \/ Len(grants) = 1 /\ Report("op", rolesKey, None) /\ pc' = "done"
      \/ Len(grants) # 1 /\ reports' = reports /\ pc' = "grant"
  BY <1>1 DEF opSetupTimelockRoles
<1>3. AcctsOK' /\ Grows
  BY GrantGrows
<1>4. RefsNamed'
  BY <1>1, <1>3, RefsStay DEF DeployInv
<1>5. ReportsOK'
  <2>1. CASE Report("op", rolesKey, None)
    <3>1. PICK k : k = rolesKey
      OBVIOUS
    <3>2. k.in[1] \notin Slots
      BY <3>1, Places DEF rolesKey, chainIdempotencyKey, setupTimelockRolesInput
    <3>3. OpReportOK([k |-> k, out |-> None])'
      BY <3>2 DEF OpReportOK
    <3>4. QED
      BY <1>3, <2>1, <3>1, <3>3, OpReported DEF DeployInv
  <2>2. CASE reports' = reports
    BY <1>3, <2>2, ReportsStay DEF DeployInv
  <2>3. QED
    BY <1>2, <2>1, <2>2
<1>6. SequenceOK'
  <2>1. Running /\ \A u \in Slots : existing[u] # None
    BY <1>1, Granting DEF Running
  <2>2. /\ ch' = ch /\ ch \in todo /\ DOMAIN existing = Slots /\ OutNamed(ch, out)'
        /\ \A u \in Slots : existing[u] # None => HeldOK(u)'
    BY <1>1, <1>3, <2>1, SequenceStays DEF DeployInv
  <2>3. (pc = "grant" => /\ Len(grants) \in 1..4
                         /\ grants = [n \in 1..Len(grants) |-> timelockRoleGrants[n + 4 - Len(grants)]])'
    <3>1. timelockRoleGrants' = timelockRoleGrants
      BY <1>1 DEF timelockRoleGrants, Signer, SignerPDA, Deployer
    <3>2. PICK L, q, T : L = Len(grants) - 1 /\ q = Tail(grants) /\ T = timelockRoleGrants
      OBVIOUS
    <3>3. L \in 0..3 /\ Len(q) = L /\ q = [n \in 1..L |-> T[n + 4 - L]] /\ grants' = q
      BY <1>1, <3>2, Granting
    <3>4. pc' = "grant" => L # 0
      BY <1>1, <1>2, <3>2, Granting
    <3>5. ASSUME pc' = "grant" PROVE Len(q) \in 1..4 /\ q = [n \in 1..Len(q) |-> T[n + 4 - Len(q)]]
      BY <3>3, <3>4, <3>5
    <3>6. QED
      BY <3>1, <3>2, <3>3, <3>5
  <2>4. /\ \A u \in ProgramSlots : pc' # Waiting[u]
        /\ \A u \in MCMSlots : pc' # Configuring[u]
    BY <1>2, Places
  <2>5. QED
    BY <1>1, <1>2, <2>1, <2>2, <2>3, <2>4 DEF SequenceOK
<1>7. ApplyOK'
  BY <1>1, <1>2 DEF DeployInv, ApplyOK, counters
<1>8. QED
  BY <1>3, <1>4, <1>5, <1>6, <1>7 DEF DeployInv

----------------------------------------------------------------------------
(* The invariant is kept: failures, fresh bundles, deletions, payments *)

\* A run that ends early leaves accounts, refs and reports.
LEMMA EndDeploys ==
    ASSUME DeployInv, AcctsOK', Grows, End, UNCHANGED <<ds, reports, runs, bundles, deletes>>,
           fails' \in 0..MaxFails
    PROVE  DeployInv' /\ Grows
<1>1. pc' = "idle" /\ req' = <<>> /\ todo' = {} /\ agg' = {}
  BY DEF End
<1>2. RefsNamed' /\ ReportsOK'
  BY <1>1, RefsStay, ReportsStay DEF DeployInv
<1>3. SequenceOK' /\ ApplyOK'
  BY <1>1 DEF DeployInv, SequenceOK, ApplyOK, Running
<1>4. QED
  BY <1>2, <1>3 DEF DeployInv

\* A run that fails, or that no retry can end, writes no ref.
LEMMA FailDeploys ==
    ASSUME DeployInv, Fail \/ Refused
    PROVE  DeployInv' /\ Grows
<1>1. End /\ UNCHANGED <<accts, ds, reports, runs, bundles, deletes>>
  BY DEF Fail, Refused, Abort, counters
<1>2. fails' \in 0..MaxFails
  <2>1. fails \in 0..MaxFails /\ MaxFails \in Nat
    BY BoundsAssumption DEF DeployInv, ApplyOK
  <2>2. fails' = fails \/ (fails < MaxFails /\ fails' = fails + 1)
    BY DEF Fail, Refused, Abort, counters
  <2>3. QED
    BY <2>1, <2>2
<1>3. AcctsOK' /\ Grows
  BY <1>1, SameGrows DEF DeployInv
<1>4. QED
  BY <1>1, <1>2, <1>3, EndDeploys

\* The account of a lost result is there, whoever looks for it.
LEMMA LoseDeploys ==
    ASSUME DeployInv, LoseResult
    PROVE  DeployInv' /\ Grows
<1>1. End /\ UNCHANGED <<ds, reports, runs, bundles, deletes>> /\ fails' = fails + 1 /\ fails < MaxFails
  BY DEF LoseResult, Abort
<1>2. fails' \in 0..MaxFails
  <2>1. fails \in 0..MaxFails /\ MaxFails \in Nat
    BY BoundsAssumption DEF DeployInv, ApplyOK
  <2>2. QED
    BY <1>1, <2>1
<1>3. CASE /\ \E s \in ACSlots : MustRun(s)
           /\ Create(buildAccessControllerInit)
  <2>1. PICK s \in ACSlots : pc = s
    BY <1>3 DEF MustRun, needed
  <2>2. ch \in todo
    BY <2>1, SlotNames, Places DEF DeployInv, SequenceOK, Running
  <2>3. ch \in Chains
    BY <2>2, NextChain DEF DeployInv
  <2>4. PICK a : a = Account(ch, "ac", existing.acProgram)
    OBVIOUS
  <2>5. DOMAIN a = AccountFields /\ a.ch = ch /\ a.delay = 0 /\ a.members = {} /\ a.kind = "ac"
    BY <2>4 DEF Account, AccountFields
  <2>6. a.ch \in Chains /\ a.delay \in 0..MaxUint64 /\ a.kind \notin {"mcm", "timelock"}
    BY <2>3, <2>5, BoundsAssumption
  <2>7. Create(a)
    BY <1>3, <2>4 DEF buildAccessControllerInit
  <2>8. AcctsOK' /\ Grows
    BY <2>5, <2>6, <2>7, Created DEF DeployInv
  <2>9. QED
    BY <1>1, <1>2, <2>8, EndDeploys
<1>4. CASE MustRun("timelock") /\ timelockMinDelayUint64(req[ch].delay) /\ Create(Timelock)
  <2>1. Running /\ At("timelock")
    BY <1>4 DEF MustRun, needed, Running, At
  <2>2. AcctsOK' /\ Grows
    BY <1>4, <2>1, TimelockCreated
  <2>3. QED
    BY <1>1, <1>2, <2>2, EndDeploys
<1>5. QED
  BY <1>3, <1>4 DEF LoseResult

\* A fresh bundle forgets the reports, not the accounts and refs.
LEMMA NewBundleDeploys ==
    ASSUME DeployInv, NewBundle
    PROVE  DeployInv' /\ Grows
<1>1. /\ UNCHANGED <<accts, ds, agg, pc, req, todo, runs, fails, deletes>> /\ reports' = NoReports
      /\ pc = "idle" /\ bundles < MaxBundles /\ bundles' = bundles + 1
  BY DEF NewBundle
<1>2. AcctsOK' /\ Grows
  BY <1>1, SameGrows DEF DeployInv
<1>3. RefsNamed'
  BY <1>1, <1>2, RefsStay DEF DeployInv
<1>4. ReportsOK'
  BY <1>1 DEF ReportsOK, NoReports
<1>5. bundles' \in 0..MaxBundles
  <2>1. bundles \in 0..MaxBundles /\ MaxBundles \in Nat
    BY BoundsAssumption DEF DeployInv, ApplyOK
  <2>2. QED
    BY <1>1, <2>1
<1>6. SequenceOK' /\ ApplyOK'
  BY <1>1, <1>5 DEF DeployInv, SequenceOK, ApplyOK, Running
<1>7. QED
  BY <1>2, <1>3, <1>4, <1>6 DEF DeployInv

\* The refs that a deletion leaves name what they did.
LEMMA DeleteDeploys ==
    ASSUME DeployInv, NEW u \in DOMAIN ds, NEW slots, Delete(u, slots)
    PROVE  DeployInv' /\ Grows
<1>1. /\ UNCHANGED <<accts, reports, agg, pc, req, todo, runs, fails, bundles>>
      /\ pc = "idle" /\ deletes < MaxDeletes /\ deletes' = deletes + 1
      /\ ds' = [ds EXCEPT ![u] = [s \in Slots |-> IF s \in slots THEN None ELSE @[s]]]
  BY DEF Delete
<1>2. AcctsOK' /\ Grows
  BY <1>1, SameGrows DEF DeployInv
<1>3. /\ DOMAIN ds' = DOMAIN ds /\ \A t \in DOMAIN ds : ds'[t] = [s \in Slots |-> ds'[t][s]]
      /\ \A t \in DOMAIN ds, s \in Slots : ds'[t][s] # None => ds'[t][s] = ds[t][s]
  BY <1>1 DEF DeployInv, RefsNamed
<1>4. ASSUME NEW t \in DOMAIN ds, NEW s \in Slots, ds'[t][s] # None
      PROVE  Named(t[1], s, ds[t][s])'
  <2>1. PICK c, ref : c = t[1] /\ ref = ds[t][s]
    OBVIOUS
  <2>2. Named(c, s, ref) /\ ds'[t][s] = ref
    BY <1>3, <1>4, <2>1 DEF DeployInv, RefsNamed
  <2>3. Named(c, s, ref)'
    BY <1>2, <2>2, NamedStable
  <2>4. QED
    BY <2>1, <2>2, <2>3
<1>5. RefsNamed'
  <2>1. \A r \in agg : r.set \in DOMAIN ds /\ r.slot \in Slots /\ Named(r.set[1], r.slot, r.addr)'
    BY <1>2, NamedStable DEF DeployInv, RefsNamed
  <2>2. QED
    BY <1>1, <1>3, <1>4, <2>1 DEF DeployInv, RefsNamed
<1>6. ReportsOK'
  BY <1>1, <1>2, ReportsStay DEF DeployInv
<1>7. deletes' \in 0..MaxDeletes
  <2>1. deletes \in 0..MaxDeletes /\ MaxDeletes \in Nat
    BY BoundsAssumption DEF DeployInv, ApplyOK
  <2>2. QED
    BY <1>1, <2>1
<1>8. SequenceOK' /\ ApplyOK'
  BY <1>1, <1>7 DEF DeployInv, SequenceOK, ApplyOK, Running
<1>9. QED
  BY <1>2, <1>5, <1>6, <1>8 DEF DeployInv

\* fund-mcm-pdas creates no account and writes no ref; while the deploy runs it
\* does nothing.
LEMMA PayDeploys ==
    ASSUME DeployInv, UNCHANGED <<accts, ds, pc, req, todo, local, agg, runs, bundles, deletes>>,
           fails' \in 0..MaxFails, DOMAIN reports' = DOMAIN reports,
           UNCHANGED <<reports["chain"], reports["op"]>>
    PROVE  DeployInv' /\ Grows
<1>1. AcctsOK' /\ Grows
  BY SameGrows DEF DeployInv
<1>2. RefsNamed' /\ ReportsOK'
  BY <1>1, RefsStay, ReportsStay DEF DeployInv
<1>3. SequenceOK'
  <2>1. CASE Running
    <3>1. /\ ch' = ch /\ ch \in todo /\ DOMAIN existing = Slots /\ OutNamed(ch, out)'
          /\ \A s \in Slots : existing[s] # None => HeldOK(s)'
      BY <1>1, <2>1, SequenceStays DEF DeployInv, local
    <3>2. QED
      BY <2>1, <3>1 DEF DeployInv, SequenceOK, local, At, timelockRoleGrants, Signer, SignerPDA, Deployer, Good
  <2>2. CASE ~Running
    BY <2>2 DEF SequenceOK, Running
  <2>3. QED
    BY <2>1, <2>2
<1>4. ApplyOK'
  BY DEF DeployInv, ApplyOK
<1>5. QED
  BY <1>1, <1>2, <1>3, <1>4 DEF DeployInv

\* Every step of Apply keeps the invariant.
LEMMA RunDeploys ==
    ASSUME DeployInv, Run
    PROVE  DeployInv' /\ Grows
BY ReuseChainDeploys, LoadDeploys, ApplyDeploys, HasDeploys, ReuseDeploys, ProgramDeploys, WaitDeploys,
   AccessControllerDeploys, MCMDeploys, ConfigDeploys, TimelockDeploys, RolesDeploys, GrantDeploys,
   ChainDoneDeploys, FailDeploys, SlotNames
DEF Run, deployAccessControllerProgramIfNeeded, deployMCMProgramIfNeeded, deployTimelockProgramIfNeeded

\* So does every step of fund-mcm-pdas.
LEMMA FundDeploys ==
    ASSUME DeployInv, (\E i \in FundInputs : StartFund(i)) \/ FundRun \/ FundFail \/ (\E c \in Chains : Spend(c))
    PROVE  DeployInv' /\ Grows
<1>1. fails \in 0..MaxFails /\ MaxFails \in Nat
  BY BoundsAssumption DEF DeployInv, ApplyOK
<1>2. CASE UNCHANGED vars
  BY <1>1, <1>2, PayDeploys DEF vars, counters
<1>3. CASE UNCHANGED Others /\ \E k, o : Report("fund", k, o)
  <2>1. /\ DOMAIN reports' = DOMAIN reports /\ UNCHANGED <<reports["chain"], reports["op"]>>
    BY <1>3 DEF Report, DeployInv, ReportsOK
  <2>2. QED
    BY <1>1, <1>3, <2>1, PayDeploys DEF Others, counters
<1>4. CASE FundFail
  <2>1. fails' \in 0..MaxFails
    BY <1>1, <1>4 DEF FundFail
  <2>2. UNCHANGED <<accts, ds, reports, pc, req, todo, local, agg, runs, bundles, deletes>>
    BY <1>4 DEF FundFail
  <2>3. QED
    BY <2>1, <2>2, PayDeploys
<1>5. UNCHANGED vars \/ (UNCHANGED Others /\ \E k, o : Report("fund", k, o)) \/ FundFail
  BY DEF StartFund, FundRun, ReuseFunding, SeqFundMCMPDAs, SeqFundSolanaMCMPDAs, OpFundKey, FundChainDone,
         buildOutput, Insufficient, Spend
<1>6. QED
  BY <1>2, <1>3, <1>4, <1>5

\* At first there are no accounts, refs or reports.
LEMMA InitDeploys ==
    ASSUME SolanaInit
    PROVE  DeployInv
<1>1. /\ accts = <<>> /\ ds = [t \in Chains \X Quals |-> Nothing] /\ reports = NoReports
      /\ pc = "idle" /\ req = <<>> /\ todo = {} /\ agg = {}
      /\ runs = 0 /\ fails = 0 /\ bundles = 0 /\ deletes = 0
  BY DEF SolanaInit, Init
<1>2. AcctsOK
  BY <1>1 DEF AcctsOK, IsList
<1>3. RefsNamed
  BY <1>1 DEF RefsNamed, Nothing
<1>4. ReportsOK /\ SequenceOK /\ ApplyOK
  BY <1>1, BoundsAssumption DEF ReportsOK, NoReports, SequenceOK, Running, ApplyOK
<1>5. QED
  BY <1>2, <1>3, <1>4 DEF DeployInv

\* Whatever runs fail and whatever results are lost: refs name accounts of their
\* slot's kind, access controllers have configured members, the sequence holds
\* what it needs (sequence.go; Apply; the datastore changesets).
THEOREM DeployInvariance == SolanaSpec => []DeployInv
<1>1. SolanaInit => DeployInv
  BY InitDeploys
<1>2. DeployInv /\ [SolanaNext]_allVars => DeployInv'
  <2>1. CASE DeployNext
    <3>1. CASE \E i \in Inputs : Start(i)
      BY <3>1, StartDeploys
    <3>2. QED
      BY <2>1, <3>1, RunDeploys, FailDeploys, LoseDeploys, NewBundleDeploys, DeleteDeploys DEF DeployNext
  <2>2. CASE UNCHANGED allVars
    <3>1. ASSUME DeployInv PROVE fails' \in 0..MaxFails
      BY <2>2, <3>1 DEF allVars, vars, counters, DeployInv, ApplyOK
    <3>2. QED
      BY <2>2, <3>1, PayDeploys DEF allVars, vars, counters
  <2>3. QED
    BY <2>1, <2>2, FundDeploys DEF SolanaNext
<1>3. QED
  BY <1>1, <1>2, PTL DEF SolanaSpec

\* The datastore's refs name accounts of the set's chain and of the slot's kind.
THEOREM TypeCorrect == SolanaSpec => []TypeOK
<1>1. DeployInv => TypeOK
  <2>1. SUFFICES ASSUME DeployInv PROVE TypeOK
    OBVIOUS
  <2>2. \A n \in DOMAIN accts : accts[n].ch \in Chains /\ accts[n].delay \in 0..MaxUint64
    BY <2>1 DEF DeployInv, AcctsOK, AccountOK
  <2>3. ASSUME NEW t \in DOMAIN ds, NEW s \in Slots, ds[t][s] # None
        PROVE  /\ accts[IdOf(s, ds[t][s])].ch = t[1] /\ accts[IdOf(s, ds[t][s])].kind = KindOf(s)
               /\ s \in MCMSlots \cup {"timelock"} => accts[IdOf(s, ds[t][s])].prog = ds[t][s].prog
    <3>1. Named(t[1], s, ds[t][s])
      BY <2>1, <2>3 DEF DeployInv, RefsNamed
    <3>2. QED
      BY <3>1 DEF Named, Good, IdOf, Instances
  <2>4. todo \subseteq Chains /\ DOMAIN req \subseteq Chains
    <3>1. CASE pc = "idle"
      BY <2>1, <3>1 DEF DeployInv, ApplyOK
    <3>2. CASE pc # "idle"
      BY <2>1, <3>2, InputsAssumption DEF DeployInv, ApplyOK
    <3>3. QED
      BY <3>1, <3>2
  <2>5. QED
    BY <2>1, <2>2, <2>3, <2>4 DEF TypeOK, DeployInv, ApplyOK
<1>2. QED
  BY <1>1, DeployInvariance, PTL

\* No access controller has a member that is an MCM instance of another chain
\* or one that was never configured (opInitMCMInstance, opSetupTimelockRoles).
THEOREM MembersConfigured == SolanaSpec => []GrantedConfigured
<1>1. DeployInv => GrantedConfigured
  BY DEF DeployInv, AcctsOK, AccountOK, MemberOK, GrantedConfigured
<1>2. QED
  BY <1>1, DeployInvariance, PTL

----------------------------------------------------------------------------
(* Refs that are written over others *)

\* A slot of a set has the ref that is written, or the one it had.
LEMMA OverFacts ==
    ASSUME NEW refs, NEW o, NEW s \in Slots
    PROVE  /\ AtSlot(o, s) = {} => Over(refs, o)[s] = refs[s]
           /\ AtSlot(o, s) # {} => \E x \in o : x.slot = s /\ x \in AtSlot(o, s) /\ Over(refs, o)[s] = x.addr
BY DEF Over, AtSlot

\* Refs name accounts, also when they are written over others that do.
LEMMA OverNamed ==
    ASSUME RefsNamed, NEW t \in DOMAIN ds, NEW o, OutNamed(t[1], o), NEW s \in Slots,
           Over(ds[t], o)[s] # None
    PROVE  Named(t[1], s, Over(ds[t], o)[s])
BY OverFacts DEF RefsNamed, OutNamed

\* What addresses.go loads of a set.
LEMMA LoadFacts ==
    ASSUME NEW refs, NEW e, e = loadDeployedAddresses(refs)
    PROVE  /\ e["mcmProgram"] = reconcile(refs, "mcmProgram", MCMSlots)
           /\ e["timelockProgram"] = reconcile(refs, "timelockProgram", {"timelock"})
           /\ \A s \in ACSlots \cup {"acProgram"} : e[s] = refs[s]
           /\ \A s \in MCMSlots \cup {"timelock"} : e[s] = IF refs[s] = None THEN None ELSE refs[s].seed
BY SlotNames DEF loadDeployedAddresses

\* The instances of a program, with the refs written over those there were, name
\* the program the sequence holds.
LEMMA InstancesOver ==
    ASSUME NEW refs, NEW o, Agrees(refs, o), \A s \in Slots : existing[s] # None,
           \A x \in o : x.addr # None,
           \A s \in MCMSlots \cup {"timelock"} : refs[s] # None => refs[s].prog # None,
           NEW P, NEW I,
           \/ P = "mcmProgram" /\ I = MCMSlots
           \/ P = "timelockProgram" /\ I = {"timelock"},
           NEW w, w = Over(refs, o)
    PROVE  /\ \A s \in I : w[s] # None /\ w[s].prog = existing[P] /\ w[s].seed = existing[s]
           /\ reconcile(w, P, I) = existing[P] /\ reconcileInstanceProgramID(w, P, I)
<1>1. /\ P \in Slots /\ I \subseteq Slots /\ I \subseteq MCMSlots \cup {"timelock"} /\ I # {}
      /\ loadDeployedAddresses(refs)[P] = reconcile(refs, P, I)
      /\ reconcileInstanceProgramID(refs, P, I)
      /\ \A id : addressRef(P, id) = id
      /\ \A s \in I : \A id : addressRef(s, id) = [prog |-> existing[P], seed |-> id]
  <2>1. CASE P = "mcmProgram" /\ I = MCMSlots
    BY <2>1, SlotNames, LoadFacts DEF Agrees, loadable, addressRef
  <2>2. CASE P = "timelockProgram" /\ I = {"timelock"}
    <3>1. \A id : addressRef("timelock", id) = [prog |-> existing["timelockProgram"], seed |-> id]
      BY SlotNames DEF addressRef
    <3>2. \A id : addressRef("timelockProgram", id) = id
      BY SlotNames DEF addressRef
    <3>3. QED
      BY <2>2, <3>1, <3>2, SlotNames, LoadFacts DEF Agrees, loadable
  <2>3. QED
    BY <2>1, <2>2
<1>2. ASSUME NEW s \in I
      PROVE  w[s] # None /\ w[s].prog = existing[P] /\ w[s].seed = existing[s]
  <2>1. CASE AtSlot(o, s) = {}
    <3>1. w[s] = refs[s] /\ existing[s] = loadDeployedAddresses(refs)[s] /\ s \in Slots
      BY <1>1, <2>1, OverFacts DEF Agrees
    <3>2. refs[s] # None /\ refs[s].seed = existing[s] /\ refs[s].prog # None
      BY <1>1, <3>1, LoadFacts
    <3>3. refs[s].prog = reconcile(refs, P, I)
      BY <1>1, <3>2 DEF reconcileInstanceProgramID, Embedded
    <3>4. loadDeployedAddresses(refs)[P] # None
      BY <1>1, <3>2, <3>3
    <3>5. existing[P] = loadDeployedAddresses(refs)[P]
      BY <1>1, <3>4 DEF Agrees
    <3>6. QED
      BY <1>1, <3>1, <3>2, <3>3, <3>5
  <2>2. CASE AtSlot(o, s) # {}
    <3>1. PICK x \in o : x \in AtSlot(o, s) /\ w[s] = x.addr
      BY <1>1, <2>2, OverFacts
    <3>2. x.addr = [prog |-> existing[P], seed |-> existing[s]]
      BY <1>1, <3>1 DEF Agrees
    <3>3. QED
      BY <3>1, <3>2
  <2>3. QED
    BY <2>1, <2>2
<1>3. Embedded(w, I) = {existing[P]}
  BY <1>1, <1>2 DEF Embedded
<1>4. w[P] \in {None, existing[P]}
  <2>1. CASE AtSlot(o, P) = {}
    <3>1. w[P] = refs[P] /\ existing[P] = reconcile(refs, P, I)
      BY <1>1, <2>1, OverFacts DEF Agrees
    <3>2. QED
      BY <3>1 DEF reconcile
  <2>2. CASE AtSlot(o, P) # {}
    <3>1. PICK x \in o : x \in AtSlot(o, P) /\ w[P] = x.addr
      BY <1>1, <2>2, OverFacts
    <3>2. x.addr = existing[P]
      BY <1>1, <3>1 DEF Agrees
    <3>3. QED
      BY <3>1, <3>2
  <2>3. QED
    BY <2>1, <2>2
<1>5. reconcile(w, P, I) = existing[P]
  BY <1>3, <1>4 DEF reconcile
<1>6. QED
  BY <1>2, <1>3, <1>5 DEF reconcileInstanceProgramID

\* With the refs the sequence will record, the set is complete and what is
\* loaded of it is what the sequence holds.
LEMMA LoadOver ==
    ASSUME NEW refs, NEW o, Agrees(refs, o), \A s \in Slots : existing[s] # None,
           \A x \in o : x.addr # None,
           \A s \in MCMSlots \cup {"timelock"} : refs[s] # None => refs[s].prog # None,
           NEW w, w = Over(refs, o)
    PROVE  /\ CompleteSet(w) /\ Whole(w)
           /\ \A s \in ACSlots : w[s] = existing[s]
           /\ \A s \in MCMSlots : w[s].prog = existing.mcmProgram /\ w[s].seed = existing[s]
           /\ w["timelock"].seed = existing.timelock
<1>1. /\ \A s \in MCMSlots : w[s] # None /\ w[s].prog = existing["mcmProgram"] /\ w[s].seed = existing[s]
      /\ reconcile(w, "mcmProgram", MCMSlots) = existing["mcmProgram"]
      /\ reconcileInstanceProgramID(w, "mcmProgram", MCMSlots)
  BY InstancesOver
<1>2. /\ w["timelock"] # None /\ w["timelock"].seed = existing["timelock"]
      /\ reconcile(w, "timelockProgram", {"timelock"}) = existing["timelockProgram"]
      /\ reconcileInstanceProgramID(w, "timelockProgram", {"timelock"})
  BY InstancesOver
<1>3. ASSUME NEW s \in ACSlots \cup {"acProgram"} PROVE w[s] = existing[s]
  <2>1. s \in Slots /\ addressRef(s, existing[s]) = existing[s]
    BY SlotNames DEF addressRef
  <2>2. CASE AtSlot(o, s) = {}
    BY <2>1, <2>2, OverFacts, LoadFacts DEF Agrees
  <2>3. CASE AtSlot(o, s) # {}
    BY <2>1, <2>3, OverFacts DEF Agrees
  <2>4. QED
    BY <2>2, <2>3
<1>4. loadable(w)
  BY <1>1, <1>2 DEF loadable
<1>5. ASSUME NEW s \in Slots PROVE loadDeployedAddresses(w)[s] # None
  <2>1. existing[s] # None
    OBVIOUS
  <2>2. loadDeployedAddresses(w)[s] = existing[s]
    BY <1>1, <1>2, <1>3, LoadFacts, SlotNames
  <2>3. QED
    BY <2>1, <2>2
<1>6. Whole(w)
  BY <1>1, <1>2, <1>3, SlotNames DEF Whole
<1>7. QED
  BY <1>1, <1>2, <1>3, <1>4, <1>5, <1>6 DEF CompleteSet

----------------------------------------------------------------------------
(* Sets stay wired, grants stay granted *)

\* Completeness is about refs only.
LEMMA CompleteStable ==
    ASSUME NEW refs, CompleteSet(refs)
    PROVE  CompleteSet(refs)'
BY DEF CompleteSet, loadable, loadDeployedAddresses, reconcile, reconcileInstanceProgramID, Embedded

\* A timelock keeps its access controllers and they keep their members.
LEMMA WiredStable ==
    ASSUME Grows, NEW c, NEW refs, \A s \in Slots : refs[s] # None => Named(c, s, refs[s]),
           Whole(refs), WiredRefs(refs)
    PROVE  WiredRefs(refs)'
<1>1. /\ refs["timelock"].seed \in DOMAIN accts
      /\ \A s \in ACSlots : refs[s] \in DOMAIN accts
  BY SlotNames DEF Whole, Named, Good, IdOf
<1>2. /\ \A s \in ACSlots : accts'[refs["timelock"].seed].acs[s] = refs[s]
      /\ \A s \in ACSlots : accts[refs[s]].members \subseteq accts'[refs[s]].members
  BY <1>1 DEF WiredRefs, Grows, SameAccount
<1>3. \A r \in ACRoles : ACSlot[r] \in ACSlots
  BY DEF ACSlots
<1>4. MCMRoles \subseteq ACRoles /\ "canceller" \in ACRoles /\ "executor" \in ACRoles
  BY DEF MCMRoles, ACRoles
<1>5. QED
  BY <1>2, <1>3, <1>4 DEF WiredRefs, RefMembers, RefPDA, SignerPDA, Deployer

\* A set that works goes on working.
LEMMA SoundStable ==
    ASSUME Grows, NEW c, NEW refs, \A s \in Slots : refs[s] # None => Named(c, s, refs[s]), Sound(refs)
    PROVE  Sound(refs)'
BY CompleteStable, WiredStable DEF Sound, Whole

\* The sets of the datastore, with refs of accounts written over them, stay sound.
LEMMA SoundOver ==
    ASSUME Grows, RefsNamed, UNCHANGED ds, NEW t \in DOMAIN ds, NEW o, OutNamed(t[1], o), Sound(Over(ds[t], o))
    PROVE  Sound(Over(ds[t], o))'
<1>1. PICK w, c : w = Over(ds[t], o) /\ c = t[1]
  OBVIOUS
<1>2. \A s \in Slots : w[s] # None => Named(c, s, w[s])
  BY <1>1, OverNamed
<1>3. Sound(w)'
  BY <1>1, <1>2, SoundStable
<1>4. Over(ds[t], o)' = w
  BY <1>1 DEF Over, AtSlot
<1>5. QED
  BY <1>3, <1>4

\* What a timelock was made to obey, it obeys.
LEMMA GrantedStable ==
    ASSUME Grows, NEW e, NEW g, Granted(e, g)
    PROVE  Granted(e, g)'
BY DEF Grows, SameAccount, Granted

\* The grants of a sequence stay granted.
LEMMA ObeyedStable ==
    ASSUME Grows, NEW e, Obeyed(e)
    PROVE  Obeyed(e)'
<1>1. GrantsOf(e)' = GrantsOf(e)
  BY DEF GrantsOf, SignerOf, SignerPDA, Deployer
<1>2. ASSUME NEW n \in 1..4 PROVE Granted(e, GrantsOf(e)[n])'
  <2>1. PICK g : g = GrantsOf(e)[n]
    OBVIOUS
  <2>2. Granted(e, g)'
    BY <2>1, GrantedStable DEF Obeyed
  <2>3. QED
    BY <1>1, <2>1, <2>2
<1>3. QED
  BY <1>2 DEF Obeyed

\* The grants of the sequence are those of what it holds.
LEMMA GrantsOfExisting == timelockRoleGrants = GrantsOf(existing)
BY DEF timelockRoleGrants, GrantsOf, Signer, SignerOf

\* When all roles are granted, the set that will be recorded is wired.
LEMMA ObeyedWires ==
    ASSUME Obeyed(existing), NEW w,
           \A s \in ACSlots : w[s] = existing[s],
           \A s \in MCMSlots : w[s].prog = existing.mcmProgram /\ w[s].seed = existing[s],
           w["timelock"].seed = existing.timelock
    PROVE  WiredRefs(w)
<1>1. /\ Granted(existing, GrantsOf(existing)[1]) /\ Granted(existing, GrantsOf(existing)[2])
      /\ Granted(existing, GrantsOf(existing)[3]) /\ Granted(existing, GrantsOf(existing)[4])
  BY DEF Obeyed
<1>2. \A r \in MCMRoles : RefPDA(w, r) = SignerOf(existing, r)
  BY DEF MCMSlots, RefPDA, SignerOf
<1>3. \A r \in ACRoles : RefMembers(w, r) = accts[existing[ACSlot[r]]].members
  BY DEF ACSlots, RefMembers
<1>4. /\ \A s \in ACSlots : accts[existing.timelock].acs[s] = existing[s]
      /\ SignerOf(existing, "proposer") \in accts[existing.proposerAC].members
      /\ Deployer \in accts[existing.executorAC].members
      /\ {SignerOf(existing, "canceller"), SignerOf(existing, "proposer"), SignerOf(existing, "bypasser")}
            \subseteq accts[existing.cancellerAC].members
      /\ SignerOf(existing, "bypasser") \in accts[existing.bypasserAC].members
  BY <1>1, SlotNames DEF Granted, GrantsOf
<1>5. MCMRoles = {"proposer", "canceller", "bypasser"} /\ ACRoles = {"proposer", "executor", "canceller", "bypasser"}
  BY DEF MCMRoles, ACRoles
<1>6. \A r \in MCMRoles : SignerOf(existing, r) \in RefMembers(w, r) \cap RefMembers(w, "canceller")
  BY <1>3, <1>4, <1>5 DEF ACSlot
<1>7. Deployer \in RefMembers(w, "executor")
  BY <1>3, <1>4, <1>5 DEF ACSlot
<1>8. QED
  BY <1>2, <1>4, <1>6, <1>7 DEF WiredRefs

----------------------------------------------------------------------------
(* The invariant of the sets is kept: steps that write no refs *)

\* The set of a report is one of the datastore.
LEMMA ReportSets ==
    ASSUME DeployInv, NEW r \in reports["chain"]
    PROVE  SetOf(r) \in DOMAIN ds /\ SetOf(r)[1] = r.k.ch /\ OutNamed(r.k.ch, r.out)
BY DEF DeployInv, ReportsOK, ChainReportOK, RefsNamed, SetOf

\* The report of a chain stays true while no ref is written.
LEMMA ReportSoundStable ==
    ASSUME DeployInv, NEW r \in reports["chain"], ReportSound(r), Grows,
           UNCHANGED ds, moved \cup stale \subseteq moved' \cup stale',
           \A u \in reports'["chain"] \ reports["chain"] :
              SetOf(r) \notin moved \cup stale /\ SetOf(u) = SetOf(r) => Alike(r.out, u.out)
    PROVE  ReportSound(r)'
<1>1. PICK t, o : t = SetOf(r) /\ o = r.out
  OBVIOUS
<1>2. t \in DOMAIN ds /\ OutNamed(t[1], o)
  BY <1>1, ReportSets
<1>3. Sound(Over(ds[t], o)) => Sound(Over(ds[t], o))'
  BY <1>2, SoundOver DEF DeployInv
<1>4. SetOf(r)' = t /\ \A u : SetOf(u)' = SetOf(u)
  BY <1>1 DEF SetOf
<1>5. Missing(ds[t])' = Missing(ds[t])
  BY DEF Missing, loadDeployedAddresses, reconcile, Embedded
<1>6. ASSUME t \notin moved' \cup stale'
      PROVE  /\ Functional(o) /\ Sound(Over(ds[t], o))'
             /\ Missing(ds[t]) # {} => SlotsOf(o) = Missing(ds[t])
             /\ \A u \in reports'["chain"] : SetOf(u) = t => Alike(o, u.out)
  BY <1>1, <1>3, <1>6 DEF ReportSound
<1>7. QED
  BY <1>1, <1>4, <1>5, <1>6 DEF ReportSound, Functional, SlotsOf, Alike

\* So do all reports and all sets of the datastore.
LEMMA SetsStay ==
    ASSUME DeployInv, SetsInv, Grows, UNCHANGED <<ds, reports["chain"]>>,
           moved \subseteq moved', stale \subseteq stale'
    PROVE  SetsWired' /\ ReportsSound'
<1>1. ReportsSound'
  BY ReportSoundStable DEF SetsInv, ReportsSound
<1>2. ASSUME NEW t \in DOMAIN ds \ stale, Whole(ds[t]) PROVE WiredRefs(ds[t])'
  <2>1. PICK c, w : c = t[1] /\ w = ds[t]
    OBVIOUS
  <2>2. WiredRefs(w) /\ Whole(w) /\ \A s \in Slots : w[s] # None => Named(c, s, w[s])
    BY <1>2, <2>1 DEF SetsInv, SetsWired, DeployInv, RefsNamed
  <2>3. WiredRefs(w)'
    BY <2>2, WiredStable
  <2>4. QED
    BY <2>1, <2>3
<1>3. SetsWired'
  BY <1>2 DEF SetsWired, Whole
<1>4. QED
  BY <1>1, <1>3

\* The refs of the finished chains name accounts of their sets.
LEMMA AggNamed ==
    ASSUME RefsNamed, NEW t
    PROVE  OutNamed(t[1], AggOf(t))
BY DEF RefsNamed, AggOf, OutNamed

\* So does what the run has aggregated.
LEMMA AggStays ==
    ASSUME DeployInv, SetsInv, Grows, UNCHANGED <<ds, agg, req, todo, moved, stale, reports["chain"]>>,
           pc = "idle" => pc' = "idle"
    PROVE  AggSound'
<1>1. Finished' = Finished
  BY DEF Finished
<1>2. ASSUME pc # "idle", NEW t \in Finished \ stale
      PROVE  /\ Functional(AggOf(t)) /\ Sound(Over(ds[t], AggOf(t)))'
             /\ t \notin moved => \E r \in reports["chain"] : SetOf(r) = t /\ r.out = AggOf(t)
  <2>1. PICK o : o = AggOf(t)
    OBVIOUS
  <2>2. /\ Functional(o) /\ Sound(Over(ds[t], o))
        /\ t \notin moved => \E r \in reports["chain"] : SetOf(r) = t /\ r.out = o
    BY <1>2, <2>1 DEF SetsInv, AggSound
  <2>3. t \in DOMAIN ds
    <3>1. PICK c \in DOMAIN req : t = <<c, req[c].qual>>
      BY <1>2 DEF Finished
    <3>2. QED
      BY <1>2, <3>1, InputsAssumption DEF DeployInv, ApplyOK, RefsNamed
  <2>4. Sound(Over(ds[t], o))'
    BY <2>1, <2>2, <2>3, AggNamed, SoundOver DEF DeployInv
  <2>5. AggOf(t)' = o
    BY <2>1 DEF AggOf
  <2>6. QED
    BY <2>1, <2>2, <2>4, <2>5
<1>3. QED
  BY <1>1, <1>2 DEF AggSound, SetsInv, SetOf, Functional, AggOf

\* The reports of the role grants stay true.
LEMMA RolesStay ==
    ASSUME RolesReported, Grows,
           \A r \in reports'["op"] \ reports["op"] : r.k.in[1] = "roles" => Obeyed(r.k.in[2])'
    PROVE  RolesReported'
BY ObeyedStable DEF RolesReported

\* What is loaded of refs depends on them alone.
LEMMA LoadStable ==
    ASSUME NEW refs
    PROVE  /\ loadDeployedAddresses(refs)' = loadDeployedAddresses(refs)
           /\ loadable(refs)' <=> loadable(refs)
BY DEF loadable, loadDeployedAddresses, reconcile, reconcileInstanceProgramID, Embedded

\* What was written agrees with what is held, while neither changes.
LEMMA AgreesStays ==
    ASSUME UNCHANGED existing, NEW refs, NEW o, Agrees(refs, o)
    PROVE  Agrees(refs, o)'
<1>1. \A s, id : addressRef(s, id)' = addressRef(s, id)
  BY DEF addressRef
<1>2. ASSUME NEW s \in Slots
      PROVE  /\ AtSlot(o, s) = {} => existing'[s] = loadDeployedAddresses(refs)[s]
             /\ \A x \in AtSlot(o, s) :
                   /\ existing'[s] # None /\ x.addr = addressRef(s, existing[s])
                   /\ loadDeployedAddresses(refs)[s] = None
  BY DEF Agrees
<1>3. QED
  BY <1>1, <1>2, LoadStable DEF Agrees, Functional, AtSlot

\* A slot that was not held is loaded as missing; now it is written.
LEMMA AgreesHave ==
    ASSUME AcctsOK, SequenceOK, Running, NEW s \in Slots, At(s), existing[s] = None,
           NEW id, id # None, Have(s, id), NEW refs, Agrees(refs, out)
    PROVE  Agrees(refs, out)'
<1>1. DOMAIN existing = Slots /\ \A u \in Slots : existing[u] # None => HeldOK(u)
  BY ProgramsHeld
<1>2. /\ existing'[s] = id /\ \A u \in Slots \ {s} : existing'[u] = existing[u]
      /\ out' = out \cup {[slot |-> s, addr |-> addressRef(s, id)]}
  BY <1>1 DEF Have
<1>3. AtSlot(out, s) = {} /\ loadDeployedAddresses(refs)[s] = None
  <2>1. AtSlot(out, s) = {}
    BY DEF Agrees
  <2>2. QED
    BY <2>1 DEF Agrees
<1>4. ASSUME NEW u \in Slots, u = s \/ existing[u] # None
      PROVE  /\ u \in MCMSlots => existing'["mcmProgram"] = existing["mcmProgram"]
             /\ u = "timelock" => existing'["timelockProgram"] = existing["timelockProgram"]
  <2>1. CASE u = s
    BY <1>2, <2>1, SlotNames
  <2>2. CASE u # s /\ existing[u] # None
    <3>1. /\ u \in MCMSlots => existing["mcmProgram"] # None
          /\ u = "timelock" => existing["timelockProgram"] # None
      BY <1>1, <2>2, InstancesHaveProgram
    <3>2. QED
      BY <1>2, <3>1, SlotNames
  <2>3. QED
    BY <1>4, <2>1, <2>2
<1>5. ASSUME NEW u \in Slots, u = s \/ existing[u] # None, NEW n
      PROVE  addressRef(u, n)' = addressRef(u, n)
  <2>1. /\ u \in MCMSlots => existing'.mcmProgram = existing.mcmProgram
        /\ u = "timelock" => existing'.timelockProgram = existing.timelockProgram
    BY <1>4, <1>5
  <2>2. QED
    BY <2>1, SlotNames DEF addressRef
<1>6. PICK x0 : x0 = [slot |-> s, addr |-> addressRef(s, id)]
  OBVIOUS
<1>7. /\ AtSlot(out', s) = {x0} /\ \A u \in Slots \ {s} : AtSlot(out', u) = AtSlot(out, u)
      /\ x0.slot = s /\ x0.addr = addressRef(s, id)
  BY <1>2, <1>3, <1>6 DEF AtSlot
<1>8. Functional(out')
  BY <1>2, <1>3, <1>6 DEF Functional, AtSlot, Agrees
<1>9. ASSUME NEW u \in Slots
      PROVE  /\ AtSlot(out', u) = {} => existing'[u] = loadDeployedAddresses(refs)[u]
             /\ \A x \in AtSlot(out', u) :
                   /\ existing'[u] # None /\ x.addr = addressRef(u, existing[u])'
                   /\ loadDeployedAddresses(refs)[u] = None
  <2>1. CASE u = s
    <3>1. PICK n : n = id
      OBVIOUS
    <3>2. addressRef(u, n)' = addressRef(u, n)
      BY <1>5, <2>1
    <3>3. addressRef(u, existing[u])' = x0.addr
      BY <1>2, <1>7, <2>1, <3>1, <3>2
    <3>4. QED
      BY <1>2, <1>3, <1>7, <2>1, <3>3
  <2>2. CASE u # s
    <3>1. AtSlot(out', u) = AtSlot(out, u) /\ existing'[u] = existing[u]
      BY <1>2, <1>7, <2>2
    <3>2. PICK n : n = existing[u]
      OBVIOUS
    <3>3. n # None => addressRef(u, n)' = addressRef(u, n)
      BY <1>5, <3>2
    <3>4. QED
      BY <3>1, <3>2, <3>3 DEF Agrees
  <2>3. QED
    BY <2>1, <2>2
<1>10. loadable(refs)
  BY DEF Agrees
<1>11. QED
  BY <1>8, <1>9, <1>10, LoadStable DEF Agrees, Functional, AtSlot

----------------------------------------------------------------------------
(* The invariant of the sets is kept: the steps of a chain *)

\* A step takes the account of a slot.
LEMMA TakeSets ==
    ASSUME DeployInv, SetsInv, Grows, Running, Took, UNCHANGED <<ds, req, todo, agg, moved, stale>>
    PROVE  SetsInv'
<1>1. PICK s \in Slots : \E id :
         /\ At(s) /\ existing[s] = None /\ id # None /\ Have(s, id)
         /\ reports' = reports \/ Report("op", OpKey(s), id)
  BY DEF Took
<1>2. PICK id : /\ At(s) /\ existing[s] = None /\ id # None /\ Have(s, id)
                /\ reports' = reports \/ Report("op", OpKey(s), id)
  BY <1>1
<1>3. reports'["chain"] = reports["chain"]
  BY <1>2 DEF DeployInv, ReportsOK, Report
<1>4. pc' \notin {"idle", "chain", "grant", "done"}
  BY <1>2, OrderNext, Places DEF Have
<1>5. SetsWired' /\ ReportsSound'
  BY <1>3, SetsStay
<1>6. AggSound'
  BY <1>3, AggStays DEF Running
<1>7. RolesReported'
  <2>1. \A r \in reports'["op"] \ reports["op"] : r.k = OpKey(s)
    BY <1>2 DEF DeployInv, ReportsOK, Report
  <2>2. OpKey(s).in[1] # "roles"
    BY KeyFacts, Places
  <2>3. QED
    BY <2>1, <2>2, RolesStay DEF SetsInv
<1>8. Recorded'
  <2>1. PICK refs : refs = ds[set]
    OBVIOUS
  <2>2. Agrees(refs, out)
    BY <2>1 DEF SetsInv, Recorded
  <2>3. Agrees(refs, out)'
    BY <1>2, <2>2, AgreesHave DEF DeployInv
  <2>4. ds'[set'] = refs
    BY <2>1 DEF set, ch
  <2>5. QED
    BY <2>3, <2>4 DEF Recorded
<1>9. RolesGranted'
  BY <1>4 DEF RolesGranted
<1>10. QED
  BY <1>5, <1>6, <1>7, <1>8, <1>9 DEF SetsInv

\* A step takes none and reports none.
LEMMA PassSets ==
    ASSUME DeployInv, SetsInv, Grows, Running,
           UNCHANGED <<ds, reports, req, todo, existing, out, agg, moved, stale>>,
           pc' # "idle", RolesGranted'
    PROVE  SetsInv'
<1>1. SetsWired' /\ ReportsSound'
  BY SetsStay
<1>2. AggSound'
  BY AggStays DEF Running
<1>3. RolesReported'
  BY RolesStay DEF SetsInv
<1>4. Recorded'
  <2>1. PICK refs, o : refs = ds[set] /\ o = out
    OBVIOUS
  <2>2. Agrees(refs, o)'
    BY <2>1, AgreesStays DEF SetsInv, Recorded
  <2>3. ds'[set'] = refs /\ out' = o
    BY <2>1 DEF set, ch
  <2>4. QED
    BY <2>2, <2>3 DEF Recorded
<1>5. QED
  BY <1>1, <1>2, <1>3, <1>4 DEF SetsInv

\* What a slot has is taken as it is.
LEMMA HasSets ==
    ASSUME DeployInv, SetsInv, hasExisting
    PROVE  SetsInv'
<1>1. Grows /\ Running
  BY HasDeploys, Places DEF hasExisting, Running
<1>2. UNCHANGED <<ds, reports, req, todo, existing, out, agg, moved, stale>>
  BY DEF hasExisting, local, changes
<1>3. pc' \notin {"idle", "grant", "done"}
  BY OrderNext, Places DEF hasExisting
<1>4. QED
  BY <1>1, <1>2, <1>3, PassSets DEF RolesGranted

\* The first part of an operation records nothing yet.
LEMMA PartSets ==
    ASSUME DeployInv, SetsInv, (\E s \in ProgramSlots : opDeployProgram(s)) \/ opInitMCMInstance
    PROVE  SetsInv'
<1>1. Grows
  BY ProgramDeploys, MCMDeploys
<1>2. UNCHANGED <<ds, reports, req, todo, existing, out, agg, moved, stale>>
  BY DEF opDeployProgram, opInitMCMInstance, local, changes
<1>3. Running /\ pc' \notin {"idle", "grant", "done"}
  BY Places, SlotNames DEF opDeployProgram, opInitMCMInstance, MustRun, needed, Running
<1>4. QED
  BY <1>1, <1>2, <1>3, PassSets DEF RolesGranted

\* An operation that ends adds its account to what will be recorded.
LEMMA OperationSets ==
    ASSUME DeployInv, SetsInv,
           \/ ReuseOp \/ waitForProgramReady \/ opInitAccessControllerAccount \/ initMCMInstance
           \/ opInitTimelockInstance
    PROVE  SetsInv'
<1>1. Grows /\ Took
  BY ReuseDeploys, WaitDeploys, AccessControllerDeploys, ConfigDeploys, TimelockDeploys
<1>2. UNCHANGED <<ds, req, todo, agg, moved, stale>>
  BY DEF ReuseOp, waitForProgramReady, opInitAccessControllerAccount, initMCMInstance,
         opInitTimelockInstance, changes
<1>3. Running
  BY <1>1, Places, SlotNames DEF Took, At, Running
<1>4. QED
  BY <1>1, <1>2, <1>3, TakeSets

\* The roles are granted already, or now one by one.
LEMMA RolesSets ==
    ASSUME DeployInv, SetsInv, setupTimelockRoles
    PROVE  SetsInv'
<1>1. /\ pc = "roles" /\ UNCHANGED <<accts, ds, reports, req, todo, existing, out, agg, moved, stale>>
  BY DEF setupTimelockRoles, changes
<1>2. Grows /\ Running
  BY <1>1, SameGrows DEF Running
<1>3. RolesGranted' /\ pc' # "idle"
  <2>1. CASE Reusable("op", rolesKey)
    <3>1. PICK r \in reports["op"] : r.k = rolesKey
      BY <2>1, ReportOf
    <3>2. r.k.in[1] = "roles" /\ r.k.in[2] = existing
      BY <3>1 DEF rolesKey, chainIdempotencyKey, setupTimelockRolesInput
    <3>3. Obeyed(existing)
      BY <3>2 DEF SetsInv, RolesReported
    <3>4. PICK e : e = existing
      OBVIOUS
    <3>5. Obeyed(e)'
      BY <1>2, <3>3, <3>4, ObeyedStable
    <3>6. pc' = "done"
      BY <2>1 DEF setupTimelockRoles
    <3>7. QED
      BY <1>1, <3>4, <3>5, <3>6 DEF RolesGranted
  <2>2. CASE ~Reusable("op", rolesKey)
    <3>1. pc' = "grant" /\ grants' = timelockRoleGrants
      BY <2>2 DEF setupTimelockRoles
    <3>2. Len(grants') = 4
      BY <3>1 DEF timelockRoleGrants
    <3>3. QED
      BY <3>1, <3>2 DEF RolesGranted
  <2>3. QED
    BY <2>1, <2>2
<1>4. QED
  BY <1>1, <1>2, <1>3, PassSets

\* One more role is granted; after the last the set is obeyed.
LEMMA GrantSets ==
    ASSUME DeployInv, SetsInv, opSetupTimelockRoles
    PROVE  SetsInv'
<1>1. /\ pc = "grant" /\ Accepted(Head(grants)) /\ grants' = Tail(grants)
      /\ UNCHANGED <<ds, req, todo, existing, out, agg, moved, stale>>
      /\ \/ Len(grants) = 1 /\ Report("op", rolesKey, None) /\ pc' = "done"
         \/ Len(grants) # 1 /\ UNCHANGED <<reports, pc>>
  BY DEF opSetupTimelockRoles, changes
<1>2. PICK g, e, L, T : g = Head(grants) /\ e = existing /\ L = Len(grants) /\ T = timelockRoleGrants
  OBVIOUS
<1>3. Grows /\ Running
  BY <1>1, GrantDeploys DEF Running
<1>4. /\ L \in 1..4 /\ g = T[5 - L] /\ Len(grants') = L - 1
      /\ \A s \in Slots : e[s] # None /\ HeldOK(s)
  BY <1>1, <1>2, Granting
<1>5. T = GrantsOf(e) /\ timelockRoleGrants' = T
  BY <1>1, <1>2, GrantsOfExisting DEF timelockRoleGrants, Signer, SignerPDA, Deployer
<1>6. Granted(e, g)'
  <2>1. /\ g.ac \in ACSlots /\ e[g.ac] \in DOMAIN accts /\ g.to \subseteq accts'[e[g.ac]].members
    BY <1>2, GrantGrows
  <2>2. e.timelock \in DOMAIN accts
    BY <1>2, <1>4, SlotNames DEF HeldOK, Good
  <2>3. accts'[e.timelock].acs[g.ac] = e[g.ac]
    BY <1>1, <1>2, <1>3, <2>2 DEF Accepted, Grows, SameAccount
  <2>4. QED
    BY <1>3, <2>1, <2>2, <2>3 DEF Granted, Grows
<1>7. ASSUME NEW n \in 1..(5 - L) PROVE Granted(e, T[n])'
  <2>1. CASE n = 5 - L
    BY <1>4, <1>6, <2>1
  <2>2. CASE n \in 1..(4 - L)
    <3>1. PICK h : h = T[n]
      OBVIOUS
    <3>2. Granted(e, h)
      BY <1>1, <1>2, <2>2, <3>1 DEF SetsInv, RolesGranted
    <3>3. Granted(e, h)'
      BY <1>3, <3>2, GrantedStable
    <3>4. QED
      BY <3>1, <3>3
  <2>3. QED
    BY <1>4, <2>1, <2>2
<1>8. L = 1 => Obeyed(e)'
  <2>1. GrantsOf(e)' = GrantsOf(e)
    BY DEF GrantsOf, SignerOf, SignerPDA, Deployer
  <2>2. QED
    BY <1>5, <1>7, <2>1 DEF Obeyed
<1>9. RolesGranted'
  <2>1. (pc = "grant")' => \A n \in 1..(4 - Len(grants')) : Granted(e, T[n])'
    BY <1>4, <1>7
  <2>2. (pc = "done")' => Obeyed(e)'
    BY <1>1, <1>2, <1>8
  <2>3. QED
    BY <1>1, <1>2, <1>5, <2>1, <2>2 DEF RolesGranted
<1>10. RolesReported'
  <2>1. CASE Report("op", rolesKey, None) /\ L = 1
    <3>1. \A r \in reports'["op"] \ reports["op"] : r.k = rolesKey
      BY <2>1 DEF Report, DeployInv, ReportsOK
    <3>2. rolesKey.in[2] = e
      BY <1>2 DEF rolesKey, chainIdempotencyKey, setupTimelockRolesInput
    <3>3. QED
      BY <1>3, <1>8, <2>1, <3>1, <3>2, RolesStay DEF SetsInv
  <2>2. CASE reports' = reports
    BY <1>3, <2>2, RolesStay DEF SetsInv
  <2>3. QED
    BY <1>1, <1>2, <2>1, <2>2
<1>11. reports'["chain"] = reports["chain"] /\ pc' # "idle"
  BY <1>1 DEF Report, DeployInv, ReportsOK
<1>12. SetsWired' /\ ReportsSound'
  BY <1>1, <1>3, <1>11, SetsStay
<1>13. AggSound'
  BY <1>1, <1>3, <1>11, AggStays
<1>14. Recorded'
  <2>1. PICK refs, o : refs = ds[set] /\ o = out
    OBVIOUS
  <2>2. Agrees(refs, o)'
    BY <1>1, <1>3, <2>1, AgreesStays DEF SetsInv, Recorded
  <2>3. ds'[set'] = refs /\ out' = o
    BY <1>1, <2>1 DEF set, ch
  <2>4. QED
    BY <2>2, <2>3 DEF Recorded
<1>15. QED
  BY <1>9, <1>10, <1>12, <1>13, <1>14 DEF SetsInv

\* The chain is loaded: nothing is written yet.
LEMMA LoadSets ==
    ASSUME DeployInv, SetsInv, deployMCMSWithTimelock
    PROVE  SetsInv'
<1>1. /\ UNCHANGED <<accts, ds, reports, req, todo, agg, moved, stale>> /\ pc = "chain"
      /\ loadable(ds[set]) /\ existing' = loadDeployedAddresses(ds[set])
      /\ out' = {} /\ pc' = "acProgram"
  BY DEF deployMCMSWithTimelock, changes
<1>2. Grows
  BY <1>1, SameGrows
<1>3. SetsWired' /\ ReportsSound'
  BY <1>1, <1>2, SetsStay
<1>4. AggSound'
  BY <1>1, <1>2, AggStays
<1>5. RolesReported'
  BY <1>1, <1>2, RolesStay DEF SetsInv
<1>6. RolesGranted'
  BY <1>1 DEF RolesGranted
<1>7. Recorded'
  <2>1. PICK refs, o : refs = ds[set] /\ o = {}
    OBVIOUS
  <2>2. Agrees(refs, o)'
    BY <1>1, <2>1, LoadStable DEF Agrees, Functional, AtSlot
  <2>3. ds'[set'] = refs /\ out' = o
    BY <1>1, <2>1 DEF set, ch
  <2>4. QED
    BY <2>2, <2>3 DEF Recorded
<1>8. QED
  BY <1>3, <1>4, <1>5, <1>6, <1>7 DEF SetsInv

----------------------------------------------------------------------------
(* The invariant of the sets is kept: finished chains *)

\* The refs of a chain that finishes are those of its output.
LEMMA AggAdded ==
    ASSUME DeployInv, SetsInv, pc # "idle", todo # {}, NEW o, OutNamed(ch, o),
           agg' = agg \cup Refs(o), todo' = todo \ {ch}, req' = req, NEW t, t = set
    PROVE  /\ t \notin Finished /\ Finished' = Finished \cup {t}
           /\ AggOf(t)' = o /\ \A u : u # t => AggOf(u)' = AggOf(u)
           /\ \A r \in agg' : r.set \in Finished'
<1>1. ch \in todo /\ ch \in DOMAIN req /\ t = <<ch, req[ch].qual>>
  BY NextChain DEF DeployInv, set
<1>2. t \notin Finished /\ Finished' = Finished \cup {t}
  BY <1>1 DEF Finished
<1>3. \A r \in agg : r.set \in Finished /\ r.set # t
  BY <1>2 DEF SetsInv, AggSound
<1>4. Refs(o) = {[set |-> t, slot |-> x.slot, addr |-> x.addr] : x \in o}
  BY DEF Refs
<1>5. AggOf(t)' = o
  <2>1. {x \in agg' : x.set = t} = Refs(o)
    BY <1>3, <1>4
  <2>2. ASSUME NEW x \in o
        PROVE  \E y \in Refs(o) : x = [slot |-> y.slot, addr |-> y.addr]
    <3>1. PICK y : y = [set |-> t, slot |-> x.slot, addr |-> x.addr]
      OBVIOUS
    <3>2. y \in Refs(o) /\ y.slot = x.slot /\ y.addr = x.addr
      BY <1>4, <3>1
    <3>3. x = [slot |-> x.slot, addr |-> x.addr]
      BY DEF OutNamed
    <3>4. QED
      BY <3>2, <3>3
  <2>3. ASSUME NEW y \in Refs(o)
        PROVE  [slot |-> y.slot, addr |-> y.addr] \in o
    <3>1. PICK x \in o : y = [set |-> t, slot |-> x.slot, addr |-> x.addr]
      BY <1>4
    <3>2. y.slot = x.slot /\ y.addr = x.addr
      BY <3>1
    <3>3. x = [slot |-> x.slot, addr |-> x.addr]
      BY DEF OutNamed
    <3>4. QED
      BY <3>2, <3>3
  <2>4. {[slot |-> y.slot, addr |-> y.addr] : y \in Refs(o)} = o
    BY <2>2, <2>3
  <2>5. QED
    BY <2>1, <2>4 DEF AggOf
<1>6. ASSUME NEW u, u # t PROVE AggOf(u)' = AggOf(u)
  <2>1. {x \in agg' : x.set = u} = {x \in agg : x.set = u}
    BY <1>4, <1>6
  <2>2. QED
    BY <2>1 DEF AggOf
<1>7. \A r \in agg' : r.set \in Finished'
  BY <1>2, <1>3, <1>4
<1>8. QED
  BY <1>2, <1>5, <1>6, <1>7

\* The sets of finished chains are sets of the datastore.
LEMMA FinishedSets ==
    ASSUME DeployInv, pc # "idle", NEW t \in Finished
    PROVE  t \in DOMAIN ds
<1>1. PICK c \in DOMAIN req : t = <<c, req[c].qual>>
  BY DEF Finished
<1>2. QED
  BY <1>1, InputsAssumption DEF DeployInv, ApplyOK, RefsNamed

\* One more chain is finished: its refs complete its set.
LEMMA AggGrows ==
    ASSUME DeployInv, SetsInv, Grows, pc # "idle", todo # {}, NEW o, OutNamed(ch, o),
           agg' = agg \cup Refs(o), todo' = todo \ {ch}, UNCHANGED <<ds, req, moved>>,
           stale \subseteq stale', reports["chain"] \subseteq reports'["chain"],
           set \notin stale' =>
              /\ Functional(o) /\ Sound(Over(ds[set], o))
              /\ set \notin moved => \E r \in reports'["chain"] : SetOf(r) = set /\ r.out = o
    PROVE  AggSound'
<1>1. PICK t : t = set
  OBVIOUS
<1>2. /\ t \notin Finished /\ Finished' = Finished \cup {t}
      /\ AggOf(t)' = o /\ \A u : u # t => AggOf(u)' = AggOf(u)
      /\ \A r \in agg' : r.set \in Finished'
  BY <1>1, AggAdded
<1>3. t \in DOMAIN ds /\ t[1] = ch
  BY <1>1, NextChain DEF DeployInv, RefsNamed
<1>4. ASSUME t \notin stale'
      PROVE  /\ Functional(AggOf(t))' /\ Sound(Over(ds[t], AggOf(t)))'
             /\ t \notin moved' => \E r \in reports'["chain"] : SetOf(r) = t /\ r.out = AggOf(t)'
  <2>1. /\ Functional(o) /\ Sound(Over(ds[t], o))
        /\ t \notin moved => \E r \in reports'["chain"] : SetOf(r) = t /\ r.out = o
    BY <1>1, <1>4
  <2>2. Sound(Over(ds[t], o))'
    BY <1>3, <2>1, SoundOver DEF DeployInv
  <2>3. Functional(o)'
    BY <2>1 DEF Functional
  <2>4. QED
    BY <1>2, <2>1, <2>2, <2>3
<1>5. ASSUME NEW u \in Finished, u \notin stale'
      PROVE  /\ Functional(AggOf(u))' /\ Sound(Over(ds[u], AggOf(u)))'
             /\ u \notin moved' => \E r \in reports'["chain"] : SetOf(r) = u /\ r.out = AggOf(u)'
  <2>1. PICK p : p = AggOf(u)
    OBVIOUS
  <2>2. /\ Functional(p) /\ Sound(Over(ds[u], p))
        /\ u \notin moved => \E r \in reports["chain"] : SetOf(r) = u /\ r.out = p
    BY <1>5, <2>1 DEF SetsInv, AggSound
  <2>3. OutNamed(u[1], p) /\ u \in DOMAIN ds
    BY <2>1, AggNamed, FinishedSets DEF DeployInv
  <2>4. Sound(Over(ds[u], p))'
    BY <2>2, <2>3, SoundOver DEF DeployInv
  <2>5. AggOf(u)' = p /\ Functional(p)'
    BY <1>2, <2>1, <2>2 DEF Functional
  <2>6. QED
    BY <2>2, <2>4, <2>5
<1>6. QED
  BY <1>2, <1>4, <1>5 DEF AggSound, SetOf

\* A chain that is reused: the set is as its report says, or it was changed.
LEMMA ReuseChainSets ==
    ASSUME DeployInv, SetsInv, ReuseChain
    PROVE  SetsInv'
<1>1. /\ UNCHANGED <<accts, ds, reports, pc, req, moved>> /\ pc = "chain" /\ todo # {}
      /\ todo' = todo \ {ch} /\ Reusable("chain", ChainInput)
      /\ agg' = agg \cup Refs(OutputOf("chain", ChainInput))
      /\ stale' = IF set \in moved THEN stale \cup {set} ELSE stale
  BY DEF ReuseChain, changes
<1>2. Grows
  BY <1>1, SameGrows
<1>3. PICK r \in reports["chain"] : r.k = ChainInput /\ OutputOf("chain", ChainInput) = r.out
  BY <1>1, ReportOf
<1>4. PICK o : o = r.out
  OBVIOUS
<1>5. OutNamed(ch, o) /\ SetOf(r) = set
  <2>1. r.k.ch = ch /\ r.k.config = req[ch]
    BY <1>3 DEF ChainInput
  <2>2. OutNamed(r.k.ch, o)
    BY <1>4, ReportSets
  <2>3. QED
    BY <2>1, <2>2 DEF SetOf, set
<1>6. stale \subseteq stale' /\ (set \notin stale' => set \notin moved \cup stale)
  BY <1>1
<1>7. set \notin stale' => /\ Functional(o) /\ Sound(Over(ds[set], o))
                           /\ \E u \in reports'["chain"] : SetOf(u) = set /\ u.out = o
  <2>1. ReportSound(r)
    BY DEF SetsInv, ReportsSound
  <2>2. reports' = reports
    BY <1>1
  <2>3. QED
    BY <1>4, <1>5, <1>6, <2>1, <2>2 DEF ReportSound
<1>8. AggSound'
  <2>1. agg' = agg \cup Refs(o)
    BY <1>1, <1>3, <1>4
  <2>2. reports["chain"] \subseteq reports'["chain"]
    BY <1>1
  <2>3. QED
    BY <1>1, <1>2, <1>5, <1>6, <1>7, <2>1, <2>2, AggGrows
<1>9. SetsWired' /\ ReportsSound'
  BY <1>1, <1>2, <1>6, SetsStay
<1>10. RolesReported'
  BY <1>1, <1>2, RolesStay DEF SetsInv
<1>11. RolesGranted' /\ Recorded'
  BY <1>1 DEF RolesGranted, Recorded, Running
<1>12. QED
  BY <1>8, <1>9, <1>10, <1>11 DEF SetsInv

\* A chain that is done is sound with its output, which has what was missing.
LEMMA DoneSound ==
    ASSUME DeployInv, SetsInv, pc = "done"
    PROVE  /\ Functional(out) /\ Sound(Over(ds[set], out))
           /\ SlotsOf(out) = Missing(ds[set])
<1>1. Running /\ \A s \in Slots : ~At(s)
  BY Places, SlotNames DEF Running, At
<1>2. ch \in todo /\ OutNamed(ch, out) /\ \A u \in Slots : existing[u] # None
  BY <1>1 DEF DeployInv, SequenceOK
<1>3. set \in DOMAIN ds /\ set[1] = ch
  BY <1>2, NextChain DEF DeployInv, RefsNamed
<1>4. PICK refs : refs = ds[set]
  OBVIOUS
<1>5. Agrees(refs, out)
  BY <1>1, <1>4 DEF SetsInv, Recorded
<1>6. \A x \in out : x.addr # None /\ x.slot \in Slots
  BY <1>2 DEF OutNamed, Named
<1>7. ASSUME NEW s \in MCMSlots \cup {"timelock"}, refs[s] # None PROVE refs[s].prog # None
  <2>1. s \in Slots /\ s \in Instances
    BY SlotNames DEF Instances
  <2>2. Named(set[1], s, refs[s])
    BY <1>3, <1>4, <1>7, <2>1 DEF DeployInv, RefsNamed
  <2>3. QED
    BY <2>1, <2>2, SentinelAssumption DEF Named
<1>8. PICK w : w = Over(refs, out)
  OBVIOUS
<1>9. /\ CompleteSet(w) /\ Whole(w)
      /\ \A s \in ACSlots : w[s] = existing[s]
      /\ \A s \in MCMSlots : w[s].prog = existing.mcmProgram /\ w[s].seed = existing[s]
      /\ w["timelock"].seed = existing.timelock
  BY <1>2, <1>5, <1>6, <1>7, <1>8, LoadOver
<1>10. WiredRefs(w)
  BY <1>9, ObeyedWires DEF SetsInv, RolesGranted
<1>11. SlotsOf(out) = Missing(refs)
  <2>1. ASSUME NEW s \in Slots PROVE s \in SlotsOf(out) <=> AtSlot(out, s) # {}
    BY DEF SlotsOf, AtSlot
  <2>2. \A s \in Slots : AtSlot(out, s) # {} <=> loadDeployedAddresses(refs)[s] = None
    BY <1>2, <1>5 DEF Agrees
  <2>3. SlotsOf(out) \subseteq Slots
    BY <1>6 DEF SlotsOf
  <2>4. QED
    BY <2>1, <2>2, <2>3 DEF Missing
<1>12. QED
  BY <1>4, <1>5, <1>8, <1>9, <1>10, <1>11 DEF Sound, Agrees

\* The report of a chain is sound, and like earlier ones of its set.
LEMMA ChainDoneSets ==
    ASSUME DeployInv, SetsInv, ChainDone
    PROVE  SetsInv'
<1>1. /\ UNCHANGED <<accts, ds, req, moved, stale>> /\ pc = "done" /\ pc' = "chain"
      /\ Report("chain", ChainInput, out) /\ agg' = agg \cup Refs(out) /\ todo' = todo \ {ch}
  BY DEF ChainDone, changes
<1>2. Grows
  BY <1>1, SameGrows
<1>3. ch \in todo /\ OutNamed(ch, out)
  BY <1>1 DEF DeployInv, SequenceOK, Running
<1>4. PICK t, o, r : t = set /\ o = out /\ r = [k |-> ChainInput, out |-> out]
  OBVIOUS
<1>5. /\ Functional(o) /\ Sound(Over(ds[t], o)) /\ SlotsOf(o) = Missing(ds[t])
      /\ SetOf(r) = t /\ r.out = o /\ t \in DOMAIN ds /\ t[1] = ch
  <2>1. SetOf(r) = t /\ r.out = o
    BY <1>4 DEF SetOf, ChainInput, set
  <2>2. t \in DOMAIN ds /\ t[1] = ch
    BY <1>3, <1>4, NextChain DEF DeployInv, RefsNamed
  <2>3. QED
    BY <1>1, <1>4, <2>1, <2>2, DoneSound
<1>6. /\ reports'["op"] = reports["op"] /\ reports'["chain"] = reports["chain"] \cup {r}
  BY <1>1, <1>4 DEF Report, DeployInv, ReportsOK
<1>7. AggSound'
  <2>1. reports["chain"] \subseteq reports'["chain"] /\ r \in reports'["chain"]
    BY <1>6
  <2>2. pc # "idle" /\ todo # {} /\ OutNamed(ch, o) /\ agg' = agg \cup Refs(o)
    BY <1>1, <1>3, <1>4
  <2>3. QED
    BY <1>1, <1>2, <1>4, <1>5, <2>1, <2>2, AggGrows
<1>8. SetsWired'
  <2>1. ASSUME NEW u \in DOMAIN ds \ stale, Whole(ds[u]) PROVE WiredRefs(ds[u])'
    <3>1. PICK w : w = ds[u]
      OBVIOUS
    <3>2. WiredRefs(w)
      BY <2>1, <3>1 DEF SetsInv, SetsWired
    <3>3. WiredRefs(w)'
      BY <1>1, <3>2 DEF WiredRefs, RefMembers, RefPDA, SignerPDA, Deployer
    <3>4. QED
      BY <1>1, <3>1, <3>3
  <2>2. QED
    BY <1>1, <2>1 DEF SetsWired, Whole
<1>9. ReportsSound'
  <2>1. ASSUME NEW u \in reports["chain"], SetOf(u) = t, t \notin moved \cup stale
        PROVE  Alike(u.out, o) /\ Alike(o, u.out)
    <3>1. Missing(ds[t]) # {} => SlotsOf(u.out) = Missing(ds[t])
      BY <2>1 DEF SetsInv, ReportsSound, ReportSound
    <3>2. Missing(ds[t]) = {} => o = {}
      BY <1>5 DEF SlotsOf
    <3>3. QED
      BY <1>5, <3>1, <3>2 DEF Alike
  <2>2. Alike(o, o)
    BY DEF Alike
  <2>3. \A v : SetOf(v)' = SetOf(v)
    BY DEF SetOf
  <2>4. Missing(ds[t])' = Missing(ds[t]) /\ \A u : Missing(ds[u])' = Missing(ds[u])
    BY <1>1 DEF Missing, loadDeployedAddresses, reconcile, Embedded
  <2>5. ReportSound(r)'
    <3>1. Sound(Over(ds[t], o))'
      BY <1>1, <1>2, <1>3, <1>4, <1>5, SoundOver DEF DeployInv
    <3>2. ASSUME t \notin moved \cup stale, NEW u \in reports'["chain"], SetOf(u) = t
          PROVE  Alike(o, u.out)
      BY <1>5, <1>6, <2>1, <2>2, <3>2
    <3>3. QED
      BY <1>1, <1>5, <2>3, <2>4, <3>1, <3>2 DEF ReportSound, Functional, SlotsOf, Alike
  <2>6. ASSUME NEW v \in reports["chain"] PROVE ReportSound(v)'
    <3>1. ReportSound(v)
      BY DEF SetsInv, ReportsSound
    <3>2. \A u \in reports'["chain"] \ reports["chain"] :
             SetOf(v) \notin moved \cup stale /\ SetOf(u) = SetOf(v) => Alike(v.out, u.out)
      BY <1>5, <1>6, <2>1
    <3>3. QED
      BY <1>1, <1>2, <3>1, <3>2, ReportSoundStable
  <2>7. QED
    BY <1>6, <2>5, <2>6 DEF ReportsSound
<1>10. RolesReported'
  BY <1>2, <1>6, RolesStay DEF SetsInv
<1>11. RolesGranted' /\ Recorded'
  BY <1>1 DEF RolesGranted, Recorded, Running
<1>12. QED
  BY <1>7, <1>8, <1>9, <1>10, <1>11 DEF SetsInv

----------------------------------------------------------------------------
(* The invariant of the sets is kept: what Apply records *)

\* Writing refs of the same slots again replaces them.
LEMMA OverTwice ==
    ASSUME NEW w, w = [s \in Slots |-> w[s]], NEW o, NEW p, Alike(o, p)
    PROVE  Over(Over(w, p), o) = Over(w, o) \/ Over(Over(w, p), o) = Over(w, p)
<1>1. CASE o = {}
  BY <1>1 DEF Over, AtSlot
<1>2. CASE p = {}
  <2>1. Over(w, p) = w
    BY <1>2 DEF Over, AtSlot
  <2>2. QED
    BY <2>1
<1>3. CASE SlotsOf(o) = SlotsOf(p)
  <2>1. ASSUME NEW s \in Slots
        PROVE  (IF AtSlot(o, s) = {} THEN Over(w, p)[s] ELSE (CHOOSE x \in AtSlot(o, s) : TRUE).addr)
               = (IF AtSlot(o, s) = {} THEN w[s] ELSE (CHOOSE x \in AtSlot(o, s) : TRUE).addr)
    <3>1. AtSlot(o, s) = {} => AtSlot(p, s) = {}
      BY <1>3 DEF AtSlot, SlotsOf
    <3>2. QED
      BY <3>1, OverFacts
  <2>2. QED
    BY <2>1 DEF Over
<1>4. QED
  BY <1>1, <1>2, <1>3 DEF Alike

\* mergeOutputs writes to each set the refs of its chain.
LEMMA Merged ==
    ASSUME DeployInv, SetsInv, Apply, NEW t \in DOMAIN ds, t \notin stale
    PROVE  /\ ds'[t] = Over(ds[t], AggOf(t))
           /\ t \notin Finished => ds'[t] = ds[t]
<1>1. ds' = mergeOutputs(agg) /\ pc = "chain"
  BY DEF Apply
<1>2. t \notin Finished => AggOf(t) = {}
  BY <1>1 DEF SetsInv, AggSound, AggOf
<1>3. Functional(AggOf(t))
  BY <1>1, <1>2 DEF SetsInv, AggSound, Functional
<1>4. ASSUME NEW s \in Slots
      PROVE  ds'[t][s] = IF AtSlot(AggOf(t), s) = {} THEN ds[t][s]
                         ELSE (CHOOSE x \in AtSlot(AggOf(t), s) : TRUE).addr
  <2>1. PICK new : new = {r \in agg : r.set = t /\ r.slot = s}
    OBVIOUS
  <2>2. ds'[t][s] = IF new = {} THEN ds[t][s] ELSE (CHOOSE r \in new : TRUE).addr
    BY <1>1, <2>1 DEF mergeOutputs
  <2>3. \A r \in new : [slot |-> r.slot, addr |-> r.addr] \in AtSlot(AggOf(t), s)
    BY <2>1 DEF AtSlot, AggOf
  <2>4. \A x \in AtSlot(AggOf(t), s) : \E r \in new : x = [slot |-> r.slot, addr |-> r.addr]
    BY <2>1 DEF AtSlot, AggOf
  <2>5. CASE new = {}
    BY <2>2, <2>4, <2>5
  <2>6. CASE new # {}
    <3>1. PICK r \in new : ds'[t][s] = r.addr
      BY <2>2, <2>6
    <3>2. PICK x : x = CHOOSE y \in AtSlot(AggOf(t), s) : TRUE
      OBVIOUS
    <3>3. AtSlot(AggOf(t), s) # {} /\ x \in AtSlot(AggOf(t), s)
      BY <2>3, <3>1, <3>2
    <3>4. x = [slot |-> r.slot, addr |-> r.addr]
      <4>1. PICK y : y = [slot |-> r.slot, addr |-> r.addr]
        OBVIOUS
      <4>2. y \in AggOf(t) /\ y.slot = s
        BY <2>3, <3>1, <4>1 DEF AtSlot
      <4>3. x \in AggOf(t) /\ x.slot = s
        BY <3>3 DEF AtSlot
      <4>4. x = y
        BY <1>3, <4>2, <4>3 DEF Functional
      <4>5. QED
        BY <4>1, <4>4
    <3>5. x.addr = r.addr
      BY <3>4
    <3>6. ds'[t][s] = (CHOOSE y \in AtSlot(AggOf(t), s) : TRUE).addr
      BY <3>1, <3>2, <3>5
    <3>7. QED
      BY <3>3, <3>6
  <2>7. QED
    BY <2>5, <2>6
<1>5. ds'[t] = [s \in Slots |-> ds'[t][s]] /\ ds[t] = [s \in Slots |-> ds[t][s]]
  BY <1>1 DEF mergeOutputs, DeployInv, RefsNamed
<1>6. ds'[t] = Over(ds[t], AggOf(t))
  BY <1>4, <1>5 DEF Over
<1>7. AggOf(t) = {} => Over(ds[t], AggOf(t)) = ds[t]
  BY <1>5 DEF Over, AtSlot
<1>8. QED
  BY <1>2, <1>6, <1>7

\* While no account changes, refs are as sound as they were.
LEMMA SoundSame ==
    ASSUME UNCHANGED accts, NEW w
    PROVE  /\ Sound(w) => Sound(w)'
           /\ WiredRefs(w) => WiredRefs(w)'
<1>1. WiredRefs(w) => WiredRefs(w)'
  BY DEF WiredRefs, RefMembers, RefPDA, SignerPDA, Deployer
<1>2. QED
  BY <1>1, CompleteStable DEF Sound, Whole

\* The refs of the finished chains complete their sets.
LEMMA ApplySets ==
    ASSUME DeployInv, SetsInv, Apply
    PROVE  SetsInv'
<1>1. /\ UNCHANGED <<accts, reports, moved, stale>> /\ pc = "chain" /\ pc' = "idle"
      /\ DOMAIN ds' = DOMAIN ds
  BY DEF Apply, End, mergeOutputs
<1>2. \A t \in Finished : t \notin stale =>
         /\ Sound(Over(ds[t], AggOf(t)))
         /\ t \notin moved => \E r \in reports["chain"] : SetOf(r) = t /\ r.out = AggOf(t)
  BY <1>1 DEF SetsInv, AggSound
<1>3. SetsWired'
  <2>1. ASSUME NEW t \in DOMAIN ds \ stale, Whole(ds'[t]) PROVE WiredRefs(ds[t])'
    <3>1. PICK w : w = ds'[t]
      OBVIOUS
    <3>2. CASE t \in Finished
      <4>1. Sound(w)
        BY <1>2, <2>1, <3>1, <3>2, Merged
      <4>2. WiredRefs(w)'
        BY <1>1, <4>1, SoundSame DEF Sound
      <4>3. QED
        BY <3>1, <4>2
    <3>3. CASE t \notin Finished
      <4>1. w = ds[t]
        BY <2>1, <3>1, <3>3, Merged
      <4>2. WiredRefs(w)
        BY <2>1, <3>1, <4>1 DEF SetsInv, SetsWired
      <4>3. WiredRefs(w)'
        BY <1>1, <4>2, SoundSame
      <4>4. QED
        BY <3>1, <4>3
    <3>4. QED
      BY <3>2, <3>3
  <2>2. QED
    BY <1>1, <2>1 DEF SetsWired, Whole
<1>4. ASSUME NEW r \in reports["chain"] PROVE ReportSound(r)'
  <2>1. PICK t, o, w : t = SetOf(r) /\ o = r.out /\ w = ds'[t]
    OBVIOUS
  <2>2. t \in DOMAIN ds /\ ds[t] = [s \in Slots |-> ds[t][s]]
    BY <2>1, ReportSets DEF DeployInv, RefsNamed
  <2>3. ASSUME t \notin moved \cup stale
        PROVE  /\ Functional(o) /\ Sound(Over(w, o))
               /\ Missing(w) # {} => SlotsOf(o) = Missing(w)
               /\ \A u \in reports["chain"] : SetOf(u) = t => Alike(o, u.out)
    <3>1. /\ Functional(o) /\ Sound(Over(ds[t], o))
          /\ Missing(ds[t]) # {} => SlotsOf(o) = Missing(ds[t])
          /\ \A u \in reports["chain"] : SetOf(u) = t => Alike(o, u.out)
      BY <2>1, <2>3 DEF SetsInv, ReportsSound, ReportSound
    <3>2. CASE t \notin Finished
      BY <2>1, <2>2, <2>3, <3>1, <3>2, Merged
    <3>3. CASE t \in Finished
      <4>1. PICK u \in reports["chain"] : SetOf(u) = t /\ u.out = AggOf(t)
        BY <1>2, <2>3, <3>3
      <4>2. w = Over(ds[t], u.out) /\ Sound(w)
        BY <1>2, <2>1, <2>2, <2>3, <3>3, <4>1, Merged
      <4>3. Over(w, o) = Over(ds[t], o) \/ Over(w, o) = w
        BY <2>2, <3>1, <4>1, <4>2, OverTwice
      <4>4. Missing(w) = {}
        BY <4>2 DEF Sound, CompleteSet, Missing
      <4>5. QED
        BY <3>1, <4>2, <4>3, <4>4
    <3>4. QED
      BY <3>2, <3>3
  <2>4. Sound(Over(w, o)) => Sound(Over(w, o))'
    <3>1. PICK v : v = Over(w, o)
      OBVIOUS
    <3>2. Over(w, o)' = v
      BY <3>1 DEF Over, AtSlot
    <3>3. QED
      BY <1>1, <3>1, <3>2, SoundSame
  <2>5. SetOf(r)' = t /\ \A u : SetOf(u)' = SetOf(u)
    BY <2>1 DEF SetOf
  <2>6. Missing(w)' = Missing(w)
    BY DEF Missing, loadDeployedAddresses, reconcile, Embedded
  <2>7. QED
    BY <1>1, <2>1, <2>3, <2>4, <2>5, <2>6 DEF ReportSound, Functional, SlotsOf, Alike
<1>5. ReportsSound'
  BY <1>1, <1>4 DEF ReportsSound
<1>6. RolesReported'
  BY <1>1, SameGrows, RolesStay DEF SetsInv
<1>7. RolesGranted' /\ Recorded' /\ AggSound'
  BY <1>1 DEF RolesGranted, Recorded, Running, AggSound
<1>8. QED
  BY <1>3, <1>5, <1>6, <1>7 DEF SetsInv

----------------------------------------------------------------------------
(* The invariant of the sets is kept: starts, ends, fresh bundles, deletions *)

\* While refs stay and no more sets are excepted, sets stay wired.
LEMMA WiredStay ==
    ASSUME DeployInv, SetsWired, Grows, UNCHANGED ds, stale \subseteq stale'
    PROVE  SetsWired'
<1>1. ASSUME NEW t \in DOMAIN ds \ stale, Whole(ds[t]) PROVE WiredRefs(ds[t])'
  <2>1. PICK c, w : c = t[1] /\ w = ds[t]
    OBVIOUS
  <2>2. WiredRefs(w) /\ Whole(w) /\ \A s \in Slots : w[s] # None => Named(c, s, w[s])
    BY <1>1, <2>1 DEF SetsWired, DeployInv, RefsNamed
  <2>3. WiredRefs(w)'
    BY <2>2, WiredStable
  <2>4. QED
    BY <2>1, <2>3
<1>2. QED
  BY <1>1 DEF SetsWired, Whole

\* Between runs, and before a run has finished a chain, refs, reports and
\* accounts are all there is.
LEMMA RestSets ==
    ASSUME DeployInv, SetsInv, Grows, UNCHANGED <<ds, reports, moved, stale>>,
           pc' \in {"idle", "chain"}, AggSound'
    PROVE  SetsInv'
<1>1. SetsWired' /\ ReportsSound'
  BY SetsStay
<1>2. RolesReported'
  BY RolesStay DEF SetsInv
<1>3. RolesGranted' /\ Recorded'
  BY DEF RolesGranted, Recorded, Running
<1>4. QED
  BY <1>1, <1>2, <1>3 DEF SetsInv

\* A run that starts has finished no chain (Apply).
LEMMA StartSets ==
    ASSUME DeployInv, SetsInv, NEW i \in Inputs, Start(i)
    PROVE  SetsInv'
<1>1. /\ UNCHANGED <<accts, ds, reports, moved, stale>> /\ pc' = "chain"
      /\ req' = i /\ todo' = DOMAIN i /\ agg' = {}
  BY DEF Start, changes
<1>2. AggSound'
  <2>1. Finished' = {}
    BY <1>1 DEF Finished
  <2>2. QED
    BY <1>1, <2>1 DEF AggSound
<1>3. QED
  BY <1>1, <1>2, SameGrows, RestSets

\* A run that fails records nothing (Fail, Refused, LoseResult).
LEMMA FailSets ==
    ASSUME DeployInv, SetsInv, Fail \/ Refused \/ LoseResult
    PROVE  SetsInv'
<1>1. Grows
  BY FailDeploys, LoseDeploys
<1>2. End /\ UNCHANGED <<ds, reports, moved, stale>>
  BY DEF Fail, Refused, LoseResult, Abort, changes
<1>3. pc' = "idle" /\ AggSound'
  BY <1>2 DEF End, AggSound
<1>4. QED
  BY <1>1, <1>2, <1>3, RestSets

\* A fresh bundle has no report that could be wrong.
LEMMA NewBundleSets ==
    ASSUME DeployInv, SetsInv, NewBundle
    PROVE  SetsInv'
<1>1. UNCHANGED <<accts, ds, pc, stale>> /\ pc = "idle" /\ reports' = NoReports
  BY DEF NewBundle
<1>2. SetsWired'
  BY <1>1, SameGrows, WiredStay DEF SetsInv
<1>3. RolesReported' /\ ReportsSound'
  BY <1>1 DEF NoReports, RolesReported, ReportsSound
<1>4. RolesGranted' /\ Recorded' /\ AggSound'
  BY <1>1 DEF RolesGranted, Recorded, Running, AggSound
<1>5. QED
  BY <1>2, <1>3, <1>4 DEF SetsInv

\* A deletion leaves the refs it does not name; the reports of the set may be
\* out of date from now on (the datastore changesets).
LEMMA DeleteSets ==
    ASSUME DeployInv, SetsInv, NEW u \in DOMAIN ds, NEW slots, Delete(u, slots)
    PROVE  SetsInv'
<1>1. /\ UNCHANGED <<accts, reports, pc, stale>> /\ pc = "idle" /\ moved' = moved \cup {u}
      /\ ds' = [ds EXCEPT ![u] = [s \in Slots |-> IF s \in slots THEN None ELSE @[s]]]
  BY DEF Delete
<1>2. /\ DOMAIN ds' = DOMAIN ds /\ \A t \in DOMAIN ds : t # u => ds'[t] = ds[t]
      /\ \A t \in DOMAIN ds, s \in Slots : ds'[t][s] # None => ds'[t][s] = ds[t][s]
  BY <1>1 DEF DeployInv, RefsNamed
<1>3. SetsWired'
  <2>1. ASSUME NEW t \in DOMAIN ds \ stale, Whole(ds'[t]) PROVE WiredRefs(ds[t])'
    <3>1. PICK w, v : w = ds[t] /\ v = ds'[t]
      OBVIOUS
    <3>2. \A s \in Slots \ ProgramSlots : v[s] = w[s] /\ w[s] # None
      BY <1>2, <2>1, <3>1 DEF Whole
    <3>3. WiredRefs(w)
      BY <2>1, <3>1, <3>2 DEF SetsInv, SetsWired, Whole
    <3>4. /\ v["timelock"] = w["timelock"] /\ \A s \in ACSlots \cup MCMSlots : v[s] = w[s]
      BY <3>2, SlotNames
    <3>5. \A r \in MCMRoles \cup {"canceller", "executor"} : v[ACSlot[r]] = w[ACSlot[r]]
      BY <3>4 DEF ACSlots, ACRoles, MCMRoles
    <3>6. \A r \in MCMRoles : v[MCMSlot[r]] = w[MCMSlot[r]]
      BY <3>4 DEF MCMSlots
    <3>7. WiredRefs(v)
      BY <3>3, <3>4, <3>5, <3>6 DEF WiredRefs, RefMembers, RefPDA
    <3>8. WiredRefs(v)'
      BY <1>1, <3>7, SoundSame
    <3>9. QED
      BY <3>1, <3>8
  <2>2. QED
    BY <1>1, <1>2, <2>1 DEF SetsWired, Whole
<1>4. ASSUME NEW r \in reports["chain"] PROVE ReportSound(r)'
  <2>1. PICK t, o, w : t = SetOf(r) /\ o = r.out /\ w = ds[t]
    OBVIOUS
  <2>2. t \in DOMAIN ds
    BY <2>1, ReportSets
  <2>3. ASSUME t \notin moved' \cup stale
        PROVE  /\ ds'[t] = w /\ Functional(o) /\ Sound(Over(w, o))
               /\ Missing(w) # {} => SlotsOf(o) = Missing(w)
               /\ \A v \in reports["chain"] : SetOf(v) = t => Alike(o, v.out)
    BY <1>1, <1>2, <2>1, <2>2, <2>3 DEF SetsInv, ReportsSound, ReportSound
  <2>4. Sound(Over(w, o)) => Sound(Over(w, o))'
    <3>1. PICK v : v = Over(w, o)
      OBVIOUS
    <3>2. Over(w, o)' = v
      BY <3>1 DEF Over, AtSlot
    <3>3. QED
      BY <1>1, <3>1, <3>2, SoundSame
  <2>5. SetOf(r)' = t /\ \A v : SetOf(v)' = SetOf(v)
    BY <2>1 DEF SetOf
  <2>6. Missing(w)' = Missing(w)
    BY DEF Missing, loadDeployedAddresses, reconcile, Embedded
  <2>7. QED
    BY <1>1, <2>1, <2>3, <2>4, <2>5, <2>6 DEF ReportSound, Functional, SlotsOf, Alike
<1>5. ReportsSound'
  BY <1>1, <1>4 DEF ReportsSound
<1>6. RolesReported'
  BY <1>1, SameGrows, RolesStay DEF SetsInv
<1>7. RolesGranted' /\ Recorded' /\ AggSound'
  BY <1>1 DEF RolesGranted, Recorded, Running, AggSound
<1>8. QED
  BY <1>3, <1>5, <1>6, <1>7 DEF SetsInv

\* Payments change no set and no report of a deploy (fund-mcm-pdas).
LEMMA PaySets ==
    ASSUME DeployInv, SetsInv, UNCHANGED <<accts, ds, pc, req, todo, local, agg, moved, stale>>,
           UNCHANGED <<reports["chain"], reports["op"]>>
    PROVE  SetsInv'
<1>1. Grows
  BY SameGrows
<1>2. SetsWired' /\ ReportsSound'
  BY <1>1, SetsStay
<1>3. AggSound'
  BY <1>1, AggStays
<1>4. RolesReported'
  BY <1>1, RolesStay DEF SetsInv
<1>5. Recorded'
  <2>1. PICK refs, o : refs = ds[set] /\ o = out
    OBVIOUS
  <2>2. Running => Agrees(refs, o)'
    BY <2>1, AgreesStays DEF SetsInv, Recorded, local
  <2>3. ds'[set'] = refs /\ out' = o
    BY <2>1 DEF set, ch, local
  <2>4. QED
    BY <2>2, <2>3 DEF Recorded, Running
<1>6. RolesGranted'
  <2>1. PICK e : e = existing
    OBVIOUS
  <2>2. Obeyed(e) => Obeyed(e)'
    BY <1>1, ObeyedStable
  <2>3. timelockRoleGrants' = timelockRoleGrants
    BY DEF timelockRoleGrants, Signer, SignerPDA, Deployer, local
  <2>4. \A g : Granted(e, g) => Granted(e, g)'
    BY <1>1, GrantedStable
  <2>5. QED
    BY <2>1, <2>2, <2>3, <2>4 DEF SetsInv, RolesGranted, local
<1>7. QED
  BY <1>2, <1>3, <1>4, <1>5, <1>6 DEF SetsInv

\* Every step of Apply keeps the invariant of the sets.
LEMMA RunSets ==
    ASSUME DeployInv, SetsInv, Run
    PROVE  SetsInv'
BY ReuseChainSets, LoadSets, ApplySets, HasSets, PartSets, OperationSets, RolesSets, GrantSets,
   ChainDoneSets, FailSets, SlotNames
DEF Run, deployAccessControllerProgramIfNeeded, deployMCMProgramIfNeeded, deployTimelockProgramIfNeeded,
    ProgramSlots

\* So does every step of fund-mcm-pdas.
LEMMA FundSets ==
    ASSUME DeployInv, SetsInv,
           (\E i \in FundInputs : StartFund(i)) \/ FundRun \/ FundFail \/ (\E c \in Chains : Spend(c))
    PROVE  SetsInv'
<1>1. CASE UNCHANGED vars
  BY <1>1, PaySets DEF vars, changes
<1>2. CASE UNCHANGED Others /\ \E k, o : Report("fund", k, o)
  <2>1. UNCHANGED <<reports["chain"], reports["op"]>>
    BY <1>2 DEF Report, DeployInv, ReportsOK
  <2>2. QED
    BY <1>2, <2>1, PaySets DEF Others, changes
<1>3. CASE FundFail
  BY <1>3, PaySets DEF FundFail, changes
<1>4. UNCHANGED vars \/ (UNCHANGED Others /\ \E k, o : Report("fund", k, o)) \/ FundFail
  BY DEF StartFund, FundRun, ReuseFunding, SeqFundMCMPDAs, SeqFundSolanaMCMPDAs, OpFundKey, FundChainDone,
         buildOutput, Insufficient, Spend
<1>5. QED
  BY <1>1, <1>2, <1>3, <1>4

\* At first no set is recorded, and nothing is reported.
LEMMA InitSets ==
    ASSUME SolanaInit
    PROVE  SetsInv
<1>1. /\ ds = [t \in Chains \X Quals |-> Nothing] /\ reports = NoReports /\ pc = "idle"
  BY DEF SolanaInit, Init
<1>2. SetsWired
  BY <1>1, SlotNames DEF SetsWired, Whole, Nothing
<1>3. RolesReported /\ ReportsSound
  BY <1>1 DEF NoReports, RolesReported, ReportsSound
<1>4. RolesGranted /\ Recorded /\ AggSound
  BY <1>1 DEF RolesGranted, Recorded, Running, AggSound
<1>5. QED
  BY <1>2, <1>3, <1>4 DEF SetsInv

\* Through failures, retries, fresh bundles, deletions and deployments of what
\* was deleted: what is held is what the datastore has or the run will record,
\* what the roles report says was granted is, and the report of a chain
\* completes the set it was written to (sequence.go, idempotency.go, Apply).
THEOREM SetsInvariance == SolanaSpec => [](DeployInv /\ SetsInv)
<1>1. SolanaInit => DeployInv /\ SetsInv
  BY InitDeploys, InitSets
<1>2. DeployInv /\ SetsInv /\ [SolanaNext]_allVars => SetsInv'
  <2>1. CASE DeployNext
    <3>1. CASE \E i \in Inputs : Start(i)
      BY <3>1, StartSets
    <3>2. CASE \E t \in DOMAIN ds, slots \in Deletable : Delete(t, slots)
      BY <3>2, DeleteSets
    <3>3. QED
      BY <2>1, <3>1, <3>2, RunSets, FailSets, NewBundleSets DEF DeployNext
  <2>2. CASE UNCHANGED allVars
    BY <2>2, PaySets DEF allVars, vars, changes
  <2>3. QED
    BY <2>1, <2>2, FundSets DEF SolanaNext
<1>3. QED
  BY <1>1, <1>2, DeployInvariance, PTL DEF SolanaSpec

\* A set the datastore has as a whole works: its timelock obeys its access
\* controllers and they its MCMs, also where refs were deleted and deployed
\* again; the exception are sets an old report was written to.
THEOREM WholeSetsWork == SolanaSpec => []Wired
<1>1. SetsInv => Wired
  <2>1. \A t, r : RefPDA(ds[t], r) = PDAOf(t, r) /\ RefMembers(ds[t], r) = Members(t, r)
    BY DEF RefPDA, RefMembers, PDAOf, Members
  <2>2. QED
    BY <2>1 DEF SetsInv, SetsWired, Whole, WiredRefs, Wired
<1>2. QED
  BY <1>1, SetsInvariance, PTL

\* A run that succeeds leaves the set of each of its chains complete, also when
\* it was a retry in a bundle with reports of parts of it; the exception are
\* reports reused after a deletion (Apply, mergeOutputs).
THEOREM SuccessCompletes == SolanaSpec => RecordComplete
<1> DEFINE Completes == pc = "chain" /\ todo = {} /\ pc' = "idle" =>
                (fails' = fails => \A c \in DOMAIN req :
                    \/ <<c, req[c].qual>> \in stale
                    \/ CompleteSet(ds'[<<c, req[c].qual>>]))
<1>1. DeployInv /\ SetsInv /\ [SolanaNext]_allVars => Completes
  <2> SUFFICES ASSUME DeployInv, SetsInv, [SolanaNext]_allVars, pc = "chain", todo = {}, pc' = "idle",
                      fails' = fails, NEW c \in DOMAIN req, <<c, req[c].qual>> \notin stale
               PROVE  CompleteSet(ds'[<<c, req[c].qual>>])
    OBVIOUS
  <2>1. Apply
    <3>1. fails \in Nat /\ fails + 1 # fails
      BY BoundsAssumption DEF DeployInv, ApplyOK
    <3>2. DeployNext
      BY DEF SolanaNext, allVars, vars, StartFund, FundRun, ReuseFunding, SeqFundMCMPDAs, SeqFundSolanaMCMPDAs,
             OpFundKey, FundChainDone, buildOutput, Insufficient, FundFail, Spend, Others
    <3>3. ~Fail /\ ~LoseResult
      BY <3>1 DEF Fail, LoseResult, Abort
    <3>4. ~Refused
      BY Places, SlotNames DEF Refused, Doomed, MustRun, needed
    <3>5. ~NewBundle /\ (\A t, slots : ~Delete(t, slots)) /\ \A i : ~Start(i)
      BY DEF NewBundle, Delete, Start
    <3>6. Run
      BY <3>2, <3>3, <3>5 DEF DeployNext
    <3>7. pc \notin Slots
      BY Places
    <3>8. QED
      BY <3>4, <3>6, <3>7, SlotNames, Places
      DEF Run, ReuseChain, deployMCMSWithTimelock, hasExisting, ReuseOp, deployAccessControllerProgramIfNeeded,
          deployMCMProgramIfNeeded, deployTimelockProgramIfNeeded, opDeployProgram, waitForProgramReady,
          opInitAccessControllerAccount, opInitMCMInstance, initMCMInstance, opInitTimelockInstance,
          setupTimelockRoles, opSetupTimelockRoles, ChainDone, MustRun, needed
  <2>2. PICK t : t = <<c, req[c].qual>>
    OBVIOUS
  <2>3. t \in Finished /\ t \in DOMAIN ds
    BY <2>2, FinishedSets DEF Finished
  <2>4. Sound(Over(ds[t], AggOf(t)))
    BY <2>2, <2>3 DEF SetsInv, AggSound
  <2>5. ds'[t] = Over(ds[t], AggOf(t))
    BY <2>1, <2>2, <2>3, Merged
  <2>6. QED
    BY <2>2, <2>4, <2>5 DEF Sound
<1>2. QED
  BY <1>1, SetsInvariance, PTL DEF SolanaSpec, RecordComplete

----------------------------------------------------------------------------
(* The inductive invariant of fund-mcm-pdas *)

\* How many targets of a chain are still to be paid.
Left(c) == IF fpc = "pay" /\ c = fch THEN Len(queue) ELSE 4

BooksOK ==
    /\ DOMAIN reports = {"chain", "op", "fund"}
    /\ DOMAIN ds = Chains \X Quals
    /\ bundles \in Nat
    /\ lamports \in [Chains -> 0..MaxUint64]

RunOK ==
    /\ fpc \in {"idle", "chain", "pay"}
    /\ fpc # "idle" =>
          /\ pc = "idle" /\ freq \in FundInputs /\ ftodo \subseteq DOMAIN freq
          /\ \A c \in DOMAIN freq : c \in Chains /\ validateMCMSRefs(c, freq[c])
    /\ fpc = "pay" =>
          /\ fch \in ftodo /\ Len(queue) \in 0..4
          /\ queue = [n \in 1..Len(queue) |->
                        ResolveFundingTargets(fch, freq[fch])[n + 4 - Len(queue)]]

\* The lamports, and a fee for each target passed, cover what the run still owes.
Solvent ==
    fpc # "idle" =>
       \A c \in ftodo \ spent :
          NoWrap(freq[c]) => lamports[c] + Fee * (4 - Left(c)) >= Owed(freq[c], Left(c))

\* What landed once is reported.
Once ==
    bundles = 0 /\ ~unseen =>
       \A p \in paid : p.n = 1 /\ Reusable("fund", [to |-> p.to, amount |-> p.amount])

\* The n-th target of c's set is known and has got its amount.
PaidAt(c, f, n) ==
    LET t == ResolveFundingTargets(c, f)[n]
    IN  RefsOf(c, f)[Targets[n]] # None /\ (t.amount # 0 => Received(t.to, t.amount))
Excepted(c, f) == <<c, f.qual>> \in moved \cup replaced

\* The chain's set is funded, or its refs have changed since the bundle began.
Funded(c, f) == Excepted(c, f) \/ \A n \in 1..4 : PaidAt(c, f, n)

\* A payment that is reported landed, and a chain that is reported is funded.
ReportTrue(r) ==
    IF "to" \in DOMAIN r.k THEN Received(r.k.to, r.k.amount)
    ELSE r.k.ch \in Chains /\ r.k.config.qual \in Quals /\ Funded(r.k.ch, r.k.config)
ReportsTrue == \A r \in reports["fund"] : ReportTrue(r)

\* The run has funded the chains and paid the targets it has passed.
PassedPaid ==
    fpc # "idle" =>
       /\ \A c \in DOMAIN freq \ ftodo : Funded(c, freq[c])
       /\ fpc = "pay" => \A n \in 1..(4 - Len(queue)) : PaidAt(fch, freq[fch], n)

FundInv == BooksOK /\ RunOK /\ Solvent /\ Once /\ ReportsTrue /\ PassedPaid

----------------------------------------------------------------------------
(* What the deploy changeset does to what fund-mcm-pdas relies on *)

\* Reports of payments and funded chains are kept, or the bundle is left.
FundReportsKept ==
    /\ DOMAIN reports' = DOMAIN reports
    /\ \/ bundles' = bundles /\ reports'["fund"] = reports["fund"]
       \/ bundles' = bundles + 1 /\ reports'["fund"] = {}

\* A set that is not marked keeps the refs it has.
RefsKept ==
    /\ DOMAIN ds' = DOMAIN ds
    /\ bundles' = bundles =>
          /\ moved \subseteq moved' /\ replaced \subseteq replaced'
          /\ \A t \in DOMAIN ds \ (moved' \cup replaced'), s \in Slots :
                ds[t][s] # None => ds'[t][s] = ds[t][s]

Kept == FundReportsKept /\ RefsKept

\* An action that leaves the datastore and its marks alone keeps what
\* fund-mcm-pdas relies on.
LEMMA KeptBy ==
    ASSUME UNCHANGED <<ds, moved, replaced, bundles>>, FundReportsKept
    PROVE  Kept
BY DEF Kept, RefsKept

\* A report of a chain or of an operation is none of fund-mcm-pdas's.
LEMMA ReportKeeps ==
    ASSUME BooksOK, NEW op \in {"chain", "op"}, NEW k, NEW o, Report(op, k, o), bundles' = bundles
    PROVE  FundReportsKept
BY DEF BooksOK, Report, FundReportsKept

\* Every step of the deploy changeset's Apply keeps it.
LEMMA RunKeeps ==
    ASSUME BooksOK, Run
    PROVE  Kept
<1> USE DEF local, changes, counters
<1>1. CASE ReuseChain
  BY <1>1, KeptBy DEF ReuseChain, FundReportsKept
<1>2. CASE deployMCMSWithTimelock
  BY <1>2, KeptBy DEF deployMCMSWithTimelock, FundReportsKept
<1>3. CASE hasExisting
  BY <1>3, KeptBy DEF hasExisting, FundReportsKept
<1>4. CASE ReuseOp
  BY <1>4, KeptBy DEF ReuseOp, FundReportsKept
<1>5. ASSUME NEW s, opDeployProgram(s) PROVE Kept
  BY <1>5, KeptBy DEF opDeployProgram, FundReportsKept
<1>6. CASE waitForProgramReady
  BY <1>6, KeptBy, ReportKeeps DEF waitForProgramReady, Done
<1>7. CASE opInitAccessControllerAccount
  BY <1>7, KeptBy, ReportKeeps DEF opInitAccessControllerAccount, Done
<1>8. CASE opInitMCMInstance
  BY <1>8, KeptBy DEF opInitMCMInstance, FundReportsKept
<1>9. CASE initMCMInstance
  BY <1>9, KeptBy, ReportKeeps DEF initMCMInstance, Done
<1>10. CASE opInitTimelockInstance
  BY <1>10, KeptBy, ReportKeeps DEF opInitTimelockInstance, Done
<1>11. CASE setupTimelockRoles
  BY <1>11, KeptBy DEF setupTimelockRoles, FundReportsKept
<1>12. CASE opSetupTimelockRoles
  <2>1. UNCHANGED <<ds, moved, replaced, bundles>>
    BY <1>12 DEF opSetupTimelockRoles
  <2>2. Report("op", rolesKey, None) \/ reports' = reports
    BY <1>12 DEF opSetupTimelockRoles
  <2>3. FundReportsKept
    BY <2>1, <2>2, ReportKeeps DEF FundReportsKept
  <2>4. QED
    BY <2>1, <2>3, KeptBy
<1>13. CASE ChainDone
  BY <1>13, KeptBy, ReportKeeps DEF ChainDone
<1>14. CASE Refused
  BY <1>14, KeptBy DEF Refused, FundReportsKept
<1>15. CASE Apply
  <2>1. /\ ds' = mergeOutputs(agg) /\ UNCHANGED <<reports, moved, bundles>>
        /\ replaced' = replaced \cup {t \in DOMAIN ds : \E s \in Slots : ds[t][s] \notin {None, ds'[t][s]}}
    BY <1>15 DEF Apply
  <2>2. DOMAIN ds' = DOMAIN ds
    BY <2>1 DEF mergeOutputs
  <2>3. ASSUME NEW t \in DOMAIN ds, t \notin moved' \cup replaced', NEW s \in Slots, ds[t][s] # None
        PROVE  ds'[t][s] = ds[t][s]
    BY <2>1, <2>3
  <2>4. QED
    BY <2>1, <2>2, <2>3 DEF Kept, RefsKept, FundReportsKept
<1>16. QED
  BY <1>1, <1>2, <1>3, <1>4, <1>5, <1>6, <1>7, <1>8, <1>9, <1>10, <1>11, <1>12, <1>13, <1>14, <1>15
  DEF Run, deployAccessControllerProgramIfNeeded, deployMCMProgramIfNeeded, deployTimelockProgramIfNeeded

\* So do failures, fresh bundles and deletions, which mark the set.
LEMMA DeployKeeps ==
    ASSUME BooksOK, DeployNext
    PROVE  Kept
<1>1. ASSUME NEW i \in Inputs, Start(i) PROVE Kept
  BY <1>1, KeptBy DEF Start, FundReportsKept, changes
<1>2. CASE Run
  BY <1>2, RunKeeps
<1>3. CASE Fail
  BY <1>3, KeptBy DEF Fail, Abort, FundReportsKept, changes
<1>4. CASE LoseResult
  BY <1>4, KeptBy DEF LoseResult, Abort, FundReportsKept, changes
<1>5. CASE NewBundle
  <2>1. UNCHANGED ds /\ bundles' = bundles + 1 /\ reports' = NoReports
    BY <1>5 DEF NewBundle
  <2>2. bundles' # bundles
    BY <2>1 DEF BooksOK
  <2>3. FundReportsKept
    BY <2>1 DEF FundReportsKept, NoReports, BooksOK
  <2>4. QED
    BY <2>1, <2>2, <2>3 DEF Kept, RefsKept
<1>6. ASSUME NEW t \in DOMAIN ds, NEW slots \in Deletable, Delete(t, slots) PROVE Kept
  <2>1. /\ ds' = [ds EXCEPT ![t] = [s \in Slots |-> IF s \in slots THEN None ELSE @[s]]]
        /\ moved' = moved \cup {t} /\ UNCHANGED <<reports, replaced, bundles>>
    BY <1>6 DEF Delete
  <2>2. DOMAIN ds' = DOMAIN ds /\ \A u \in DOMAIN ds \ {t} : ds'[u] = ds[u]
    BY <2>1
  <2>3. QED
    BY <2>1, <2>2 DEF Kept, RefsKept, FundReportsKept
<1>7. QED
  BY <1>1, <1>2, <1>3, <1>4, <1>5, <1>6 DEF DeployNext

----------------------------------------------------------------------------
(* Facts about the state of fund-mcm-pdas *)

\* The order of ResolveFundingTargets.
LEMMA TargetNames ==
    /\ Targets[1] = "timelock" /\ Targets[2] = "proposerMCM"
    /\ Targets[3] = "cancellerMCM" /\ Targets[4] = "bypasserMCM"
    /\ {Targets[n] : n \in 1..4} = {"timelock", "proposerMCM", "cancellerMCM", "bypasserMCM"}
<1>1. /\ Targets[1] = "timelock" /\ Targets[2] = "proposerMCM"
      /\ Targets[3] = "cancellerMCM" /\ Targets[4] = "bypasserMCM"
  BY DEF Targets
<1>2. 1..4 = {1, 2, 3, 4}
  OBVIOUS
<1>3. QED
  BY <1>1, <1>2

\* The targets are slots of a set.
LEMMA TargetSlots == \A n \in 1..4 : Targets[n] \in Slots
<1>1. {"timelock", "proposerMCM", "cancellerMCM", "bypasserMCM"} \subseteq Slots
  BY DEF Slots, MCMSlots, MCMSlot, MCMRoles
<1>2. QED
  BY <1>1, TargetNames

\* Amounts are uint64s.
LEMMA AmountTypes ==
    ASSUME NEW i \in FundInputs, NEW c \in DOMAIN i
    PROVE  /\ i[c].qual \in Quals
           /\ \A n \in 1..4 : i[c].amount[Targets[n]] \in 0..MaxUint64
           /\ i[c].amount["timelock"] \in 0..MaxUint64
           /\ i[c].amount["proposerMCM"] \in 0..MaxUint64
           /\ i[c].amount["cancellerMCM"] \in 0..MaxUint64
           /\ i[c].amount["bypasserMCM"] \in 0..MaxUint64
           /\ MaxUint64 \in Nat
<1>1. i[c].qual \in Quals /\ i[c].amount \in [{Targets[n] : n \in 1..4} -> 0..MaxUint64]
  BY FundAssumption
<1>2. MaxUint64 \in Nat
  BY BoundsAssumption
<1>3. QED
  BY <1>1, <1>2, TargetNames

\* A uint64 is its own remainder.
LEMMA SmallMod ==
    ASSUME NEW m \in Nat, NEW x \in 0..m
    PROVE  x % (m + 1) = x
OBVIOUS

\* RequiredFunding is the sum of the amounts, unless it overflows.
LEMMA RequiredIsOwed ==
    ASSUME NEW i \in FundInputs, NEW c \in DOMAIN i, NoWrap(i[c])
    PROVE  RequiredFunding(i[c]) = Owed(i[c], 4)
<1> DEFINE a == i[c].amount
           x == a["proposerMCM"] + a["cancellerMCM"] + a["bypasserMCM"] + a["timelock"]
<1>1. /\ MaxUint64 \in Nat /\ x \in 0..MaxUint64
      /\ a["timelock"] \in Nat /\ a["proposerMCM"] \in Nat /\ a["cancellerMCM"] \in Nat /\ a["bypasserMCM"] \in Nat
  BY AmountTypes DEF NoWrap
<1>2. RequiredFunding(i[c]) = x % (MaxUint64 + 1)
  BY DEF RequiredFunding
<1>3. Owed(i[c], 4) = x
  BY <1>1 DEF Owed
<1> HIDE DEF x
<1>4. QED
  BY <1>1, <1>2, <1>3, SmallMod

\* Paying the first of the last n targets leaves the others owed.
LEMMA OwedNext ==
    ASSUME NEW i \in FundInputs, NEW c \in DOMAIN i, NEW n \in 1..4
    PROVE  /\ Owed(i[c], n) = i[c].amount[Targets[5 - n]] + Owed(i[c], n - 1)
           /\ Owed(i[c], n) \in Nat /\ Owed(i[c], n - 1) \in Nat
<1>1. /\ i[c].amount["timelock"] \in Nat /\ i[c].amount["proposerMCM"] \in Nat
      /\ i[c].amount["cancellerMCM"] \in Nat /\ i[c].amount["bypasserMCM"] \in Nat
  BY AmountTypes
<1>2. CASE n = 1
  BY <1>1, <1>2, TargetNames DEF Owed
<1>3. CASE n = 2
  BY <1>1, <1>3, TargetNames DEF Owed
<1>4. CASE n = 3
  BY <1>1, <1>4, TargetNames DEF Owed
<1>5. CASE n = 4
  BY <1>1, <1>5, TargetNames DEF Owed
<1>6. QED
  BY <1>2, <1>3, <1>4, <1>5

\* The head of the queue is the next target of the chain.
LEMMA QueueFacts ==
    ASSUME RunOK, fpc = "pay", queue # <<>>
    PROVE  /\ Len(queue) \in 1..4
           /\ Head(queue) = ResolveFundingTargets(fch, freq[fch])[5 - Len(queue)]
           /\ Len(Tail(queue)) = Len(queue) - 1
           /\ Tail(queue) = [n \in 1..(Len(queue) - 1) |->
                               ResolveFundingTargets(fch, freq[fch])[n + 4 - (Len(queue) - 1)]]
<1> DEFINE R == ResolveFundingTargets(fch, freq[fch])
<1>1. Len(queue) \in 0..4 /\ queue = [n \in 1..Len(queue) |-> R[n + 4 - Len(queue)]]
  BY DEF RunOK
<1> HIDE DEF R
<1>2. PICK q, N : q = queue /\ N = 4
  OBVIOUS
<1>3. /\ Len(q) \in 1..4 /\ Head(q) = R[4 + 1 - Len(q)] /\ Len(Tail(q)) = Len(q) - 1
      /\ Tail(q) = [n \in 1..(Len(q) - 1) |-> R[n + 4 - (Len(q) - 1)]]
  <2>1. N \in Nat
    BY <1>2
  <2>2. Len(q) \in 0..N
    BY <1>1, <1>2
  <2>3. q # <<>>
    BY <1>2
  <2>4. q = [n \in 1..Len(q) |-> R[n + N - Len(q)]]
    BY <1>1, <1>2
  <2>5. /\ Len(q) \in 1..N /\ Head(q) = R[N + 1 - Len(q)] /\ Len(Tail(q)) = Len(q) - 1
        /\ Tail(q) = [n \in 1..(Len(q) - 1) |-> R[n + N - (Len(q) - 1)]]
    BY <2>1, <2>2, <2>3, <2>4, SuffixTail
  <2>6. QED
    BY <1>2, <2>5
<1>4. 4 + 1 - Len(q) = 5 - Len(q)
  BY <1>3
<1>5. Head(q) = R[5 - Len(q)]
  BY <1>3, <1>4
<1>6. QED
  BY <1>2, <1>3, <1>5 DEF R

\* A target that was paid stays paid while its ref does.
LEMMA PaidAtStable ==
    ASSUME NEW c, NEW f, NEW n \in 1..4, PaidAt(c, f, n), paid \subseteq paid',
           ds'[<<c, f.qual>>][Targets[n]] = ds[<<c, f.qual>>][Targets[n]]
    PROVE  PaidAt(c, f, n)'
BY DEF PaidAt, ResolveFundingTargets, SignerPDAFromRef, RefsOf, Received

\* Reports that were true stay true while sets stay funded.
LEMMA ReportTrueStable ==
    ASSUME NEW r, ReportTrue(r), paid \subseteq paid',
           \A c \in Chains : \A f : f.qual \in Quals /\ Funded(c, f) => Funded(c, f)'
    PROVE  ReportTrue(r)'
<1>1. CASE "to" \in DOMAIN r.k
  BY <1>1 DEF ReportTrue, Received
<1>2. CASE "to" \notin DOMAIN r.k
  <2>1. r.k.ch \in Chains /\ r.k.config.qual \in Quals /\ Funded(r.k.ch, r.k.config)
    BY <1>2 DEF ReportTrue
  <2>2. Funded(r.k.ch, r.k.config)'
    BY <2>1
  <2>3. QED
    BY <1>2, <2>1, <2>2 DEF ReportTrue
<1>3. QED
  BY <1>1, <1>2

\* Sets stay funded while the datastore and its marks stay as they are.
LEMMA FundedStable ==
    ASSUME UNCHANGED <<ds, moved, replaced>>, paid \subseteq paid', NEW c, NEW f, Funded(c, f)
    PROVE  Funded(c, f)'
<1>1. Excepted(c, f)' = Excepted(c, f)
  BY DEF Excepted
<1>2. \A n \in 1..4 : PaidAt(c, f, n) => PaidAt(c, f, n)'
  BY PaidAtStable
<1>3. QED
  BY <1>1, <1>2 DEF Funded

----------------------------------------------------------------------------
(* The invariant is kept: the deploy changeset's steps *)

\* A funded set stays funded, or a deletion or a replacement marks it.
LEMMA FundedKept ==
    ASSUME BooksOK, Kept, bundles' = bundles, paid' = paid,
           NEW c \in Chains, NEW f, f.qual \in Quals, Funded(c, f)
    PROVE  Funded(c, f)'
<1>1. <<c, f.qual>> \in DOMAIN ds
  BY DEF BooksOK
<1>2. Excepted(c, f) => Excepted(c, f)'
  BY DEF Kept, RefsKept, Excepted
<1>3. ASSUME ~Excepted(c, f)', NEW n \in 1..4, PaidAt(c, f, n)
      PROVE  PaidAt(c, f, n)'
  <2>1. ds[<<c, f.qual>>][Targets[n]] # None
    BY <1>3 DEF PaidAt, RefsOf
  <2>2. <<c, f.qual>> \notin moved' \cup replaced'
    BY <1>3 DEF Excepted
  <2>3. ds'[<<c, f.qual>>][Targets[n]] = ds[<<c, f.qual>>][Targets[n]]
    BY <1>1, <2>1, <2>2, TargetSlots DEF Kept, RefsKept
  <2>4. QED
    BY <1>3, <2>3, PaidAtStable
<1>4. QED
  BY <1>2, <1>3 DEF Funded

\* Deploys, deletions and fresh bundles keep what was paid, funded and reported.
LEMMA DeployFund ==
    ASSUME FundInv, fpc = "idle", DeployNext, UNCHANGED fundVars
    PROVE  FundInv'
<1>1. Kept
  BY DeployKeeps DEF FundInv
<1>2. /\ fpc' = "idle" /\ paid' = paid /\ lamports' = lamports /\ unseen' = unseen
  BY DEF fundVars
<1>3. BooksOK'
  BY <1>1, <1>2 DEF FundInv, BooksOK, Kept, FundReportsKept, RefsKept
<1>4. RunOK' /\ Solvent' /\ PassedPaid'
  BY <1>2 DEF RunOK, Solvent, PassedPaid
<1>5. Once'
  <2>1. ASSUME bundles' = 0 PROVE bundles = 0 /\ bundles' = bundles
    BY <1>1, <2>1 DEF Kept, FundReportsKept, FundInv, BooksOK
  <2>2. ASSUME bundles' = bundles PROVE reports'["fund"] = reports["fund"]
    BY <1>1, <2>2 DEF Kept, FundReportsKept, FundInv, BooksOK
  <2>3. QED
    BY <1>2, <2>1, <2>2 DEF Once, FundInv, Reusable
<1>6. ReportsTrue'
  <2>1. CASE reports'["fund"] = {}
    BY <2>1 DEF ReportsTrue
  <2>2. CASE bundles' = bundles /\ reports'["fund"] = reports["fund"]
    <3>1. \A c \in Chains : \A f : f.qual \in Quals /\ Funded(c, f) => Funded(c, f)'
      BY <1>1, <1>2, <2>2, FundedKept DEF FundInv
    <3>2. \A r \in reports["fund"] : ReportTrue(r)'
      BY <1>2, <3>1, ReportTrueStable DEF FundInv, ReportsTrue
    <3>3. QED
      BY <2>2, <3>2 DEF ReportsTrue
  <2>3. QED
    BY <1>1, <2>1, <2>2 DEF Kept, FundReportsKept
<1>7. QED
  BY <1>3, <1>4, <1>5, <1>6 DEF FundInv

----------------------------------------------------------------------------
(* The invariant is kept: the steps of fund-mcm-pdas *)

\* What was reported stays true as the changeset pays.
LEMMA PayingKeeps ==
    ASSUME ReportsTrue, UNCHANGED <<ds, moved, replaced>>, paid \subseteq paid'
    PROVE  \A r \in reports["fund"] : ReportTrue(r)'
<1>1. \A c \in Chains : \A f : f.qual \in Quals /\ Funded(c, f) => Funded(c, f)'
  BY FundedStable
<1>2. QED
  BY <1>1, ReportTrueStable DEF ReportsTrue

\* What a step of the changeset leaves alone when it pays and reports nothing.
Quiet == UNCHANGED <<vars, lamports, paid, unseen>>

\* The books survive such a step.
LEMMA QuietKeeps ==
    ASSUME FundInv, Quiet
    PROVE  /\ BooksOK' /\ Once' /\ ReportsTrue'
           /\ UNCHANGED <<pc, ds, moved, replaced, lamports, paid>>
<1>1. UNCHANGED <<ds, reports, pc, moved, replaced, bundles, lamports, paid, unseen>>
  BY DEF Quiet, vars, changes, counters
<1>2. BooksOK'
  BY <1>1 DEF FundInv, BooksOK
<1>3. Once'
  BY <1>1 DEF FundInv, Once, Reusable
<1>4. ReportsTrue'
  <2>1. \A r \in reports["fund"] : ReportTrue(r)'
    BY <1>1, PayingKeeps DEF FundInv
  <2>2. QED
    BY <1>1, <2>1 DEF ReportsTrue
<1>5. QED
  BY <1>1, <1>2, <1>3, <1>4

\* A run begins only with the lamports it needs, on chains whose refs it found.
LEMMA StartFundKeeps ==
    ASSUME FundInv, NEW i \in FundInputs, StartFund(i)
    PROVE  FundInv'
<1>1. /\ pc = "idle" /\ fpc' = "chain" /\ freq' = i /\ ftodo' = DOMAIN i /\ spent' = {}
      /\ VerifyPreconditions(i) /\ Quiet
  BY DEF StartFund, Quiet
<1>2. BooksOK' /\ Once' /\ ReportsTrue'
  BY <1>1, QuietKeeps
<1>3. RunOK'
  <2>1. \A c \in DOMAIN i : c \in Chains /\ validateMCMSRefs(c, i[c])
    BY <1>1 DEF VerifyPreconditions
  <2>2. ds' = ds /\ pc' = "idle"
    BY <1>1, QuietKeeps
  <2>3. QED
    BY <1>1, <2>1, <2>2 DEF RunOK, validateMCMSRefs, RefsOf
<1>4. Solvent'
  <2>1. ASSUME NEW c \in DOMAIN i, NoWrap(i[c]) PROVE lamports[c] + Fee * (4 - 4) >= Owed(i[c], 4)
    <3>1. lamports[c] >= Owed(i[c], 4) /\ c \in Chains
      BY <1>1, <2>1, RequiredIsOwed DEF VerifyPreconditions, validateDeployerBalance
    <3>2. lamports[c] \in 0..MaxUint64
      BY <3>1 DEF FundInv, BooksOK
    <3>3. Fee * (4 - 4) = 0
      BY FundAssumption
    <3>4. QED
      BY <3>1, <3>2, <3>3
  <2>2. \A c : Left(c)' = 4
    BY <1>1 DEF Left
  <2>3. lamports' = lamports
    BY <1>1 DEF Quiet
  <2>4. QED
    BY <1>1, <2>1, <2>2, <2>3 DEF Solvent
<1>5. PassedPaid'
  BY <1>1 DEF PassedPaid
<1>6. QED
  BY <1>2, <1>3, <1>4, <1>5 DEF FundInv

\* The chain a running changeset is at is one of those left.
LEMMA FirstLeft ==
    ASSUME FundInv, fpc # "idle", ftodo # {}
    PROVE  /\ fch \in ftodo /\ fch \in DOMAIN freq /\ fch \in Chains /\ freq \in FundInputs
           /\ validateMCMSRefs(fch, freq[fch]) /\ freq[fch].qual \in Quals
<1>1. ftodo \subseteq DOMAIN freq /\ freq \in FundInputs
      /\ \A c \in DOMAIN freq : c \in Chains /\ validateMCMSRefs(c, freq[c])
  BY DEF FundInv, RunOK
<1>2. ftodo \subseteq Nat
  BY <1>1, ChainsAssumption
<1>3. \E c \in ftodo : \A d \in ftodo : c <= d
  BY <1>2, LeastNat
<1>4. fch \in ftodo
  BY <1>3 DEF fch
<1>5. freq[fch].qual \in Quals
  BY <1>1, <1>4, AmountTypes
<1>6. QED
  BY <1>1, <1>4, <1>5

\* The report of a chain says that its set is funded.
LEMMA ChainReported ==
    ASSUME ReportsTrue, NEW c, NEW f, Reusable("fund", [ch |-> c, config |-> f])
    PROVE  Funded(c, f)
<1>1. PICK r \in reports["fund"] : r.k = [ch |-> c, config |-> f]
  BY DEF Reusable
<1>2. r.k.ch = c /\ r.k.config = f /\ "to" \notin DOMAIN r.k
  BY <1>1
<1>3. ReportTrue(r)
  BY DEF ReportsTrue
<1>4. QED
  BY <1>2, <1>3 DEF ReportTrue

\* The report of a payment says that it landed.
LEMMA PaymentReported ==
    ASSUME ReportsTrue, NEW to, NEW amount, Reusable("fund", [to |-> to, amount |-> amount])
    PROVE  Received(to, amount)
<1>1. PICK r \in reports["fund"] : r.k = [to |-> to, amount |-> amount]
  BY DEF Reusable
<1>2. r.k.to = to /\ r.k.amount = amount /\ "to" \in DOMAIN r.k
  BY <1>1
<1>3. ReportTrue(r)
  BY DEF ReportsTrue
<1>4. QED
  BY <1>2, <1>3 DEF ReportTrue

\* A chain whose report is reused is funded already.
LEMMA ReuseFundingKeeps ==
    ASSUME FundInv, ReuseFunding
    PROVE  FundInv'
<1>1. /\ fpc = "chain" /\ fpc' = "chain" /\ ftodo # {} /\ ftodo' = ftodo \ {fch}
      /\ freq' = freq /\ spent' = spent /\ Reusable("fund", FundChainInput) /\ Quiet
  BY DEF ReuseFunding, Quiet
<1>2. BooksOK' /\ Once' /\ ReportsTrue' /\ UNCHANGED <<pc, ds, moved, replaced, lamports, paid>>
  BY <1>1, QuietKeeps
<1>3. RunOK'
  BY <1>1, <1>2 DEF FundInv, RunOK, validateMCMSRefs, RefsOf
<1>4. Solvent'
  <2>1. \A c : Left(c) = 4 /\ Left(c)' = 4
    BY <1>1 DEF Left
  <2>2. QED
    BY <1>1, <1>2, <2>1 DEF FundInv, Solvent
<1>5. PassedPaid'
  <2>1. Funded(fch, freq[fch])
    BY <1>1, ChainReported DEF FundInv, FundChainInput
  <2>2. \A c \in DOMAIN freq \ ftodo : Funded(c, freq[c])
    BY <1>1 DEF FundInv, PassedPaid
  <2>3. \A c \in DOMAIN freq \ ftodo' : Funded(c, freq[c])
    BY <1>1, <2>1, <2>2
  <2>4. \A c \in DOMAIN freq \ ftodo' : Funded(c, freq[c])'
    BY <1>1, <1>2, <2>3, FundedStable
  <2>5. QED
    BY <1>1, <2>4 DEF PassedPaid
<1>6. QED
  BY <1>2, <1>3, <1>4, <1>5 DEF FundInv

\* A chain begins with all its targets in the queue.
LEMMA SeqFundKeeps ==
    ASSUME FundInv, SeqFundMCMPDAs
    PROVE  FundInv'
<1>1. /\ fpc = "chain" /\ fpc' = "pay" /\ ftodo # {} /\ ftodo' = ftodo
      /\ freq' = freq /\ spent' = spent /\ Quiet
      /\ queue' = ResolveFundingTargets(fch, freq[fch])
  BY DEF SeqFundMCMPDAs, Quiet
<1>2. BooksOK' /\ Once' /\ ReportsTrue' /\ UNCHANGED <<pc, ds, moved, replaced, lamports, paid>>
  BY <1>1, QuietKeeps
<1>3. fch' = fch /\ fch \in ftodo
  BY <1>1, FirstLeft DEF fch
<1>4. /\ Len(queue') = 4
      /\ queue' = [n \in 1..4 |-> ResolveFundingTargets(fch, freq[fch])[n]]
  <2>1. ResolveFundingTargets(fch, freq[fch])
          = [n \in 1..4 |-> ResolveFundingTargets(fch, freq[fch])[n]]
    BY DEF ResolveFundingTargets
  <2>2. QED
    BY <1>1, <2>1
<1>5. RunOK'
  <2>1. \A n \in 1..4 : n + 4 - 4 = n
    OBVIOUS
  <2>2. queue' = [n \in 1..4 |-> ResolveFundingTargets(fch, freq[fch])[n + 4 - 4]]
    BY <1>4, <2>1
  <2>3. ResolveFundingTargets(fch, freq[fch])' = ResolveFundingTargets(fch, freq[fch])
    BY <1>1, <1>2, <1>3 DEF ResolveFundingTargets, RefsOf, SignerPDAFromRef
  <2>4. queue' = [n \in 1..Len(queue') |-> ResolveFundingTargets(fch, freq[fch])'[n + 4 - Len(queue')]]
    BY <1>4, <2>2, <2>3
  <2>5. Len(queue') \in 0..4
    BY <1>4
  <2>6. \A c \in DOMAIN freq : c \in Chains /\ validateMCMSRefs(c, freq[c])'
    BY <1>1, <1>2 DEF FundInv, RunOK, validateMCMSRefs, RefsOf
  <2>7. pc = "idle" /\ freq \in FundInputs /\ ftodo \subseteq DOMAIN freq
    BY <1>1 DEF FundInv, RunOK
  <2>8. QED
    BY <1>1, <1>2, <1>3, <2>4, <2>5, <2>6, <2>7 DEF RunOK, validateMCMSRefs, RefsOf
<1>6. Solvent'
  <2>1. \A c : Left(c) = 4 /\ Left(c)' = 4
    BY <1>1, <1>4 DEF Left
  <2>2. QED
    BY <1>1, <1>2, <2>1 DEF FundInv, Solvent
<1>7. PassedPaid'
  <2>1. \A c \in DOMAIN freq \ ftodo : Funded(c, freq[c])'
    BY <1>1, <1>2, FundedStable DEF FundInv, PassedPaid
  <2>2. 1..(4 - Len(queue')) = {}
    BY <1>4
  <2>3. QED
    BY <1>1, <2>1, <2>2 DEF PassedPaid
<1>8. QED
  BY <1>2, <1>5, <1>6, <1>7 DEF FundInv

\* A target of the queue that is paid leaves the others to be paid.
LEMMA NextTargetKeeps ==
    ASSUME FundInv, fpc = "pay", queue # <<>>, queue' = Tail(queue), paid \subseteq paid',
           UNCHANGED <<fpc, freq, ftodo, pc, ds, moved, replaced>>,
           NEW L, L = Len(queue), PaidAt(fch, freq[fch], 5 - L)'
    PROVE  RunOK' /\ PassedPaid'
<1>1. /\ Len(queue) \in 1..4 /\ Len(queue') = Len(queue) - 1
      /\ queue' = [n \in 1..(Len(queue) - 1) |->
                      ResolveFundingTargets(fch, freq[fch])[n + 4 - (Len(queue) - 1)]]
  BY QueueFacts DEF FundInv
<1>2. fch' = fch
  BY DEF fch
<1>3. ResolveFundingTargets(fch, freq[fch])' = ResolveFundingTargets(fch, freq[fch])
  BY <1>2 DEF ResolveFundingTargets, RefsOf, SignerPDAFromRef
<1>4. RunOK'
  <2>1. queue' = [n \in 1..Len(queue') |->
                     ResolveFundingTargets(fch, freq[fch])'[n + 4 - Len(queue')]]
    BY <1>1, <1>3
  <2>2. Len(queue') \in 0..4
    BY <1>1
  <2>3. \A c \in DOMAIN freq : c \in Chains /\ validateMCMSRefs(c, freq[c])'
    BY DEF FundInv, RunOK, validateMCMSRefs, RefsOf
  <2>4. pc = "idle" /\ freq \in FundInputs /\ ftodo \subseteq DOMAIN freq /\ fch \in ftodo
    BY DEF FundInv, RunOK
  <2>5. QED
    BY <1>2, <2>1, <2>2, <2>3, <2>4 DEF RunOK, validateMCMSRefs, RefsOf
<1>5. PassedPaid'
  <2>1. \A c \in DOMAIN freq \ ftodo : Funded(c, freq[c])'
    BY FundedStable DEF FundInv, PassedPaid
  <2>2. ASSUME NEW n \in 1..(4 - Len(queue')) PROVE PaidAt(fch, freq[fch], n)'
    <3>1. CASE n = 5 - L
      BY <3>1
    <3>2. CASE n # 5 - L
      <4>1. n \in 1..(4 - Len(queue)) /\ n \in 1..4
        BY <1>1, <3>2
      <4>2. PaidAt(fch, freq[fch], n)
        BY <4>1 DEF FundInv, PassedPaid
      <4>3. QED
        BY <1>2, <4>1, <4>2 DEF PaidAt, ResolveFundingTargets, SignerPDAFromRef, RefsOf, Received
    <3>3. QED
      BY <3>1, <3>2
  <2>3. QED
    BY <2>1, <2>2 DEF PassedPaid
<1>6. QED
  BY <1>4, <1>5

\* The target at the head of the queue is the next to be owed.
LEMMA HeadOwed ==
    ASSUME FundInv, fpc = "pay", queue # <<>>
    PROVE  /\ Head(queue).amount \in Nat /\ lamports[fch] \in 0..MaxUint64
           /\ Owed(freq[fch], Len(queue)) = Head(queue).amount + Owed(freq[fch], Len(queue) - 1)
           /\ Owed(freq[fch], Len(queue)) \in Nat /\ Owed(freq[fch], Len(queue) - 1) \in Nat
           /\ Owed(freq[fch], Len(queue) - 1) <= Owed(freq[fch], Len(queue))
<1>1. PICK i, c, L : i = freq /\ c = fch /\ L = Len(queue)
  OBVIOUS
<1>2. fch \in ftodo /\ freq \in FundInputs /\ ftodo \subseteq DOMAIN freq
  BY DEF FundInv, RunOK
<1>3. i \in FundInputs /\ c \in DOMAIN i
  BY <1>1, <1>2
<1>4. L \in 1..4 /\ Head(queue) = ResolveFundingTargets(c, i[c])[5 - L]
  BY <1>1, QueueFacts DEF FundInv
<1>5. Head(queue).amount = i[c].amount[Targets[5 - L]]
  <2>1. 5 - L \in 1..4
    BY <1>4
  <2>2. QED
    BY <1>4, <2>1 DEF ResolveFundingTargets
<1>6. /\ Owed(i[c], L) = i[c].amount[Targets[5 - L]] + Owed(i[c], L - 1)
      /\ Owed(i[c], L) \in Nat /\ Owed(i[c], L - 1) \in Nat
  BY <1>3, <1>4, OwedNext
<1>7. i[c].amount[Targets[5 - L]] \in Nat
  <2>1. 5 - L \in 1..4
    BY <1>4
  <2>2. i[c].amount[Targets[5 - L]] \in 0..MaxUint64
    BY <1>3, <2>1, AmountTypes
  <2>3. QED
    BY <2>2
<1>8. lamports[fch] \in 0..MaxUint64
  BY <1>2 DEF FundInv, RunOK, BooksOK
<1>9. Owed(i[c], L - 1) <= Owed(i[c], L)
  BY <1>6, <1>7
<1>10. QED
  BY <1>1, <1>5, <1>6, <1>7, <1>8, <1>9

\* One target less is left: one fee more was paid.
LEMMA FeeOfNext ==
    ASSUME NEW L \in 1..4
    PROVE  /\ Fee * (4 - (L - 1)) = Fee * (4 - L) + Fee
           /\ Fee \in Nat /\ Fee * (4 - L) \in Nat
<1>1. Fee \in Nat
  BY FundAssumption
<1>2. CASE L = 1
  BY <1>1, <1>2
<1>3. CASE L = 2
  BY <1>1, <1>3
<1>4. CASE L = 3
  BY <1>1, <1>4
<1>5. CASE L = 4
  BY <1>1, <1>5
<1>6. QED
  BY <1>1, <1>2, <1>3, <1>4, <1>5

\* A target with a zero amount is owed nothing, one that is reported was paid.
LEMMA SkipKeeps ==
    ASSUME FundInv, SeqFundSolanaMCMPDAs
    PROVE  FundInv'
<1>1. /\ fpc = "pay" /\ queue # <<>> /\ queue' = Tail(queue) /\ Quiet
      /\ UNCHANGED <<fpc, freq, ftodo, spent>>
      /\ Head(queue).amount = 0 \/ Reusable("fund", OpFundKeyInput(Head(queue)))
  BY DEF SeqFundSolanaMCMPDAs, Quiet
<1>2. BooksOK' /\ Once' /\ ReportsTrue' /\ UNCHANGED <<pc, ds, moved, replaced, lamports, paid>>
  BY <1>1, QuietKeeps
<1>3. /\ fch \in ftodo /\ freq \in FundInputs /\ ftodo \subseteq DOMAIN freq
      /\ validateMCMSRefs(fch, freq[fch])
  BY <1>1, FirstLeft DEF FundInv, RunOK
<1>4. PICK L : L = Len(queue)
  OBVIOUS
<1>5. L \in 1..4 /\ Head(queue) = ResolveFundingTargets(fch, freq[fch])[5 - L] /\ Len(queue') = L - 1
  BY <1>1, <1>4, QueueFacts DEF FundInv
<1>6. PaidAt(fch, freq[fch], 5 - L)
  <2>1. 5 - L \in 1..4
    BY <1>5
  <2>2. RefsOf(fch, freq[fch])[Targets[5 - L]] # None
    BY <1>3, <2>1 DEF validateMCMSRefs
  <2>3. Head(queue).amount # 0 => Received(Head(queue).to, Head(queue).amount)
    BY <1>1, PaymentReported DEF FundInv, OpFundKeyInput
  <2>4. QED
    BY <1>5, <2>2, <2>3 DEF PaidAt
<1>7. PaidAt(fch, freq[fch], 5 - L)'
  <2>1. fch' = fch
    BY <1>1 DEF fch
  <2>2. QED
    BY <1>1, <1>2, <1>6, <2>1 DEF PaidAt, ResolveFundingTargets, SignerPDAFromRef, RefsOf, Received
<1>8. RunOK' /\ PassedPaid'
  BY <1>1, <1>2, <1>4, <1>7, NextTargetKeeps
<1>9. Solvent'
  <2>1. fch' = fch
    BY <1>1 DEF fch
  <2>2. /\ lamports[fch] \in Nat /\ Owed(freq[fch], L) \in Nat /\ Owed(freq[fch], L - 1) \in Nat
        /\ Owed(freq[fch], L - 1) <= Owed(freq[fch], L)
    BY <1>1, <1>4, HeadOwed
  <2>3. \A c : c = fch => Left(c) = L /\ Left(c)' = L - 1
    BY <1>1, <1>4, <1>5, <2>1 DEF Left
  <2>4. \A c : c # fch => Left(c) = 4 /\ Left(c)' = 4
    BY <1>1, <2>1 DEF Left
  <2>5. ASSUME NEW c \in ftodo \ spent, NoWrap(freq[c]) 
        PROVE  lamports[c] + Fee * (4 - Left(c)') >= Owed(freq[c], Left(c)')
    <3>1. lamports[c] + Fee * (4 - Left(c)) >= Owed(freq[c], Left(c))
      BY <1>1, <2>5 DEF FundInv, Solvent
    <3>2. CASE c = fch
      <4>1. lamports[fch] + Fee * (4 - L) >= Owed(freq[fch], L)
        BY <2>3, <3>1, <3>2
      <4>2. Fee * (4 - (L - 1)) = Fee * (4 - L) + Fee /\ Fee \in Nat /\ Fee * (4 - L) \in Nat
        BY <1>5, FeeOfNext
      <4>3. lamports[fch] + Fee * (4 - (L - 1)) >= Owed(freq[fch], L - 1)
        BY <2>2, <4>1, <4>2
      <4>4. QED
        BY <2>3, <3>2, <4>3
    <3>3. QED
      BY <2>4, <3>1, <3>2
  <2>6. QED
    BY <1>1, <1>2, <2>5 DEF Solvent
<1>10. QED
  BY <1>2, <1>8, <1>9 DEF FundInv

\* A payment that lands is reported, and its amount is no longer owed.
LEMMA PayKeeps ==
    ASSUME FundInv, OpFundKey
    PROVE  FundInv'
<1>1. /\ fpc = "pay" /\ queue # <<>> /\ queue' = Tail(queue)
      /\ UNCHANGED <<fpc, freq, ftodo, spent, unseen, ds, pc, moved, replaced, bundles>>
      /\ Head(queue).amount # 0 /\ ~Reusable("fund", OpFundKeyInput(Head(queue)))
      /\ Pay(Head(queue)) /\ Report("fund", OpFundKeyInput(Head(queue)), None)
  BY DEF OpFundKey, MustPay, Others, changes, counters
<1>2. PICK t, L : t = Head(queue) /\ L = Len(queue)
  OBVIOUS
<1>3. fch' = fch
  BY <1>1 DEF fch
<1>4. /\ fch \in ftodo /\ fch \in Chains /\ freq \in FundInputs /\ ftodo \subseteq DOMAIN freq
      /\ validateMCMSRefs(fch, freq[fch])
  BY <1>1, FirstLeft DEF FundInv, RunOK
<1>5. L \in 1..4 /\ t = ResolveFundingTargets(fch, freq[fch])[5 - L] /\ Len(queue') = L - 1
  BY <1>1, <1>2, QueueFacts DEF FundInv
<1>6. /\ t.amount \in Nat /\ lamports[fch] \in 0..MaxUint64
      /\ Owed(freq[fch], L) = t.amount + Owed(freq[fch], L - 1)
      /\ Owed(freq[fch], L) \in Nat /\ Owed(freq[fch], L - 1) \in Nat
  BY <1>1, <1>2, HeadOwed
<1>7. PICK m : /\ m = Cardinality({p \in paid : p.to = t.to /\ p.amount = t.amount}) + 1
               /\ paid' = paid \cup {[to |-> t.to, amount |-> t.amount, n |-> m]}
               /\ lamports[fch] >= t.amount + Fee
               /\ lamports' = [lamports EXCEPT ![fch] = @ - (t.amount + Fee)]
  BY <1>1, <1>2 DEF Pay
<1>8. /\ lamports \in [Chains -> 0..MaxUint64] /\ DOMAIN reports = {"chain", "op", "fund"}
  BY DEF FundInv, BooksOK
<1>9. /\ reports'["fund"] = reports["fund"] \cup {[k |-> [to |-> t.to, amount |-> t.amount], out |-> None]}
      /\ DOMAIN reports' = {"chain", "op", "fund"}
  BY <1>1, <1>2, <1>8 DEF Report, OpFundKeyInput
<1>10. BooksOK'
  <2>1. lamports[fch] - (t.amount + Fee) \in 0..MaxUint64
    BY <1>6, <1>7, BoundsAssumption, FundAssumption
  <2>2. lamports' \in [Chains -> 0..MaxUint64]
    BY <1>7, <1>8, <2>1
  <2>3. QED
    BY <1>1, <1>9, <2>2 DEF FundInv, BooksOK
<1>11. Received(t.to, t.amount)'
  <2>1. PICK p : p = [to |-> t.to, amount |-> t.amount, n |-> m]
    OBVIOUS
  <2>2. p \in paid' /\ p.to = t.to /\ p.amount = t.amount
    BY <1>7, <2>1
  <2>3. QED
    BY <2>2 DEF Received
<1>12. Once'
  <2>1. ASSUME NEW p \in paid, bundles = 0, ~unseen
        PROVE  p.n = 1 /\ Reusable("fund", [to |-> p.to, amount |-> p.amount])
    BY <2>1 DEF FundInv, Once
  <2>2. ASSUME bundles = 0, ~unseen PROVE m = 1
    <3>1. \A p \in paid : ~(p.to = t.to /\ p.amount = t.amount)
      BY <1>1, <1>2, <2>1, <2>2 DEF OpFundKeyInput
    <3>2. {p \in paid : p.to = t.to /\ p.amount = t.amount} = {}
      BY <3>1
    <3>3. m = Cardinality({p \in paid : p.to = t.to /\ p.amount = t.amount}) + 1
      BY <1>7
    <3>4. Cardinality({p \in paid : p.to = t.to /\ p.amount = t.amount}) = 0
      BY <3>2, FS_EmptySet
    <3>5. QED
      BY <3>3, <3>4
  <2>3. \A k : Reusable("fund", k) => Reusable("fund", k)'
    BY <1>9 DEF Reusable
  <2>4. Reusable("fund", [to |-> t.to, amount |-> t.amount])'
    <3>1. PICK r : r = [k |-> [to |-> t.to, amount |-> t.amount], out |-> None]
      OBVIOUS
    <3>2. r \in reports'["fund"] /\ r.k = [to |-> t.to, amount |-> t.amount]
      BY <1>9, <3>1
    <3>3. QED
      BY <3>2 DEF Reusable
  <2>5. ASSUME NEW p \in paid', bundles = 0, ~unseen
        PROVE  p.n = 1 /\ Reusable("fund", [to |-> p.to, amount |-> p.amount])'
    <3>1. CASE p \in paid
      BY <2>1, <2>3, <2>5, <3>1
    <3>2. CASE p = [to |-> t.to, amount |-> t.amount, n |-> m]
      BY <2>2, <2>4, <2>5, <3>2
    <3>3. QED
      BY <1>7, <3>1, <3>2
  <2>6. QED
    BY <1>1, <2>5 DEF Once
<1>13. ReportsTrue'
  <2>1. \A r \in reports["fund"] : ReportTrue(r)'
    BY <1>1, <1>7, PayingKeeps DEF FundInv
  <2>2. ASSUME NEW r, r = [k |-> [to |-> t.to, amount |-> t.amount], out |-> None]
        PROVE  ReportTrue(r)'
    BY <1>11, <2>2 DEF ReportTrue
  <2>3. QED
    BY <1>9, <2>1, <2>2 DEF ReportsTrue
<1>14. PaidAt(fch, freq[fch], 5 - L)'
  <2>1. 5 - L \in 1..4
    BY <1>5
  <2>2. RefsOf(fch, freq[fch])[Targets[5 - L]] # None
    BY <1>4, <2>1 DEF validateMCMSRefs
  <2>3. RefsOf(fch, freq[fch])' = RefsOf(fch, freq[fch])
    BY <1>1, <1>3 DEF RefsOf
  <2>4. ResolveFundingTargets(fch, freq[fch])' = ResolveFundingTargets(fch, freq[fch])
    BY <1>1, <1>3 DEF ResolveFundingTargets, RefsOf, SignerPDAFromRef
  <2>5. QED
    BY <1>5, <1>11, <2>2, <2>3, <2>4 DEF PaidAt
<1>15. RunOK' /\ PassedPaid'
  BY <1>1, <1>2, <1>7, <1>14, NextTargetKeeps
<1>16. Solvent'
  <2>1. \A c : c = fch => Left(c) = L /\ Left(c)' = L - 1
    BY <1>1, <1>2, <1>3, <1>5 DEF Left
  <2>2. \A c : c # fch => Left(c) = 4 /\ Left(c)' = 4
    BY <1>1, <1>3 DEF Left
  <2>3. ASSUME NEW c \in ftodo \ spent, NoWrap(freq[c]) 
        PROVE  lamports'[c] + Fee * (4 - Left(c)') >= Owed(freq[c], Left(c)')
    <3>1. lamports[c] + Fee * (4 - Left(c)) >= Owed(freq[c], Left(c)) /\ c \in Chains
      BY <1>1, <2>3 DEF FundInv, RunOK, Solvent
    <3>2. CASE c = fch
      <4>1. lamports[fch] + Fee * (4 - L) >= Owed(freq[fch], L)
        BY <2>1, <3>1, <3>2
      <4>2. lamports'[fch] = lamports[fch] - (t.amount + Fee)
        BY <1>4, <1>7, <1>8
      <4>3. Fee * (4 - (L - 1)) = Fee * (4 - L) + Fee /\ Fee \in Nat /\ Fee * (4 - L) \in Nat
        BY <1>5, FeeOfNext
      <4>4. lamports'[fch] + Fee * (4 - (L - 1)) >= Owed(freq[fch], L - 1)
        BY <1>6, <4>1, <4>2, <4>3
      <4>5. QED
        BY <2>1, <3>2, <4>4
    <3>3. CASE c # fch
      BY <1>7, <1>8, <2>2, <3>1, <3>3
    <3>4. QED
      BY <3>2, <3>3
  <2>4. QED
    BY <1>1, <2>3 DEF Solvent
<1>17. QED
  BY <1>10, <1>12, <1>13, <1>15, <1>16 DEF FundInv

\* A chain whose targets are all paid is reported, and funded.
LEMMA FundChainDoneKeeps ==
    ASSUME FundInv, FundChainDone
    PROVE  FundInv'
<1>1. /\ fpc = "pay" /\ queue = <<>> /\ fpc' = "chain" /\ ftodo' = ftodo \ {fch}
      /\ UNCHANGED <<freq, spent, unseen, ds, pc, moved, replaced, bundles, lamports, paid>>
      /\ Report("fund", FundChainInput, None)
  BY DEF FundChainDone, Others, changes, counters
<1>2. PICK c, f : c = fch /\ f = freq[fch]
  OBVIOUS
<1>3. fch \in ftodo
  BY <1>1 DEF FundInv, RunOK
<1>4. c \in Chains /\ f.qual \in Quals
  BY <1>1, <1>2, <1>3, FirstLeft
<1>5. Funded(c, f)
  <2>1. Len(queue) = 0
    BY <1>1
  <2>2. \A n \in 1..4 : PaidAt(c, f, n)
    BY <1>1, <1>2, <2>1 DEF FundInv, PassedPaid
  <2>3. QED
    BY <2>2 DEF Funded
<1>6. Funded(c, f)'
  BY <1>1, <1>5, FundedStable
<1>7. /\ DOMAIN reports' = {"chain", "op", "fund"}
      /\ reports'["fund"] = reports["fund"] \cup {[k |-> [ch |-> c, config |-> f], out |-> None]}
  BY <1>1, <1>2 DEF FundInv, BooksOK, Report, FundChainInput
<1>8. BooksOK'
  BY <1>1, <1>7 DEF FundInv, BooksOK
<1>9. RunOK'
  BY <1>1 DEF FundInv, RunOK, validateMCMSRefs, RefsOf
<1>10. Solvent'
  <2>1. \A d \in ftodo' : Left(d) = 4 /\ Left(d)' = 4
    BY <1>1 DEF Left
  <2>2. QED
    BY <1>1, <2>1 DEF FundInv, Solvent
<1>11. Once'
  <2>1. \A k : Reusable("fund", k) => Reusable("fund", k)'
    BY <1>7 DEF Reusable
  <2>2. QED
    BY <1>1, <2>1 DEF FundInv, Once
<1>12. ReportsTrue'
  <2>1. \A r \in reports["fund"] : ReportTrue(r)'
    BY <1>1, PayingKeeps DEF FundInv
  <2>2. ASSUME NEW r, r = [k |-> [ch |-> c, config |-> f], out |-> None]
        PROVE  ReportTrue(r)'
    <3>1. r.k.ch = c /\ r.k.config = f /\ "to" \notin DOMAIN r.k
      BY <2>2
    <3>2. QED
      BY <1>4, <1>6, <3>1 DEF ReportTrue
  <2>3. QED
    BY <1>7, <2>1, <2>2 DEF ReportsTrue
<1>13. PassedPaid'
  <2>1. \A d \in DOMAIN freq \ ftodo : Funded(d, freq[d])'
    BY <1>1, FundedStable DEF FundInv, PassedPaid
  <2>2. \A d \in DOMAIN freq \ ftodo' : Funded(d, freq[d])'
    BY <1>1, <1>2, <1>6, <2>1
  <2>3. QED
    BY <1>1, <2>2 DEF PassedPaid
<1>14. QED
  BY <1>8, <1>9, <1>10, <1>11, <1>12, <1>13 DEF FundInv

\* The end of a run changes no books.
LEMMA FundEndKeeps ==
    ASSUME FundInv, buildOutput
    PROVE  FundInv'
<1>1. fpc' = "idle" /\ Quiet
  BY DEF buildOutput, FundEnd, Quiet
<1>2. BooksOK' /\ Once' /\ ReportsTrue'
  BY <1>1, QuietKeeps
<1>3. RunOK' /\ Solvent' /\ PassedPaid'
  BY <1>1 DEF RunOK, Solvent, PassedPaid
<1>4. QED
  BY <1>2, <1>3 DEF FundInv

\* A transfer that does not land leaves the deployer a balance.
LEMMA NothingPaid ==
    ASSUME FundInv, fpc = "pay", queue # <<>>, PayNothing
    PROVE  paid' = paid /\ lamports' \in [Chains -> 0..MaxUint64]
<1>1. lamports \in [Chains -> 0..MaxUint64] /\ lamports[fch] \in 0..MaxUint64
  BY HeadOwed DEF FundInv, BooksOK
<1>2. PICK f \in {0, Fee} : f <= lamports[fch] /\ lamports' = [lamports EXCEPT ![fch] = @ - f]
  BY DEF PayNothing
<1>3. f \in Nat
  BY <1>2, FundAssumption
<1>4. lamports[fch] - f \in 0..MaxUint64
  BY <1>1, <1>2, <1>3, BoundsAssumption
<1>5. lamports' \in [Chains -> 0..MaxUint64]
  BY <1>1, <1>2, <1>4
<1>6. QED
  BY <1>5 DEF PayNothing

\* A run that ends for lack of lamports has paid nothing it did not report.
LEMMA InsufficientKeeps ==
    ASSUME FundInv, Insufficient
    PROVE  FundInv'
<1>1. /\ fpc = "pay" /\ queue # <<>> /\ fpc' = "idle"
      /\ UNCHANGED <<reports, ds, moved, replaced, bundles, unseen>> /\ PayNothing
  BY DEF Insufficient, MustPay, FundEnd, vars, changes, counters
<1>2. paid' = paid /\ lamports' \in [Chains -> 0..MaxUint64]
  BY <1>1, NothingPaid
<1>3. BooksOK'
  BY <1>1, <1>2 DEF FundInv, BooksOK
<1>4. RunOK' /\ Solvent' /\ PassedPaid'
  BY <1>1 DEF RunOK, Solvent, PassedPaid
<1>5. Once'
  BY <1>1, <1>2 DEF FundInv, Once, Reusable
<1>6. ReportsTrue'
  <2>1. \A r \in reports["fund"] : ReportTrue(r)'
    BY <1>1, <1>2, PayingKeeps DEF FundInv
  <2>2. QED
    BY <1>1, <2>1 DEF ReportsTrue
<1>7. QED
  BY <1>3, <1>4, <1>5, <1>6 DEF FundInv

\* A payment may land without a report when the run fails.
LEMMA FundFailKeeps ==
    ASSUME FundInv, FundFail
    PROVE  FundInv'
<1>1. /\ fpc = "pay" /\ queue # <<>> /\ fpc' = "idle"
      /\ UNCHANGED <<reports, ds, moved, replaced, bundles>>
      /\ \/ PayNothing /\ UNCHANGED unseen
         \/ Pay(Head(queue)) /\ unseen' = TRUE
  BY DEF FundFail, MustPay, FundEnd, changes
<1>2. paid \subseteq paid' /\ lamports' \in [Chains -> 0..MaxUint64]
  <2>1. CASE PayNothing
    BY <1>1, <2>1, NothingPaid
  <2>2. CASE Pay(Head(queue))
    <3>1. /\ Head(queue).amount \in Nat /\ lamports[fch] \in 0..MaxUint64
          /\ lamports \in [Chains -> 0..MaxUint64]
      BY <1>1, HeadOwed DEF FundInv, BooksOK
    <3>2. /\ paid \subseteq paid' /\ lamports[fch] >= Head(queue).amount + Fee
          /\ lamports' = [lamports EXCEPT ![fch] = @ - (Head(queue).amount + Fee)]
      BY <2>2 DEF Pay
    <3>3. lamports[fch] - (Head(queue).amount + Fee) \in 0..MaxUint64
      BY <3>1, <3>2, BoundsAssumption, FundAssumption
    <3>4. QED
      BY <3>1, <3>2, <3>3
  <2>3. QED
    BY <1>1, <2>1, <2>2
<1>3. BooksOK'
  BY <1>1, <1>2 DEF FundInv, BooksOK
<1>4. RunOK' /\ Solvent' /\ PassedPaid'
  BY <1>1 DEF RunOK, Solvent, PassedPaid
<1>5. Once'
  <2>1. CASE unseen' = TRUE
    BY <2>1 DEF Once
  <2>2. CASE PayNothing /\ UNCHANGED unseen
    BY <1>1, <2>2 DEF FundInv, Once, Reusable, PayNothing
  <2>3. QED
    BY <1>1, <2>1, <2>2
<1>6. ReportsTrue'
  <2>1. \A r \in reports["fund"] : ReportTrue(r)'
    BY <1>1, <1>2, PayingKeeps DEF FundInv
  <2>2. QED
    BY <1>1, <2>1 DEF ReportsTrue
<1>7. QED
  BY <1>3, <1>4, <1>5, <1>6 DEF FundInv

\* A running changeset whose queue and datastore stay as they are is where it was.
LEMMA StandsStill ==
    ASSUME FundInv, UNCHANGED <<fpc, freq, ftodo, queue, pc, ds, moved, replaced, paid>>
    PROVE  RunOK' /\ PassedPaid'
<1>1. fch' = fch
  BY DEF fch
<1>2. ResolveFundingTargets(fch, freq[fch])' = ResolveFundingTargets(fch, freq[fch])
  BY <1>1 DEF ResolveFundingTargets, RefsOf, SignerPDAFromRef
<1>3. RunOK'
  <2>1. fpc # "idle" =>
          /\ pc = "idle" /\ freq \in FundInputs /\ ftodo \subseteq DOMAIN freq
          /\ \A c \in DOMAIN freq : c \in Chains /\ validateMCMSRefs(c, freq[c])'
    BY DEF FundInv, RunOK, validateMCMSRefs, RefsOf
  <2>2. fpc = "pay" =>
          /\ fch \in ftodo /\ Len(queue) \in 0..4
          /\ queue = [n \in 1..Len(queue) |->
                        ResolveFundingTargets(fch, freq[fch])[n + 4 - Len(queue)]]
    BY DEF FundInv, RunOK
  <2>3. fpc \in {"idle", "chain", "pay"}
    BY DEF FundInv, RunOK
  <2>4. QED
    BY <1>1, <1>2, <2>1, <2>2, <2>3 DEF RunOK, validateMCMSRefs, RefsOf
<1>4. PassedPaid'
  <2>1. ASSUME fpc # "idle" PROVE \A d \in DOMAIN freq \ ftodo : Funded(d, freq[d])'
    BY <2>1, FundedStable DEF FundInv, PassedPaid
  <2>2. ASSUME fpc = "pay", NEW n \in 1..(4 - Len(queue)) PROVE PaidAt(fch, freq[fch], n)'
    <3>1. PaidAt(fch, freq[fch], n)
      BY <2>2 DEF FundInv, PassedPaid
    <3>2. RefsOf(fch, freq[fch])' = RefsOf(fch, freq[fch])
      BY <1>1 DEF RefsOf
    <3>3. QED
      BY <1>2, <3>1, <3>2 DEF PaidAt, Received
  <2>3. QED
    BY <2>1, <2>2 DEF PassedPaid
<1>5. QED
  BY <1>3, <1>4

\* Others spend what the run counted on, and the chain is marked.
LEMMA SpendKeeps ==
    ASSUME FundInv, NEW c \in Chains, Spend(c)
    PROVE  FundInv'
<1>1. /\ fpc = "pay" /\ spent' = spent \cup {c}
      /\ UNCHANGED <<vars, paid, fpc, freq, ftodo, queue, unseen>>
  BY DEF Spend
<1>2. PICK n \in 1..lamports[c] : lamports' = [lamports EXCEPT ![c] = @ - n]
  BY DEF Spend
<1>3. lamports \in [Chains -> 0..MaxUint64]
  BY DEF FundInv, BooksOK
<1>4. UNCHANGED <<ds, reports, pc, moved, replaced, bundles, unseen, paid>>
  BY <1>1 DEF vars, changes, counters
<1>5. BooksOK'
  <2>1. lamports[c] \in 0..MaxUint64
    BY <1>3
  <2>2. lamports[c] - n \in 0..MaxUint64
    BY <2>1, BoundsAssumption
  <2>3. lamports' \in [Chains -> 0..MaxUint64]
    BY <1>2, <1>3, <2>2
  <2>4. QED
    BY <1>4, <2>3 DEF FundInv, BooksOK
<1>6. fch' = fch
  BY <1>1 DEF fch
<1>7. RunOK' /\ PassedPaid'
  BY <1>1, <1>4, StandsStill
<1>8. Solvent'
  <2>1. \A d : Left(d)' = Left(d)
    BY <1>1, <1>6 DEF Left
  <2>2. \A d \in ftodo \ spent' : lamports'[d] = lamports[d]
    BY <1>1, <1>2
  <2>3. QED
    BY <1>1, <2>1, <2>2 DEF FundInv, Solvent
<1>9. Once'
  BY <1>4 DEF FundInv, Once, Reusable
<1>10. ReportsTrue'
  <2>1. \A r \in reports["fund"] : ReportTrue(r)'
    BY <1>4, PayingKeeps DEF FundInv
  <2>2. QED
    BY <1>4, <2>1 DEF ReportsTrue
<1>11. QED
  BY <1>5, <1>7, <1>8, <1>9, <1>10 DEF FundInv

\* At first nothing is paid and nothing is reported.
LEMMA InitFund == SolanaInit => FundInv
<1> SUFFICES ASSUME SolanaInit PROVE FundInv
  OBVIOUS
<1>1. /\ ds = [t \in Chains \X Quals |-> Nothing] /\ reports = NoReports /\ bundles = 0
      /\ lamports = [c \in Chains |-> Balance] /\ paid = {} /\ fpc = "idle"
  BY DEF SolanaInit, Init, FundInit
<1>2. BooksOK
  BY <1>1, FundAssumption DEF BooksOK, NoReports
<1>3. ReportsTrue
  BY <1>1 DEF ReportsTrue, NoReports
<1>4. QED
  BY <1>1, <1>2, <1>3 DEF FundInv, RunOK, Solvent, PassedPaid, Once

\* A step that changes nothing keeps everything.
LEMMA StutterFund ==
    ASSUME FundInv, UNCHANGED allVars
    PROVE  FundInv'
<1>1. /\ Quiet /\ UNCHANGED <<fpc, freq, ftodo, queue, spent>>
  BY DEF allVars, fundVars, Quiet
<1>2. BooksOK' /\ Once' /\ ReportsTrue' /\ UNCHANGED <<pc, ds, moved, replaced, lamports, paid>>
  BY <1>1, QuietKeeps
<1>3. fch' = fch
  BY <1>1 DEF fch
<1>4. RunOK' /\ PassedPaid'
  BY <1>1, <1>2, StandsStill
<1>5. Solvent'
  BY <1>1, <1>2, <1>3 DEF FundInv, Solvent, Left
<1>6. QED
  BY <1>2, <1>4, <1>5 DEF FundInv

\* Every step of the deploy and of the payments keeps the invariant.
LEMMA NextFund ==
    ASSUME FundInv, [SolanaNext]_allVars
    PROVE  FundInv'
<1>1. CASE fpc = "idle" /\ DeployNext /\ UNCHANGED fundVars
  BY <1>1, DeployFund
<1>2. ASSUME NEW i \in FundInputs, StartFund(i) PROVE FundInv'
  BY <1>2, StartFundKeeps
<1>3. CASE FundRun
  BY <1>3, ReuseFundingKeeps, SeqFundKeeps, SkipKeeps, PayKeeps, FundChainDoneKeeps, FundEndKeeps,
     InsufficientKeeps DEF FundRun
<1>4. CASE FundFail
  BY <1>4, FundFailKeeps
<1>5. ASSUME NEW c \in Chains, Spend(c) PROVE FundInv'
  BY <1>5, SpendKeeps
<1>6. CASE UNCHANGED allVars
  BY <1>6, StutterFund
<1>7. QED
  BY <1>1, <1>2, <1>3, <1>4, <1>5, <1>6 DEF SolanaNext

----------------------------------------------------------------------------
(* Theorems *)

\* The invariant holds of every run of the deploys, the payments, the
\* operator's deletions and whatever fails between them.
THEOREM FundInvariance == SolanaSpec => []FundInv
<1>1. SolanaInit => FundInv
  BY InitFund
<1>2. FundInv /\ [SolanaNext]_allVars => FundInv'
  BY NextFund
<1>3. QED
  BY <1>1, <1>2, PTL DEF SolanaSpec

\* Within a bundle, and unless the result of a transfer that landed was lost, no
\* PDA gets an amount twice, however often the changeset is run (OpFundKey's report).
THEOREM NotPaidTwice == SolanaSpec => []PaidOnce
<1>1. FundInv => PaidOnce
  BY DEF FundInv, Once, PaidOnce
<1>2. QED
  BY <1>1, FundInvariance, PTL

\* What a run may lack is only fees: at each transfer the balance, and a fee for
\* each target before it, cover the amounts that are left, unless others spent or
\* the sum overflowed (validateDeployerBalance, RequiredFunding).
THEOREM ChecksAllButFees == SolanaSpec => []ShortOnlyByFees
<1>1. FundInv => ShortOnlyByFees
  <2> SUFFICES ASSUME FundInv, MustPay, NoWrap(freq[fch]), fch \notin spent
               PROVE  lamports[fch] + Fee * (4 - Len(queue)) >= Owed(freq[fch], Len(queue))
    BY DEF ShortOnlyByFees
  <2>1. fpc = "pay" /\ queue # <<>>
    BY DEF MustPay
  <2>2. fch \in ftodo
    BY <2>1 DEF FundInv, RunOK
  <2>3. Left(fch) = Len(queue)
    BY <2>1 DEF Left
  <2>4. QED
    BY <2>1, <2>2, <2>3 DEF FundInv, Solvent
<1>2. QED
  BY <1>1, FundInvariance, PTL

\* When the changeset succeeds, the PDAs of the instances now recorded have got
\* their amounts, also where the report of a chain was reused, unless refs of
\* the set were deleted or replaced since the bundle began.
THEOREM SuccessFunds == SolanaSpec => PdasFunded
<1>1. ASSUME FundInv, fpc = "chain", ftodo = {}, NEW c \in DOMAIN freq,
             <<c, freq[c].qual>> \notin moved \cup replaced, NEW n \in 1..4,
             ResolveFundingTargets(c, freq[c])[n].amount # 0
      PROVE  Received(ResolveFundingTargets(c, freq[c])[n].to, ResolveFundingTargets(c, freq[c])[n].amount)
  <2>1. Funded(c, freq[c])
    BY <1>1 DEF FundInv, PassedPaid
  <2>2. PaidAt(c, freq[c], n)
    BY <1>1, <2>1 DEF Funded, Excepted
  <2>3. QED
    BY <1>1, <2>2 DEF PaidAt
<1> DEFINE Succeeds == fpc = "chain" /\ ftodo = {} /\ fpc' = "idle" =>
                \A c \in DOMAIN freq : <<c, freq[c].qual>> \notin moved \cup replaced =>
                   \A n \in 1..4 :
                      LET t == ResolveFundingTargets(c, freq[c])[n]
                      IN  t.amount # 0 => Received(t.to, t.amount)
<1>2. FundInv => Succeeds
  BY <1>1
<1>3. QED
  BY <1>2, FundInvariance, PTL DEF PdasFunded
=============================================================================
